---------------------------- MODULE RoundsProofs ----------------------------
(***************************************************************************)
(* More proofs about Compressor, with runs that die and are resumed: what  *)
(* the directory and the progress files guarantee at any time, and why     *)
(* generate-all leaves enough droplets in every epoch.                     *)
(***************************************************************************)
EXTENDS CompressorProofs, WellFoundedInduction
------------------------------------------------------------------------------
(* Torn files: a run that dies leaves at most the one it was writing.       *)

TornFiles(s) == UNION {{<<e, n>> : n \in DOMAIN s[e] \ Whole(s, e)} : e \in DOMAIN s}

TornInv == /\ IsFiniteSet(TornFiles(store))
           /\ Cardinality(TornFiles(store)) <= crashes + (IF pc = "write" THEN 1 ELSE 0)

LEMMA TornMember ==
  ASSUME NEW s, NEW p
  PROVE  p \in TornFiles(s) <=>
           \E e \in DOMAIN s : \E n \in DOMAIN s[e] : s[e][n] = Torn /\ p = <<e, n>>
BY DEF TornFiles, Whole

LEMMA TornOpened ==
  ASSUME NEW e, NEW s PROVE TornFiles(OpenDir(s, e)) = TornFiles(s)
<1>1. ASSUME NEW p PROVE p \in TornFiles(OpenDir(s, e)) <=> p \in TornFiles(s)
  BY TornMember DEF OpenDir, NoFiles
<1> QED BY <1>1

LEMMA TornCreated ==
  ASSUME NEW s, NEW e \in DOMAIN s, NEW n, n \notin DOMAIN s[e]
  PROVE  TornFiles(CreateFile(s, e, n)) = TornFiles(s) \cup {<<e, n>>}
<1> DEFINE t == CreateFile(s, e, n)
<1>1. /\ DOMAIN t = DOMAIN s /\ DOMAIN t[e] = DOMAIN s[e] \cup {n} /\ t[e][n] = Torn
      /\ \A k \in DOMAIN s[e] : t[e][k] = s[e][k]
      /\ \A d \in DOMAIN s : d # e => t[d] = s[d]
  BY DEF CreateFile, PutFile
<1> HIDE DEF t
<1>2. ASSUME NEW p PROVE p \in TornFiles(t) <=> p \in TornFiles(s) \/ p = <<e, n>>
  <2>1. ASSUME p \in TornFiles(t) PROVE p \in TornFiles(s) \/ p = <<e, n>>
    <3>1. PICK d, k : d \in DOMAIN t /\ k \in DOMAIN t[d] /\ t[d][k] = Torn /\ p = <<d, k>>
      BY <2>1, TornMember
    <3> QED BY <1>1, <3>1, TornMember
  <2>2. ASSUME p \in TornFiles(s) PROVE p \in TornFiles(t)
    <3>1. PICK d, k : d \in DOMAIN s /\ k \in DOMAIN s[d] /\ s[d][k] = Torn /\ p = <<d, k>>
      BY <2>2, TornMember
    <3>2. d \in DOMAIN t /\ k \in DOMAIN t[d] /\ t[d][k] = Torn
      BY <1>1, <3>1
    <3> QED BY <3>1, <3>2, TornMember
  <2>3. <<e, n>> \in TornFiles(t)
    BY <1>1, TornMember
  <2> QED BY <2>1, <2>2, <2>3
<1> QED BY <1>2 DEF t

LEMMA TornWritten ==
  ASSUME NEW s, NEW e \in DOMAIN s, NEW n \in DOMAIN s[e], s[e][n] = Torn,
         NEW content, content # Torn
  PROVE  /\ TornFiles(PutFile(s, e, n, content)) = TornFiles(s) \ {<<e, n>>}
         /\ <<e, n>> \in TornFiles(s)
<1> DEFINE t == PutFile(s, e, n, content)
<1>1. /\ DOMAIN t = DOMAIN s /\ DOMAIN t[e] = DOMAIN s[e] /\ t[e][n] = content
      /\ \A k \in DOMAIN s[e] : k # n => t[e][k] = s[e][k]
      /\ \A d \in DOMAIN s : d # e => t[d] = s[d]
  BY DEF PutFile
<1> HIDE DEF t
<1>2. ASSUME NEW p PROVE p \in TornFiles(t) <=> p \in TornFiles(s) /\ p # <<e, n>>
  <2>1. ASSUME p \in TornFiles(t) PROVE p \in TornFiles(s) /\ p # <<e, n>>
    <3>1. PICK d, k : d \in DOMAIN t /\ k \in DOMAIN t[d] /\ t[d][k] = Torn /\ p = <<d, k>>
      BY <2>1, TornMember
    <3>2. d \in DOMAIN s /\ k \in DOMAIN s[d] /\ s[d][k] = Torn /\ ~(d = e /\ k = n)
      BY <1>1, <3>1
    <3> QED BY <3>1, <3>2, TornMember
  <2>2. ASSUME p \in TornFiles(s), p # <<e, n>> PROVE p \in TornFiles(t)
    <3>1. PICK d, k : d \in DOMAIN s /\ k \in DOMAIN s[d] /\ s[d][k] = Torn /\ p = <<d, k>>
      BY <2>2, TornMember
    <3>2. d \in DOMAIN t /\ k \in DOMAIN t[d] /\ t[d][k] = Torn
      BY <1>1, <2>2, <3>1
    <3> QED BY <3>1, <3>2, TornMember
  <2> QED BY <2>1, <2>2
<1>3. <<e, n>> \in TornFiles(s)
  BY TornMember
<1> QED BY <1>2, <1>3 DEF t

LEMMA TornInvariant ==
  TypeOK /\ StepOK /\ NumberInv /\ TornInv /\ [Next]_vars => TornInv'
<1> SUFFICES ASSUME TypeOK, StepOK, NumberInv, TornInv, [Next]_vars PROVE TornInv'
  OBVIOUS
<1>0. /\ Cardinality(TornFiles(store)) \in Nat /\ crashes \in Nat
      /\ IsFiniteSet(TornFiles(store))
  BY NumbersAssumption, FS_CardinalityType DEF TornInv, TypeOK
<1>1. CASE OpenStorage
  <2>1. store' = OpenDir(store, epoch) /\ pc = "open" /\ pc' = "create" /\ crashes' = crashes
    BY <1>1 DEF OpenStorage, bounds
  <2>2. TornFiles(store') = TornFiles(store)
    BY <2>1, TornOpened
  <2> QED BY <1>0, <2>1, <2>2 DEF TornInv
<1>2. CASE CreateDroplet
  <2>1. /\ store' = CreateFile(store, epoch, counter) /\ pc = "create" /\ pc' = "write"
        /\ crashes' = crashes /\ epoch \in DOMAIN store
    BY <1>2 DEF CreateDroplet, bounds, NumberInv, Numbered
  <2>2. counter \notin DOMAIN store[epoch]
    BY <1>2, CreateContiguous DEF CreateDroplet, NumberInv, Numbered, TypeOK
  <2>3. TornFiles(store') = TornFiles(store) \cup {<<epoch, counter>>}
    BY <2>1, <2>2, TornCreated
  <2>4. /\ IsFiniteSet(TornFiles(store'))
        /\ Cardinality(TornFiles(store')) \in
             {Cardinality(TornFiles(store)), Cardinality(TornFiles(store)) + 1}
    <3>1. PICK T, x : T = TornFiles(store) /\ x = <<epoch, counter>>
      OBVIOUS
    <3>2. IsFiniteSet(T \cup {x}) /\ Cardinality(T \cup {x}) \in {Cardinality(T), Cardinality(T) + 1}
      BY <1>0, <3>1, FS_AddElement
    <3> QED BY <2>3, <3>1, <3>2
  <2>5. Cardinality(TornFiles(store')) \in Nat
    BY <2>4, FS_CardinalityType
  <2> QED BY <1>0, <2>1, <2>4, <2>5 DEF TornInv
<1>3. CASE WriteDroplet
  <2>1. /\ store' = PutFile(store, epoch, counter, starts) /\ pc = "write" /\ pc' = "create"
        /\ crashes' = crashes
    BY <1>3 DEF WriteDroplet, bounds
  <2>2. starts # Torn
    BY <1>3, LayoutType DEF WriteDroplet, StepOK, Encoding, TypeOK, Layouts
  <2>3. /\ TornFiles(store') = TornFiles(store) \ {<<epoch, counter>>}
        /\ <<epoch, counter>> \in TornFiles(store)
    BY <1>3, <2>1, <2>2, WritesCreated, TornWritten
  <2>4. IsFiniteSet(TornFiles(store')) /\ Cardinality(TornFiles(store')) = Cardinality(TornFiles(store)) - 1
    BY <1>0, <2>3, FS_RemoveElement
  <2> QED BY <1>0, <2>1, <2>4 DEF TornInv
<1>4. CASE Crash
  <2>1. store' = store /\ crashes' = crashes + 1 /\ pc' = "idle"
    BY <1>4 DEF Crash, Stop, files
  <2> QED BY <1>0, <2>1 DEF TornInv
<1>5. CASE StoreUnchanged /\ ~Crash
  <2>1. store' = store /\ crashes' = crashes
    BY <1>5, StoreUnchangedKeeps
       DEF StoreUnchanged, ChainGrows, Start, BeginFromScratch, Resume, BeginAt, ResumeFails, AddBlock,
           FinishEpoch, TruncateCount, WriteCount, TruncateBlock, WriteBlock, RemoveCount,
           RemoveBlock, vars, bounds
  <2>2. pc = "write" => pc' = "write"
    BY <1>5
       DEF StoreUnchanged, ChainGrows, Start, BeginFromScratch, Resume, BeginAt, ResumeFails, AddBlock,
           FinishEpoch, TruncateCount, WriteCount, TruncateBlock, WriteBlock, RemoveCount,
           RemoveBlock, vars
  <2> QED BY <1>0, <2>1, <2>2 DEF TornInv
<1> QED BY <1>1, <1>2, <1>3, <1>4, <1>5, FourKinds

LEMMA TornInit == Init => TornInv
<1> SUFFICES ASSUME Init PROVE TornInv
  OBVIOUS
<1>1. TornFiles(store) = {}
  BY TornMember DEF Init, EmptyStore
<1> QED BY <1>1, FS_EmptySet DEF Init, TornInv

\* However often runs die and are resumed, there are never more torn files than
\* runs that died: the file created by a later run is another one.
THEOREM TornFilesPerCrash == Spec => []TornPerCrash
<1>1. TypeOK /\ TornInv => TornPerCrash
  BY NumbersAssumption DEF TornInv, TornPerCrash, TornFiles, TypeOK
<1> QED BY <1>1, TypeInit, TypeInvariant, NumberInit, NumberInvariant, TornInit, TornInvariant, PTL
        DEF Spec
------------------------------------------------------------------------------
(* The cut of the epoch a run works on, which needs nothing of the droplets *)
(* of earlier runs.                                                          *)

Running == Encoding \cup {"scan"}

\* The first block of the epoch that is being cut or encoded.
EpochStart == IF starts = << >> THEN height ELSE starts[1]

CutInv ==
  /\ lastBlockFile <= tip
  /\ pc \in Running => height <= tip /\ Greedy(starts)
  /\ pc = "scan" /\ starts # << >> =>
       /\ starts[Len(starts)] < height
       /\ \A g \in starts[Len(starts)]..(height - 1) : Fits(starts[Len(starts)], g)
  /\ pc \in Encoding => starts[SuperBlocksPerEpoch] = height

\* Superblocks cut from s[1] to the block at height h, both included.
CutTo(s, h) ==
  /\ s \in Seq(Heights) /\ Len(s) \in 1..SuperBlocksPerEpoch
  /\ Greedy(s)
  /\ s[Len(s)] <= h /\ \A g \in s[Len(s)]..h : Fits(s[Len(s)], g)
  /\ Len(s) = SuperBlocksPerEpoch => s[SuperBlocksPerEpoch] = h

LEMMA AddBlockCuts ==
  ASSUME TypeOK, StepOK, CutInv, AddBlock
  PROVE  CutTo(starts', height) /\ starts'[1] = EpochStart
<1>0. /\ height \in Heights /\ Heights \subseteq Nat /\ SuperBlocksPerEpoch \in Nat \ {0}
      /\ starts \in Seq(Heights) /\ Len(starts) \in Nat /\ Len(starts) < SuperBlocksPerEpoch
      /\ starts' = WithBlock(starts, height) /\ pc = "scan"
  BY NumbersAssumption DEF AddBlock, TypeOK, StepOK, Heights
<1>1. CASE starts = << >>
  <2>1. starts' = <<height>>
    BY <1>0, <1>1 DEF WithBlock
  <2>2. <<height>> \in Seq(Heights) /\ Len(<<height>>) = 1 /\ <<height>>[1] = height
    BY <1>0
  <2>3. Greedy(<<height>>)
    BY DEF Greedy
  <2>4. \A g \in height..height : Fits(height, g)
    BY <1>0, BlockFits
  <2>5. CutTo(<<height>>, height)
    <3>1. PICK s : s = <<height>>
      OBVIOUS
    <3>2. s[Len(s)] = height /\ Len(s) \in 1..SuperBlocksPerEpoch /\ s \in Seq(Heights) /\ Greedy(s)
      BY <1>0, <2>2, <2>3, <3>1
    <3>3. Len(s) = SuperBlocksPerEpoch => s[SuperBlocksPerEpoch] = height
      BY <3>2
    <3> QED BY <1>0, <2>4, <3>1, <3>2, <3>3 DEF CutTo
  <2> QED BY <1>1, <2>1, <2>2, <2>5 DEF EpochStart
<1>2. CASE starts # << >>
  <2>1. /\ Greedy(starts) /\ starts[Len(starts)] < height
        /\ \A g \in starts[Len(starts)]..(height - 1) : Fits(starts[Len(starts)], g)
        /\ starts[Len(starts)] \in Nat /\ Len(starts) \in 1..SuperBlocksPerEpoch
    BY <1>0, <1>2, LastOfType DEF CutInv, Running
  <2>2. CASE Fits(starts[Len(starts)], height)
    <3>1. starts' = starts
      BY <1>0, <1>2, <2>2 DEF WithBlock
    <3>2. \A g \in starts[Len(starts)]..height : g = height \/ g \in starts[Len(starts)]..(height - 1)
      BY <1>0, <2>1
    <3>3. \A g \in starts[Len(starts)]..height : Fits(starts[Len(starts)], g)
      BY <2>1, <2>2, <3>2
    <3>4. starts[Len(starts)] <= height /\ Len(starts) # SuperBlocksPerEpoch
      BY <1>0, <2>1
    <3>5. CutTo(starts, height)
      BY <1>0, <2>1, <3>3, <3>4 DEF CutTo
    <3> QED BY <1>2, <3>1, <3>5 DEF EpochStart
  <2>3. CASE ~Fits(starts[Len(starts)], height)
    <3> DEFINE s == Append(starts, height)
    <3>1. starts' = s
      BY <1>0, <2>3 DEF WithBlock
    <3>2. s \in Seq(Heights) /\ Len(s) = Len(starts) + 1 /\ s[Len(s)] = height /\ s[1] = starts[1]
      BY <1>0, <1>2
    <3>3. Greedy(s)
      BY <1>0, <1>2, <2>1, <2>3, GreedyAppend
    <3>4. \A g \in height..height : Fits(height, g)
      BY <1>0, BlockFits
    <3> HIDE DEF s
    <3> QED BY <1>0, <1>2, <3>1, <3>2, <3>3, <3>4 DEF CutTo, EpochStart
  <2> QED BY <2>2, <2>3
<1> QED BY <1>1, <1>2

LEMMA CutInvariant ==
  TypeOK /\ StepOK /\ CutInv /\ [Next]_vars => CutInv'
<1> SUFFICES ASSUME TypeOK, StepOK, CutInv, [Next]_vars PROVE CutInv'
  OBVIOUS
<1>0. /\ height \in Nat /\ tip \in Nat /\ lastBlockFile \in Int /\ lastBlockFile <= tip
      /\ MaxHeight \in Nat
  BY NumbersAssumption DEF TypeOK, Heights, CutInv, Missing, Empty
<1> USE DEF chainVars, files, progress, encoder, control
<1>1. ASSUME chain' = chain, tip' >= tip, tip' \in Nat,
             lastBlockFile' \in {lastBlockFile, Empty, Missing}, pc' \notin Running
      PROVE  CutInv'
  BY <1>0, <1>1 DEF CutInv, Running, Empty, Missing
<1>2. ASSUME NEW h \in Nat, h <= tip, NEW e, BeginAt(e, h) PROVE CutInv'
  BY <1>0, <1>2 DEF BeginAt, CutInv, Running, Encoding, Greedy
<1>3. CASE BeginFromScratch
  BY <1>0, <1>2, <1>3 DEF BeginFromScratch
<1>4. CASE Resume
  <2>1. Parsed(lastBlockFile) \in Nat /\ Parsed(lastBlockFile) <= tip
    BY <1>0, <1>4, ParsedType, NumbersAssumption DEF Resume, Parsed, Heights
  <2> QED BY <1>2, <1>4, <2>1 DEF Resume
<1>5. CASE AddBlock
  <2>1. /\ CutTo(starts', height) /\ UNCHANGED <<chain, tip, lastBlockFile>> /\ height <= tip
        /\ starts' \in Seq(Heights)
    BY <1>5, AddBlockCuts DEF AddBlock, CutInv, Running, CutTo
  <2>2. Greedy(starts)' /\ \A f, g : Fits(f, g)' = Fits(f, g)
    <3>1. PICK s : s = starts' /\ Greedy(s)
      BY <2>1 DEF CutTo
    <3>2. Greedy(s)'
      BY <2>1, <3>1, GreedyUnchanged
    <3> QED BY <2>1, <3>1, <3>2 DEF Greedy, FullSuperBlock, Fits
  <2>3. CASE pc' = "open"
    <3>1. Len(starts') = SuperBlocksPerEpoch /\ height' = height
      BY <1>5, <2>3 DEF AddBlock, NextBlock
    <3>2. starts'[SuperBlocksPerEpoch] = height
      BY <2>1, <3>1 DEF CutTo
    <3> QED BY <2>1, <2>2, <2>3, <3>1, <3>2 DEF CutInv, Running, Encoding
  <2>4. CASE pc' = "scan"
    <3>1. height' = height + 1 /\ height < tip
      BY <1>5, <2>4 DEF AddBlock, NextBlock
    <3>2. /\ starts'[Len(starts')] <= height /\ starts'[Len(starts')] \in Nat
          /\ \A g \in starts'[Len(starts')]..height : Fits(starts'[Len(starts')], g)
      BY <2>1, LastOfType DEF CutTo
    <3>3. starts'[Len(starts')] < height + 1 /\ (height + 1) - 1 = height
      BY <1>0, <3>2
    <3>4. height + 1 <= tip
      BY <1>0, <3>1
    <3> QED BY <2>1, <2>2, <2>4, <3>1, <3>2, <3>3, <3>4 DEF CutInv, Running, Encoding
  <2>5. CASE pc' = "removeCount"
    BY <1>0, <1>1, <2>1, <2>5 DEF Running, Encoding
  <2> QED BY <1>5, <2>3, <2>4, <2>5 DEF AddBlock, NextBlock
<1>6. CASE WriteBlock
  <2>1. /\ UNCHANGED <<chain, tip>> /\ lastBlockFile' = height /\ starts' = << >> /\ height <= tip
        /\ pc' \in {"scan", "removeCount"}
        /\ pc' = "scan" => height' = height + 1 /\ height < tip
    BY <1>6 DEF WriteBlock, NextBlock, CutInv, Running, Encoding
  <2> QED BY <1>0, <2>1 DEF CutInv, Running, Encoding, Greedy
<1>7. CASE \/ OpenStorage \/ CreateDroplet \/ WriteDroplet \/ FinishEpoch
           \/ TruncateCount \/ WriteCount \/ TruncateBlock \/ UNCHANGED vars
  <2>1. /\ UNCHANGED <<chain, tip, height, starts>>
        /\ lastBlockFile' \in {lastBlockFile, Empty}
        /\ pc' \in Running => pc \in Running
        /\ pc' \in Encoding => pc \in Encoding
        /\ pc' = "scan" => pc = "scan"
    BY <1>7 DEF OpenStorage, CreateDroplet, WriteDroplet, FinishEpoch, TruncateCount, WriteCount,
                TruncateBlock, vars, Running, Encoding
  <2> QED BY <1>0, <2>1 DEF CutInv, Greedy, FullSuperBlock, Fits, Empty
<1>8. CASE \/ ChainGrows \/ (\E cmd \in {"generate", "generateAll"} : Start(cmd)) \/ ResumeFails
           \/ RemoveCount \/ RemoveBlock \/ Crash
  <2>1. /\ chain' = chain /\ tip' \in {tip, tip + 1} /\ lastBlockFile' \in {lastBlockFile, Missing}
        /\ pc' \in {"idle", "begin", "removeBlock"}
    BY <1>8 DEF ChainGrows, Start, ResumeFails, RemoveCount, RemoveBlock, Crash, Stop
  <2> QED BY <1>0, <1>1, <2>1 DEF Running, Encoding
<1> QED BY <1>3, <1>4, <1>5, <1>6, <1>7, <1>8 DEF Next, Step

LEMMA CutInit == Init => CutInv
BY NumbersAssumption DEF Init, CutInv, Missing, Running, Encoding, Heights
------------------------------------------------------------------------------
(* Every block before the epoch a run works on is stored.                    *)

\* Block h is in a full round of droplets of one cutting.
Stored(s, h) ==
  \E e \in DOMAIN s : \E layout \in Layouts :
    Covers(layout, h) /\ Cardinality(Alike(s, e, layout)) >= ProducedDroplets

RunStored ==
  /\ pc \in Running => \A h \in 0..(EpochStart - 1) : Stored(store, h)
  /\ pc \in {"create", "write"} => Cardinality(Alike(store, epoch, starts)) >= produced
  /\ pc \in Saving => \A h \in 0..height : Stored(store, h)

\* The types before and after a step, and that it keeps directories and droplets.
KeepsStore == /\ TypeOK /\ TypeOK'
              /\ DOMAIN store \subseteq DOMAIN store' /\ Kept

LEMMA StepKeepsStore ==
  ASSUME TypeOK, StepOK, NumberInv, [Next]_vars PROVE KeepsStore
<1> SUFFICES DOMAIN store \subseteq DOMAIN store'
  BY TypeInvariant, KeptByStep DEF KeepsStore
<1>1. CASE OpenStorage
  <2>1. DOMAIN store' = DOMAIN store \cup {epoch}
    BY <1>1 DEF OpenStorage, OpenDir
  <2> QED BY <2>1
<1>2. CASE CreateDroplet \/ WriteDroplet
  <2>1. DOMAIN store' = DOMAIN store
    BY <1>2 DEF CreateDroplet, WriteDroplet, CreateFile, PutFile
  <2> QED BY <2>1
<1>3. CASE StoreUnchanged
  BY <1>3, StoreUnchangedKeeps
<1>4. DOMAIN store \subseteq DOMAIN store'
  BY <1>1, <1>2, <1>3, FourKinds
<1> QED BY <1>4

LEMMA AlikeType ==
  ASSUME NEW s, StoreTypeOK(s), NEW e \in DOMAIN s, NEW l
  PROVE  IsFiniteSet(Alike(s, e, l)) /\ Cardinality(Alike(s, e, l)) \in Nat
<1>1. Alike(s, e, l) \in SUBSET DOMAIN s[e] /\ IsFiniteSet(DOMAIN s[e])
  BY DEF Alike, StoreTypeOK
<1> QED BY <1>1, FS_Subset, FS_CardinalityType

LEMMA AlikeKept ==
  ASSUME KeepsStore, NEW e \in DOMAIN store, NEW l \in Layouts
  PROVE  /\ e \in DOMAIN store'
         /\ Cardinality(Alike(store, e, l)) \in Nat /\ Cardinality(Alike(store', e, l)) \in Nat
         /\ Cardinality(Alike(store, e, l)) <= Cardinality(Alike(store', e, l))
<1>0. l # Torn
  BY LayoutType
<1>1. e \in DOMAIN store' /\ StoreTypeOK(store) /\ StoreTypeOK(store')
  BY DEF KeepsStore, TypeOK
<1>2. Alike(store, e, l) \in SUBSET Alike(store', e, l)
  BY <1>0 DEF Alike, KeepsStore, Kept, Whole
<1>3. IsFiniteSet(Alike(store', e, l))
  BY <1>1, AlikeType
<1> QED BY <1>1, <1>2, <1>3, AlikeType, FS_Subset

LEMMA StoredKept ==
  ASSUME KeepsStore, NEW h, Stored(store, h) PROVE Stored(store', h)
<1>1. PICK e \in DOMAIN store, layout \in Layouts :
        Covers(layout, h) /\ Cardinality(Alike(store, e, layout)) >= ProducedDroplets
  BY DEF Stored
<1>2. /\ e \in DOMAIN store' /\ Cardinality(Alike(store, e, layout)) \in Nat
      /\ Cardinality(Alike(store', e, layout)) \in Nat
      /\ Cardinality(Alike(store, e, layout)) <= Cardinality(Alike(store', e, layout))
  BY AlikeKept
<1>3. Cardinality(Alike(store', e, layout)) >= ProducedDroplets
  BY <1>1, <1>2, ProducedPositive
<1> QED BY <1>1, <1>2, <1>3 DEF Stored

LEMMA AlikeWritten ==
  ASSUME TypeOK, StepOK, NumberInv, WriteDroplet
  PROVE  /\ Cardinality(Alike(store, epoch, starts)) \in Nat
         /\ Cardinality(Alike(store', epoch, starts)) = Cardinality(Alike(store, epoch, starts)) + 1
<1>1. /\ store' = PutFile(store, epoch, counter, starts) /\ starts # Torn
      /\ epoch \in DOMAIN store /\ counter \in DOMAIN store[epoch] /\ store[epoch][counter] = Torn
  BY WritesCreated, LayoutType DEF WriteDroplet, StepOK, Encoding, TypeOK, Layouts
<1>2. /\ Alike(store', epoch, starts) = Alike(store, epoch, starts) \cup {counter}
      /\ counter \notin Alike(store, epoch, starts)
  BY <1>1 DEF PutFile, Alike
<1>3. /\ IsFiniteSet(Alike(store, epoch, starts))
      /\ Cardinality(Alike(store, epoch, starts)) \in Nat
  BY <1>1, AlikeType DEF TypeOK
<1> QED BY <1>2, <1>3, FS_AddElement

\* An epoch with all droplets of a round stores its blocks.
LEMMA EpochStored ==
  ASSUME TypeOK, StepOK, CutInv, RunStored, FinishEpoch
  PROVE  \A h \in 0..height : Stored(store, h)
<1>1. /\ pc = "create" /\ produced = ProducedDroplets /\ epoch \in DOMAIN store
      /\ starts[SuperBlocksPerEpoch] = height /\ starts # << >> /\ starts \in Layouts
      /\ height \in Nat /\ starts[1] \in Nat
  <2>1. starts \in Layouts /\ Len(starts) = SuperBlocksPerEpoch
    BY DEF FinishEpoch, StepOK, Encoding, TypeOK, Layouts
  <2>2. starts[1] \in Nat /\ starts # << >>
    BY <2>1, LayoutType, NumbersAssumption
  <2> QED BY <2>1, <2>2, NumbersAssumption
          DEF FinishEpoch, StepOK, CutInv, Encoding, TypeOK, Heights
<1>2. Cardinality(Alike(store, epoch, starts)) >= ProducedDroplets
  BY <1>1 DEF RunStored
<1>3. ASSUME NEW h \in 0..height, h >= starts[1] PROVE Stored(store, h)
  BY <1>1, <1>2, <1>3 DEF Stored, Covers, First, Last
<1>4. ASSUME NEW h \in 0..height, ~(h >= starts[1]) PROVE Stored(store, h)
  <2>1. h \in 0..(EpochStart - 1)
    BY <1>1, <1>4 DEF EpochStart
  <2> QED BY <1>1, <2>1 DEF RunStored, Running, Encoding
<1> QED BY <1>3, <1>4

LEMMA RunStoredInvariant ==
  ASSUME TypeOK, StepOK, NumberInv, CutInv, RunStored, [Next]_vars,
         Resume => RecordedBlocksStored
  PROVE  RunStored'
<1>0. KeepsStore /\ height \in Nat
  BY StepKeepsStore, NumbersAssumption DEF TypeOK, Heights
<1> USE DEF chainVars, files, progress, encoder, control
<1>1. ASSUME pc \in Running, pc' \in Running, EpochStart' = EpochStart
      PROVE  \A h \in 0..(EpochStart' - 1) : Stored(store', h)
  BY <1>0, <1>1, StoredKept DEF RunStored
<1>2. CASE BeginFromScratch
  <2>1. EpochStart' = 0 /\ pc' = "scan"
    BY <1>2 DEF BeginFromScratch, BeginAt, EpochStart
  <2> QED BY <2>1 DEF RunStored, Saving
<1>3. CASE Resume
  <2>1. /\ EpochStart' = Parsed(lastBlockFile) /\ pc' = "scan" /\ store' = store
        /\ Parses(lastBlockFile)
    BY <1>3 DEF Resume, BeginAt, EpochStart
  <2>2. ASSUME NEW h \in 0..(EpochStart' - 1) PROVE Stored(store', h)
    <3>1. lastBlockFile \in Heights /\ Parsed(lastBlockFile) = lastBlockFile
      BY <2>1, <2>2 DEF Parsed, Parses, TypeOK, Missing, Empty
    <3>2. lastBlockFile \in Nat /\ h \in 0..lastBlockFile
      BY <2>1, <2>2, <3>1, NumbersAssumption DEF Heights
    <3>3. \A g \in 0..lastBlockFile : Stored(store, g)
      BY <1>3 DEF RecordedBlocksStored, Stored, Alike
    <3> QED BY <2>1, <3>2, <3>3
  <2> QED BY <2>1, <2>2 DEF RunStored, Saving
<1>4. CASE AddBlock
  <2>1. pc = "scan" /\ starts'[1] = EpochStart /\ starts' # << >> /\ store' = store
    <3>1. CutTo(starts', height)
      BY <1>4, AddBlockCuts
    <3> QED BY <1>4, <3>1, AddBlockCuts DEF AddBlock, CutTo
  <2>2. EpochStart' = EpochStart
    BY <2>1 DEF EpochStart
  <2>3. pc' \in {"scan", "open", "removeCount"}
    BY <1>4 DEF AddBlock, NextBlock
  <2> QED BY <1>1, <2>1, <2>2, <2>3 DEF RunStored, Running, Encoding, Saving
<1>5. CASE OpenStorage
  <2>1. /\ pc = "open" /\ pc' = "create" /\ produced' = 0 /\ EpochStart' = EpochStart
        /\ epoch' = epoch /\ store' = OpenDir(store, epoch)
    BY <1>5 DEF OpenStorage, EpochStart
  <2>2. Cardinality(Alike(store', epoch, starts')) >= 0
    <3>1. epoch \in DOMAIN store' /\ StoreTypeOK(store')
      BY <1>0, <2>1 DEF OpenDir, KeepsStore, TypeOK
    <3> QED BY <3>1, AlikeType
  <2> QED BY <1>1, <2>1, <2>2 DEF RunStored, Running, Encoding, Saving
<1>6. CASE CreateDroplet
  <2>1. /\ pc = "create" /\ pc' = "write" /\ EpochStart' = EpochStart
        /\ UNCHANGED <<epoch, starts, produced>>
    BY <1>6 DEF CreateDroplet, EpochStart
  <2>2. epoch \in DOMAIN store /\ starts \in Layouts /\ produced \in Nat
    BY <2>1, ProducedPositive DEF StepOK, Encoding, TypeOK, Layouts
  <2>3. Cardinality(Alike(store', epoch, starts)) >= produced
    BY <1>0, <2>1, <2>2, AlikeKept DEF RunStored
  <2> QED BY <1>1, <2>1, <2>3 DEF RunStored, Running, Encoding, Saving
<1>7. CASE WriteDroplet
  <2>1. /\ pc = "write" /\ pc' = "create" /\ EpochStart' = EpochStart
        /\ UNCHANGED <<epoch, starts>> /\ produced' = produced + 1 /\ produced \in Nat
    BY <1>7, ProducedPositive DEF WriteDroplet, EpochStart, TypeOK
  <2>2. Cardinality(Alike(store', epoch, starts)) >= produced + 1
    BY <1>7, <2>1, AlikeWritten DEF RunStored
  <2> QED BY <1>1, <2>1, <2>2 DEF RunStored, Running, Encoding, Saving
<1>8. CASE FinishEpoch
  <2>1. /\ pc = "create" /\ pc' \in {"removeCount", "truncateCount"} /\ EpochStart' = EpochStart
        /\ height' = height /\ store' = store
    BY <1>8 DEF FinishEpoch, EpochStart
  <2> QED BY <1>1, <1>8, <2>1, EpochStored DEF RunStored, Running, Encoding, Saving
<1>9. CASE TruncateCount \/ WriteCount \/ TruncateBlock
  <2>1. /\ pc \in Saving /\ pc' \in Saving /\ EpochStart' = EpochStart
        /\ height' = height /\ store' = store
    BY <1>9 DEF TruncateCount, WriteCount, TruncateBlock, EpochStart, Saving
  <2> QED BY <1>1, <2>1 DEF RunStored, Running, Encoding, Saving
<1>10. CASE WriteBlock
  <2>1. /\ pc = "writeBlock" /\ pc' \in {"scan", "removeCount"} /\ store' = store
        /\ pc' = "scan" => EpochStart' = height + 1
    BY <1>10 DEF WriteBlock, NextBlock, EpochStart
  <2>2. \A h \in 0..((height + 1) - 1) : Stored(store, h)
    BY <1>0, <2>1 DEF RunStored, Saving
  <2> QED BY <2>1, <2>2 DEF RunStored, Running, Encoding, Saving
<1>11. CASE \/ ChainGrows \/ (\E cmd \in {"generate", "generateAll"} : Start(cmd)) \/ ResumeFails
            \/ RemoveCount \/ RemoveBlock \/ Crash
  <2>1. pc' \in {"idle", "begin", "removeBlock"}
    BY <1>11 DEF ChainGrows, Start, ResumeFails, RemoveCount, RemoveBlock, Crash, Stop
  <2> QED BY <2>1 DEF RunStored, Running, Encoding, Saving
<1>12. CASE UNCHANGED vars
  <2>1. EpochStart' = EpochStart /\ UNCHANGED <<pc, epoch, starts, height, produced, store>>
    BY <1>12 DEF vars, EpochStart
  <2> QED BY <2>1 DEF RunStored
<1> QED BY <1>2, <1>3, <1>4, <1>5, <1>6, <1>7, <1>8, <1>9, <1>10, <1>11, <1>12 DEF Next, Step

\* Writing the number of the last block makes the record true, whatever it was.
LEMMA WrittenRecord ==
  ASSUME RunStored, WriteBlock PROVE RecordedBlocksStored'
<1>1. pc = "writeBlock" /\ lastBlockFile' = height /\ store' = store
  BY DEF WriteBlock
<1>2. \A h \in 0..height : Stored(store, h)
  BY <1>1 DEF RunStored, Saving
<1> QED BY <1>1, <1>2 DEF RecordedBlocksStored, Stored, Alike

LEMMA RecordInvariant ==
  ASSUME TypeOK, StepOK, NumberInv, RunStored, RecordedBlocksStored, [Next]_vars
  PROVE  RecordedBlocksStored'
<1>1. CASE WriteBlock
  BY <1>1, WrittenRecord
<1>2. CASE ~WriteBlock
  <2>1. lastBlockFile' \in {lastBlockFile, Empty, Missing}
    BY <1>2 DEF Next, Step, ChainGrows, Start, BeginFromScratch, Resume, BeginAt, ResumeFails,
       AddBlock, OpenStorage, CreateDroplet, WriteDroplet, FinishEpoch, TruncateCount, WriteCount,
       TruncateBlock, RemoveCount, RemoveBlock, Crash, Stop, vars, files
  <2>2. \A h \in 0..lastBlockFile' : h \in 0..lastBlockFile
    BY <2>1 DEF Empty, Missing
  <2>3. \A h \in 0..lastBlockFile : Stored(store, h)
    BY DEF RecordedBlocksStored, Stored, Alike
  <2>4. \A h \in 0..lastBlockFile' : Stored(store', h)
    BY <2>2, <2>3, StepKeepsStore, StoredKept
  <2> QED BY <2>4 DEF RecordedBlocksStored, Stored, Alike
<1> QED BY <1>1, <1>2

LEMMA RecordInit == Init => RunStored /\ RecordedBlocksStored
BY DEF Init, RunStored, RecordedBlocksStored, Running, Encoding, Saving, Missing

\* Every block up to the recorded one is in a whole round of droplets of one
\* layout, wherever runs died: a resumed run may start there.
THEOREM RecordIsStored == Spec => []RecordedBlocksStored
<1>1. TypeOK /\ StepOK /\ NumberInv /\ CutInv /\ RunStored /\ RecordedBlocksStored /\ [Next]_vars
        => RunStored' /\ RecordedBlocksStored'
  BY RunStoredInvariant, RecordInvariant
<1> QED BY <1>1, TypeInit, TypeInvariant, NumberInit, NumberInvariant, CutInit, CutInvariant,
           RecordInit, PTL DEF Spec
------------------------------------------------------------------------------
(* The cut from the first block of the chain, which every round but a        *)
(* resumed one makes, and why a resumed round is never behind it.            *)

\* An epoch that begins with block b is followed by one that begins with block d.
EpochFrom(b, d) == \E s \in Layouts : Greedy(s) /\ First(s) = b /\ Last(s) + 1 = d

FollowsCut(S) == /\ <<0, 0>> \in S
                 /\ \A e, b, d \in Nat : <<e, b>> \in S /\ EpochFrom(b, d) => <<e + 1, d>> \in S

\* The number and the first block of every epoch of that cut.
Boundaries == {p \in Nat \X Nat : \A S \in SUBSET (Nat \X Nat) : FollowsCut(S) => p \in S}

LEMMA BoundariesFollow == FollowsCut(Boundaries)
<1>1. <<0, 0>> \in Boundaries
  BY DEF Boundaries, FollowsCut
<1>2. ASSUME NEW e \in Nat, NEW b \in Nat, NEW d \in Nat, <<e, b>> \in Boundaries, EpochFrom(b, d)
      PROVE  <<e + 1, d>> \in Boundaries
  <2>1. ASSUME NEW S \in SUBSET (Nat \X Nat), FollowsCut(S) PROVE <<e + 1, d>> \in S
    <3>1. <<e, b>> \in S
      BY <1>2, <2>1 DEF Boundaries
    <3> QED BY <1>2, <2>1, <3>1 DEF FollowsCut
  <2>2. <<e + 1, d>> \in Nat \X Nat
    OBVIOUS
  <2> QED BY <2>1, <2>2 DEF Boundaries
<1> QED BY <1>1, <1>2 DEF FollowsCut

LEMMA BoundariesLeast ==
  ASSUME NEW S \in SUBSET (Nat \X Nat), FollowsCut(S) PROVE Boundaries \subseteq S
BY DEF Boundaries

\* Every boundary but the first follows another one.
LEMMA BoundaryBefore ==
  ASSUME NEW e \in Nat, NEW b \in Nat, <<e, b>> \in Boundaries
  PROVE  /\ e = 0 => b = 0
         /\ e # 0 => \E a \in Nat : <<e - 1, a>> \in Boundaries /\ EpochFrom(a, b)
<1> DEFINE Before(p) == \E d, a, c \in Nat : /\ <<d, a>> \in Boundaries /\ EpochFrom(a, c)
                                             /\ p = <<d + 1, c>>
           S == {p \in Boundaries : p = <<0, 0>> \/ Before(p)}
<1>1. S \in SUBSET (Nat \X Nat) /\ S \subseteq Boundaries
  BY DEF Boundaries
<1>2. <<0, 0>> \in S
  BY BoundariesFollow DEF FollowsCut
<1>3. ASSUME NEW d \in Nat, NEW a \in Nat, NEW c \in Nat, <<d, a>> \in S, EpochFrom(a, c)
      PROVE  <<d + 1, c>> \in S
  <2>1. <<d, a>> \in Boundaries
    BY <1>1, <1>3
  <2>2. <<d + 1, c>> \in Boundaries
    BY <1>3, <2>1, BoundariesFollow DEF FollowsCut
  <2> QED BY <1>3, <2>1, <2>2
<1>4. <<e, b>> \in S
  <2>1. FollowsCut(S)
    <3> HIDE DEF S
    <3> QED BY <1>2, <1>3 DEF FollowsCut
  <2> QED BY <1>1, <2>1, BoundariesLeast
<1>5. CASE <<e, b>> = <<0, 0>>
  BY <1>5
<1>6. CASE Before(<<e, b>>)
  <2>1. PICK d, a, c \in Nat : /\ <<d, a>> \in Boundaries /\ EpochFrom(a, c)
                               /\ <<e, b>> = <<d + 1, c>>
    BY <1>6
  <2>2. e = d + 1 /\ b = c /\ e # 0 /\ e - 1 = d
    BY <2>1
  <2> QED BY <2>1, <2>2
<1> QED BY <1>4, <1>5, <1>6

LEMMA BoundariesUnchanged == ASSUME chain' = chain PROVE Boundaries' = Boundaries
BY DEF Boundaries, FollowsCut, EpochFrom, Greedy, FullSuperBlock, Fits

LEMMA LeastNumber ==
  ASSUME NEW T \in SUBSET Nat, T # {}
  PROVE  \E m \in T : \A n \in T : m <= n
<1>1. PICK m \in T : \A n \in T : ~(<<n, m>> \in OpToRel(<, Nat))
  BY NatLessThanWellFounded, WFMin, Zenon
<1>2. \A n \in T : ~(n < m)
  BY <1>1 DEF OpToRel
<1> QED BY <1>2

LEMMA GreedyStarts ==
  ASSUME NEW s \in Seq(Heights), Greedy(s), NEW i \in Nat, 1 <= i, i + 1 <= Len(s)
  PROVE  /\ s[i] \in Heights /\ s[i + 1] \in Heights /\ s[i] \in Nat /\ s[i + 1] \in Nat
         /\ FullSuperBlock(s[i], s[i + 1])
<1>1. Len(s) \in Nat /\ i \in 1..Len(s) /\ i + 1 \in 1..Len(s) /\ i \in 1..(Len(s) - 1)
  OBVIOUS
<1> QED BY <1>1, NumbersAssumption DEF Greedy, Heights

\* No superblock of an epoch starts before the epoch does.
LEMMA GreedyIncreases ==
  ASSUME NEW s \in Seq(Heights), Greedy(s), NEW n \in 1..Len(s)
  PROVE  s[1] <= s[n]
<1> DEFINE T == {i \in 1..Len(s) : ~(s[1] <= s[i])}
<1> SUFFICES ASSUME T # {} PROVE FALSE
  OBVIOUS
<1>1. T \in SUBSET Nat /\ \A i \in 1..Len(s) : s[i] \in Nat
  BY NumbersAssumption DEF Heights
<1>2. PICK m \in T : \A i \in T : m <= i
  <2> HIDE DEF T
  <2> QED BY <1>1, LeastNumber
<1>3. m \in 1..Len(s) /\ m # 1 /\ 1 \in 1..Len(s)
  BY <1>1, <1>2
<1>4. m - 1 \in 1..Len(s) /\ m - 1 \notin T
  BY <1>2, <1>3
<1>5. FullSuperBlock(s[m - 1], s[m])
  BY <1>3, GreedyStarts
<1> QED BY <1>1, <1>2, <1>3, <1>4, <1>5 DEF FullSuperBlock

LEMMA ChainOrder ==
  ASSUME TypeOK, NEW a \in Heights, NEW b \in Heights, a <= b, NEW d \in Heights
  PROVE  /\ chain[a] <= chain[b] /\ chain[a] \in Nat /\ chain[b] \in Nat
         /\ chain[d + 1] \in Nat
<1>1. MaxHeight \in Nat /\ \A h \in Heights : h \in 0..(MaxHeight + 1) /\ h + 1 \in 0..(MaxHeight + 1)
  BY NumbersAssumption DEF Heights
<1>2. /\ chain \in [0..(MaxHeight + 1) -> Nat]
      /\ \A g, h \in 0..(MaxHeight + 1) : g <= h => chain[g] <= chain[h]
  BY ChainsAssumption DEF TypeOK
<1> QED BY <1>1, <1>2

\* Of two superblocks, the one that starts later does not end earlier.
LEMMA NextStartMonotone ==
  ASSUME TypeOK, NEW a \in Heights, NEW b \in Heights, NEW c \in Heights, NEW d \in Heights,
         FullSuperBlock(a, b), FullSuperBlock(c, d), a <= c
  PROVE  b <= d
<1> SUFFICES ASSUME ~(b <= d) PROVE FALSE
  OBVIOUS
<1>1. Heights \subseteq Nat
  BY NumbersAssumption DEF Heights
<1>2. d \in a..(b - 1)
  BY <1>1 DEF FullSuperBlock
<1>3. Fits(a, d) /\ ~Fits(c, d)
  BY <1>2 DEF FullSuperBlock
<1>4. chain[a] <= chain[c] /\ chain[a] \in Nat /\ chain[c] \in Nat /\ chain[d + 1] \in Nat
  BY ChainOrder
<1> QED BY <1>3, <1>4, NumbersAssumption DEF Fits

LEMMA CutMonotone ==
  ASSUME TypeOK, NEW s \in Seq(Heights), NEW t \in Seq(Heights), Greedy(s), Greedy(t),
         s[1] <= t[1], NEW n \in 1..Len(s), n <= Len(t)
  PROVE  s[n] <= t[n]
<1> DEFINE T == {i \in 1..Len(s) : i <= Len(t) /\ ~(s[i] <= t[i])}
<1> SUFFICES ASSUME T # {} PROVE FALSE
  OBVIOUS
<1>1. T \in SUBSET Nat /\ Len(s) \in Nat /\ Len(t) \in Nat
  OBVIOUS
<1>2. PICK m \in T : \A i \in T : m <= i
  <2> HIDE DEF T
  <2> QED BY <1>1, LeastNumber
<1>3. m \in 1..Len(s) /\ m <= Len(t) /\ ~(s[m] <= t[m]) /\ m # 1
  BY <1>2
<1>4. m - 1 \in Nat /\ 1 <= m - 1 /\ (m - 1) + 1 = m /\ m - 1 \notin T
  BY <1>2, <1>3
<1>5. s[m - 1] <= t[m - 1]
  BY <1>1, <1>3, <1>4
<1>6. /\ s[m - 1] \in Heights /\ s[m] \in Heights /\ FullSuperBlock(s[m - 1], s[m])
      /\ t[m - 1] \in Heights /\ t[m] \in Heights /\ FullSuperBlock(t[m - 1], t[m])
  <2>1. 1 <= m - 1 /\ (m - 1) + 1 <= Len(s) /\ (m - 1) + 1 <= Len(t)
    BY <1>1, <1>3, <1>4
  <2> QED BY <1>4, <2>1, GreedyStarts
<1> QED BY <1>3, <1>5, <1>6, NextStartMonotone

\* An epoch that is not complete at block h is not when it begins later.
LEMMA LaterIncomplete ==
  ASSUME TypeOK, NEW s, NEW h \in Nat, CutTo(s, h), Len(s) < SuperBlocksPerEpoch,
         NEW t \in Layouts, Greedy(t), s[1] <= t[1]
  PROVE  ~(Last(t) <= h)
<1> SUFFICES ASSUME Last(t) <= h PROVE FALSE
  OBVIOUS
<1>1. /\ s \in Seq(Heights) /\ Greedy(s) /\ t \in Seq(Heights) /\ Len(t) = SuperBlocksPerEpoch
      /\ SuperBlocksPerEpoch \in Nat /\ Len(s) \in Nat /\ Len(s) \in 1..Len(s)
  BY LayoutType, NumbersAssumption DEF CutTo
<1> DEFINE n == Len(s)
<1>2. s[n] <= t[n]
  BY <1>1, CutMonotone
<1>3. /\ t[n] \in Heights /\ t[n + 1] \in Heights /\ FullSuperBlock(t[n], t[n + 1])
  BY <1>1, GreedyStarts
<1>4. t[n + 1] <= h
  <2>1. t[n + 1] <= Last(t)
    <3> DEFINE T == {i \in (n + 1)..SuperBlocksPerEpoch : ~(t[n + 1] <= t[i])}
    <3> SUFFICES ASSUME T # {} PROVE FALSE
      BY <1>1 DEF Last
    <3>1. T \in SUBSET Nat
      BY <1>1
    <3>2. PICK m \in T : \A i \in T : m <= i
      <4> HIDE DEF T
      <4> QED BY <3>1, LeastNumber
    <3>3. m # n + 1 /\ m - 1 \in (n + 1)..SuperBlocksPerEpoch /\ m - 1 \notin T
      <4>1. m \in (n + 1)..SuperBlocksPerEpoch /\ ~(t[n + 1] <= t[m]) /\ n \in Nat
        BY <1>1, <3>2
      <4>2. t[n + 1] \in Nat
        BY <1>3, NumbersAssumption DEF Heights
      <4>3. m # n + 1
        BY <4>1, <4>2
      <4>4. m - 1 \in (n + 1)..SuperBlocksPerEpoch /\ ~(m <= m - 1)
        BY <1>1, <4>1, <4>3
      <4>5. m - 1 \notin T
        <5> HIDE DEF T
        <5> QED BY <3>2, <4>4
      <4> QED BY <4>3, <4>4, <4>5
    <3>4. FullSuperBlock(t[m - 1], t[m]) /\ t[m - 1] \in Nat /\ t[m] \in Nat
      <4>1. m - 1 \in Nat /\ 1 <= m - 1 /\ (m - 1) + 1 = m /\ m <= Len(t)
        BY <1>1, <3>3
      <4> QED BY <1>1, <4>1, GreedyStarts
    <3>5. t[n + 1] <= t[m - 1] /\ t[n + 1] \in Nat /\ ~(t[n + 1] <= t[m])
      BY <1>3, <3>2, <3>3, NumbersAssumption DEF Heights
    <3> QED BY <3>4, <3>5 DEF FullSuperBlock
  <2> QED BY <1>1, <1>3, <2>1, LayoutType, NumbersAssumption DEF Last, Heights
<1>5. PICK x, y, z : x = s[n] /\ y = t[n] /\ z = t[n + 1]
  OBVIOUS
<1>6. /\ x \in Heights /\ y \in Heights /\ z \in Heights /\ Heights \subseteq Nat
      /\ FullSuperBlock(y, z) /\ x <= y /\ z <= h
  BY <1>1, <1>2, <1>3, <1>4, <1>5, NumbersAssumption DEF Heights
<1>7. z \in x..h
  BY <1>6 DEF FullSuperBlock
<1>8. Fits(x, z)
  BY <1>5, <1>7 DEF CutTo
<1>9. ~Fits(y, z)
  BY <1>6 DEF FullSuperBlock
<1>10. chain[x] <= chain[y] /\ chain[x] \in Nat /\ chain[y] \in Nat /\ chain[z + 1] \in Nat
  BY <1>6, ChainOrder
<1> QED BY <1>8, <1>9, <1>10, NumbersAssumption DEF Fits
------------------------------------------------------------------------------
\* A run that begins epoch e with block a is not behind the cut from the start.
Behind(e, a) == \A b \in Nat : <<e, b>> \in Boundaries => a <= b

LEMMA BehindStart == Behind(0, 0) /\ <<0, 0>> \in Boundaries
BY BoundariesFollow DEF Behind, FollowsCut

LEMMA BehindNext ==
  ASSUME TypeOK, NEW e \in Nat, NEW s \in Layouts, Greedy(s), Behind(e, s[1])
  PROVE  Behind(e + 1, Last(s) + 1)
<1> SUFFICES ASSUME NEW b \in Nat, <<e + 1, b>> \in Boundaries PROVE Last(s) + 1 <= b
  BY DEF Behind
<1>1. PICK a \in Nat : <<e, a>> \in Boundaries /\ EpochFrom(a, b)
  <2>1. e + 1 \in Nat /\ e + 1 # 0 /\ (e + 1) - 1 = e
    OBVIOUS
  <2> QED BY <2>1, BoundaryBefore
<1>2. PICK t \in Layouts : Greedy(t) /\ First(t) = a /\ Last(t) + 1 = b
  BY <1>1 DEF EpochFrom
<1>3. s[1] <= t[1]
  BY <1>1, <1>2 DEF Behind, First
<1>4. /\ s \in Seq(Heights) /\ t \in Seq(Heights) /\ SuperBlocksPerEpoch \in 1..Len(s)
      /\ SuperBlocksPerEpoch <= Len(t)
  BY LayoutType, NumbersAssumption
<1>5. Last(s) <= Last(t)
  BY <1>2, <1>3, <1>4, CutMonotone DEF Last
<1>6. Last(s) \in Nat /\ Last(t) \in Nat
  BY LayoutType, NumbersAssumption DEF Last
<1> QED BY <1>2, <1>5, <1>6

LEMMA BoundaryNext ==
  ASSUME NEW e \in Nat, NEW s \in Layouts, Greedy(s), <<e, s[1]>> \in Boundaries
  PROVE  <<e + 1, Last(s) + 1>> \in Boundaries
<1>1. s[1] \in Nat /\ Last(s) + 1 \in Nat
  BY LayoutType, NumbersAssumption DEF Last
<1>2. EpochFrom(s[1], Last(s) + 1)
  BY DEF EpochFrom, First
<1> QED BY <1>1, <1>2, BoundariesFollow DEF FollowsCut

\* There is one first block for every epoch, and one way to cut it.
LEMMA BoundariesBehind ==
  ASSUME TypeOK, NEW e \in Nat, NEW b \in Nat, <<e, b>> \in Boundaries PROVE Behind(e, b)
<1> DEFINE S == {p \in Nat \X Nat : Behind(p[1], p[2])}
<1>1. <<0, 0>> \in S
  BY BehindStart
<1>2. ASSUME NEW d \in Nat, NEW a \in Nat, NEW c \in Nat, <<d, a>> \in S, EpochFrom(a, c)
      PROVE  <<d + 1, c>> \in S
  <2>1. PICK s \in Layouts : Greedy(s) /\ First(s) = a /\ Last(s) + 1 = c
    BY <1>2 DEF EpochFrom
  <2>2. Behind(d, s[1])
    BY <1>2, <2>1 DEF First
  <2>3. Behind(d + 1, Last(s) + 1)
    BY <2>1, <2>2, BehindNext
  <2> QED BY <1>2, <2>1, <2>3
<1>3. FollowsCut(S)
  <2> HIDE DEF S
  <2> QED BY <1>1, <1>2 DEF FollowsCut
<1>4. Boundaries \subseteq S
  BY <1>3, BoundariesLeast
<1> QED BY <1>4

\* The epochs of the cut and how they are cut.
Cuts == {p \in Nat \X Layouts : Greedy(p[2]) /\ <<p[1], First(p[2])>> \in Boundaries}

LEMMA CutsHave ==
  ASSUME NEW e \in Nat, NEW s \in Layouts
  PROVE  <<e, s>> \in Cuts <=> Greedy(s) /\ <<e, First(s)>> \in Boundaries
BY DEF Cuts

LEMMA LayoutsEqual ==
  ASSUME NEW s \in Layouts, NEW t \in Layouts, \A j \in 1..SuperBlocksPerEpoch : s[j] = t[j]
  PROVE  s = t
<1>1. /\ s = [j \in 1..SuperBlocksPerEpoch |-> s[j]]
      /\ t = [j \in 1..SuperBlocksPerEpoch |-> t[j]]
  BY Zenon DEF Layouts
<1> QED BY <1>1, Zenon

LEMMA CutIsUnique ==
  ASSUME TypeOK, NEW e \in Nat, NEW s \in Layouts, NEW t \in Layouts,
         <<e, s>> \in Cuts, <<e, t>> \in Cuts
  PROVE  s = t
<1>1. /\ Greedy(s) /\ <<e, s[1]>> \in Boundaries /\ Greedy(t) /\ <<e, t[1]>> \in Boundaries
  BY CutsHave DEF First
<1>2. /\ s \in Seq(Heights) /\ t \in Seq(Heights)
      /\ Len(s) = SuperBlocksPerEpoch /\ Len(t) = SuperBlocksPerEpoch
      /\ SuperBlocksPerEpoch \in Nat \ {0}
      /\ \A j \in 1..SuperBlocksPerEpoch : s[j] \in Nat /\ t[j] \in Nat
  BY LayoutType, NumbersAssumption
<1>3. s[1] \in Nat /\ t[1] \in Nat
  BY <1>2
<1>4. s[1] <= t[1] /\ t[1] <= s[1]
  BY <1>1, <1>3, BoundariesBehind DEF Behind
<1>5. ASSUME NEW j \in 1..SuperBlocksPerEpoch PROVE s[j] = t[j]
  <2>1. j \in 1..Len(s) /\ j \in 1..Len(t) /\ j <= Len(t) /\ j <= Len(s)
    BY <1>2
  <2>2. s[j] <= t[j]
    BY <1>1, <1>2, <1>4, <2>1, CutMonotone
  <2>3. t[j] <= s[j]
    BY <1>1, <1>2, <1>4, <2>1, CutMonotone
  <2> QED BY <1>2, <2>2, <2>3
<1> QED BY <1>5, LayoutsEqual

\* The epochs of the cut that end with a block of the chain and are requested.
Completes(b) == \E s \in Layouts : Greedy(s) /\ First(s) = b /\ Last(s) <= tip
Requested(e) == EpochsToEncode # 0 => e < EpochsToEncode
CutEpochs == {e \in Nat : Requested(e) /\ \E b \in Nat : <<e, b>> \in Boundaries /\ Completes(b)}

\* When epoch n of the cut is not complete, no later one is.
LEMMA NoLaterEpoch ==
  ASSUME TypeOK, NEW n \in Nat,
         \A b \in Nat : <<n, b>> \in Boundaries => ~Completes(b)
  PROVE  \A e \in CutEpochs : e < n
<1> DEFINE S == {p \in Boundaries : p[1] > n => p[2] > tip}
<1>0. tip \in Nat
  BY NumbersAssumption DEF TypeOK, Heights
<1>1. S \in SUBSET (Nat \X Nat) /\ S \subseteq Boundaries
  BY DEF Boundaries
<1>2. <<0, 0>> \in S
  BY BoundariesFollow DEF FollowsCut
<1>3. ASSUME NEW e \in Nat, NEW b \in Nat, NEW d \in Nat, <<e, b>> \in S, EpochFrom(b, d)
      PROVE  <<e + 1, d>> \in S
  <2>1. <<e, b>> \in Boundaries /\ (e > n => b > tip)
    BY <1>3
  <2>2. <<e + 1, d>> \in Boundaries
    BY <1>3, <2>1, BoundariesFollow DEF FollowsCut
  <2>3. PICK s \in Layouts : Greedy(s) /\ First(s) = b /\ Last(s) + 1 = d
    BY <1>3 DEF EpochFrom
  <2>4. First(s) <= Last(s) /\ First(s) \in Nat /\ Last(s) \in Nat
    BY <2>3, LayoutType, GreedyIncreases, NumbersAssumption DEF First, Last
  <2>5. e = n => ~(Last(s) <= tip)
    BY <2>1, <2>3 DEF Completes
  <2>6. e + 1 > n => d > tip
    BY <1>0, <2>1, <2>3, <2>4, <2>5
  <2> QED BY <2>2, <2>6
<1>4. Boundaries \subseteq S
  <2>1. FollowsCut(S)
    <3> HIDE DEF S
    <3> QED BY <1>2, <1>3 DEF FollowsCut
  <2> QED BY <1>1, <2>1, BoundariesLeast
<1>5. ASSUME NEW e \in CutEpochs PROVE e < n
  <2>1. PICK b \in Nat : <<e, b>> \in Boundaries /\ Completes(b)
    BY DEF CutEpochs
  <2>2. PICK s \in Layouts : Greedy(s) /\ First(s) = b /\ Last(s) <= tip
    BY <2>1 DEF Completes
  <2>3. First(s) <= Last(s) /\ First(s) \in Nat /\ Last(s) \in Nat
    BY <2>2, LayoutType, GreedyIncreases, NumbersAssumption DEF First, Last
  <2>4. e > n => b > tip
    BY <1>4, <2>1
  <2>5. e # n
    BY <2>1
  <2> QED BY <1>0, <2>2, <2>3, <2>4, <2>5 DEF CutEpochs
<1> QED BY <1>5
------------------------------------------------------------------------------
(* Counting: generate-all leaves enough droplets of one cutting in every     *)
(* epoch.  A round that begins with the first block of the chain makes the   *)
(* cut and adds ProducedDroplets of it to every epoch; only the first round  *)
(* of a command can begin elsewhere, as every round removes the record.      *)

\* The epoch has n rounds of droplets of its cutting in c.
HasRounds(c, s, e, n) ==
  /\ e \in DOMAIN s
  /\ \E l \in Layouts : <<e, l>> \in c /\ Cardinality(Alike(s, e, l)) >= n * ProducedDroplets

\* Rounds of this command that are over, and how many of them made the cut.
RoundsDone == IF command = "generateAll" THEN RepetitionsNeeded - rounds ELSE 0
OnCut == ~resumed \/ RoundsDone > 0
CutRounds == IF resumed THEN RoundsDone - 1 ELSE RoundsDone

RoundInv ==
  /\ pc # "idle" => /\ rounds \in 1..RepetitionsNeeded
                    /\ command # "generateAll" => rounds = 1
  /\ pc \in Running /\ OnCut =>
       /\ <<epoch, EpochStart>> \in Boundaries
       /\ \A d \in 0..(epoch - 1) : HasRounds(Cuts, store, d, CutRounds + 1)
  /\ pc = "open" /\ OnCut /\ CutRounds > 0 => HasRounds(Cuts, store, epoch, CutRounds)
  /\ pc \in {"create", "write"} /\ OnCut =>
       Cardinality(Alike(store, epoch, starts)) >= CutRounds * ProducedDroplets + produced
  /\ pc \in Saving /\ OnCut => HasRounds(Cuts, store, epoch, CutRounds + 1)
  /\ pc \in {"removeCount", "removeBlock"} =>
       /\ 0..epoch \subseteq DOMAIN store
       /\ OnCut => \A d \in (0..epoch) \cup CutEpochs : HasRounds(Cuts, store, d, CutRounds + 1)
  /\ pc \in Running \cup {"begin"} /\ OnCut /\ CutRounds > 0 =>
       \A d \in CutEpochs : HasRounds(Cuts, store, d, CutRounds)

\* The rounds after the first find no record.
ResumeInv ==
  /\ pc = "removeBlock" => epochsCountFile = Missing
  /\ pc = "begin" /\ RoundsDone > 0 => epochsCountFile = Missing /\ lastBlockFile = Missing

EnoughInv == EnoughDroplets /\ (outcome = "done" => pc = "idle")

LEMMA RoundsTimes ==
  ASSUME NEW n \in Nat
  PROVE  /\ n * ProducedDroplets \in Nat
         /\ (n + 1) * ProducedDroplets = n * ProducedDroplets + ProducedDroplets
         /\ 1 * ProducedDroplets = ProducedDroplets
<1>1. PICK p \in Nat : p = ProducedDroplets
  BY ProducedPositive
<1>2. n * p \in Nat /\ (n + 1) * p = n * p + p /\ 1 * p = p
  OBVIOUS
<1> QED BY <1>1, <1>2

LEMMA CeilDivEnough ==
  ASSUME NEW a \in Nat \ {0}, NEW b \in Nat \ {0} PROVE CeilDiv(a, b) * b >= a
<1> DEFINE q == (a + b - 1) \div b
<1>1. q \in Int /\ q * b + ((a + b - 1) % b) = a + b - 1 /\ (a + b - 1) % b \in 0..(b - 1)
  OBVIOUS
<1>2. q * b >= a
  BY <1>1
<1> QED BY <1>2 DEF CeilDiv

LEMMA EnoughRounds == RepetitionsNeeded * ProducedDroplets >= MinEncodedSymbols
BY CeilDivEnough, ProducedPositive, NumbersAssumption DEF RepetitionsNeeded

LEMMA RoundsKept ==
  ASSUME KeepsStore, NEW n \in Nat, NEW c, NEW e, HasRounds(c, store, e, n)
  PROVE  HasRounds(c, store', e, n)
<1>1. n * ProducedDroplets \in Nat
  BY RoundsTimes
<1>2. PICK l \in Layouts : <<e, l>> \in c /\ Cardinality(Alike(store, e, l)) >= n * ProducedDroplets
  BY DEF HasRounds
<1>3. e \in DOMAIN store
  BY DEF HasRounds
<1>4. e \in DOMAIN store' /\ Cardinality(Alike(store', e, l)) >= n * ProducedDroplets
  BY <1>1, <1>2, <1>3, AlikeKept
<1> QED BY <1>2, <1>4 DEF HasRounds

LEMMA CutUnchanged ==
  ASSUME chain' = chain, tip' = tip
  PROVE  Boundaries' = Boundaries /\ CutEpochs' = CutEpochs /\ Cuts' = Cuts
<1>1. Boundaries' = Boundaries
  BY BoundariesUnchanged
<1>2. ASSUME NEW b PROVE Completes(b)' = Completes(b)
  BY DEF Completes, Greedy, FullSuperBlock, Fits
<1>3. Cuts' = Cuts
  BY <1>1 DEF Cuts, Greedy, FullSuperBlock, Fits
<1> QED BY <1>1, <1>2, <1>3 DEF CutEpochs

LEMMA RoundsDoneType ==
  ASSUME RoundInv, pc # "idle"
  PROVE  /\ RoundsDone \in Nat /\ rounds \in Nat /\ rounds >= 1
         /\ OnCut => CutRounds \in Nat /\ CutRounds + 1 \in Nat
BY ProducedPositive DEF RoundInv, RoundsDone, OnCut, CutRounds

\* What the steps inside an epoch, to the next one and out of the last one have
\* to show of the state after them.
Control == UNCHANGED <<chain, tip, command, rounds, resumed>>

LEMMA SameControl ==
  ASSUME Control
  PROVE  /\ RoundsDone' = RoundsDone /\ OnCut' = OnCut /\ CutRounds' = CutRounds
         /\ Boundaries' = Boundaries /\ CutEpochs' = CutEpochs /\ Cuts' = Cuts
         /\ rounds' = rounds /\ command' = command
BY CutUnchanged DEF Control, RoundsDone, OnCut, CutRounds

LEMMA SameEpoch ==
  ASSUME RoundInv, KeepsStore, Control, pc \in Running, pc' \in Running,
         epoch' = epoch, EpochStart' = EpochStart,
         pc' = "open" /\ OnCut /\ CutRounds > 0 => HasRounds(Cuts, store', epoch, CutRounds),
         pc' \in {"create", "write"} /\ OnCut =>
           Cardinality(Alike(store', epoch, starts')) >= CutRounds * ProducedDroplets + produced',
         pc' \in Saving /\ OnCut => HasRounds(Cuts, store', epoch, CutRounds + 1)
  PROVE  RoundInv'
<1>1. pc # "idle" /\ pc' \notin {"removeCount", "removeBlock"}
  BY DEF Running, Encoding
<1>2. OnCut => CutRounds \in Nat /\ CutRounds + 1 \in Nat
  BY <1>1, RoundsDoneType
<1>3. OnCut => \A d \in 0..(epoch - 1) : HasRounds(Cuts, store', d, CutRounds + 1)
  BY <1>2, RoundsKept DEF RoundInv
<1>4. OnCut /\ CutRounds > 0 => \A d \in CutEpochs : HasRounds(Cuts, store', d, CutRounds)
  BY <1>2, RoundsKept DEF RoundInv
<1> QED BY <1>1, <1>3, <1>4, SameControl DEF RoundInv

LEMMA NewEpoch ==
  ASSUME RoundInv, Control, pc \in Running \cup {"begin"}, pc' = "scan",
         store' = store, starts' = << >>,
         OnCut => /\ <<epoch', height'>> \in Boundaries
                  /\ \A d \in 0..(epoch' - 1) : HasRounds(Cuts, store, d, CutRounds + 1)
  PROVE  RoundInv'
<1>1. pc # "idle" /\ EpochStart' = height'
  BY DEF Running, Encoding, EpochStart
<1> QED BY <1>1, SameControl DEF RoundInv, Saving

LEMMA RoundOver ==
  ASSUME RoundInv, Control, pc # "idle", pc' \in {"removeCount", "removeBlock"}, store' = store,
         0..epoch' \subseteq DOMAIN store,
         OnCut => \A d \in (0..epoch') \cup CutEpochs : HasRounds(Cuts, store, d, CutRounds + 1)
  PROVE  RoundInv'
BY SameControl DEF RoundInv, Running, Encoding, Saving

\* The directory of the epoch that is cut is there or is the next one.
InReach == /\ pc = "scan" => epoch <= EpochCount(store)
           /\ pc \in Encoding \ {"open"} => epoch \in DOMAIN store

\* What is known before a step, besides the invariant of the rounds.
StepFacts == /\ TypeOK /\ StepOK /\ NumberInv /\ CutInv /\ RequestInv /\ NoEpochMissing /\ InReach
             /\ [Next]_vars

LEMMA FactsKeep == ASSUME StepFacts PROVE KeepsStore
BY StepKeepsStore DEF StepFacts

LEMMA EpochsThere ==
  ASSUME StepFacts
  PROVE  /\ EpochCount(store) \in Nat /\ DOMAIN store = 0..(EpochCount(store) - 1)
         /\ pc = "scan" => 0..(epoch - 1) \subseteq DOMAIN store
         /\ pc \in Encoding \ {"open"} => 0..epoch \subseteq DOMAIN store
<1>1. EpochCount(store) \in Nat /\ DOMAIN store = 0..(EpochCount(store) - 1)
  BY EpochCountType DEF StepFacts, TypeOK, NoEpochMissing
<1>2. pc \in Encoding \/ pc = "scan" => epoch \in Nat
  BY DEF StepFacts, StepOK, Encoding
<1> QED BY <1>1, <1>2 DEF StepFacts, InReach

LEMMA RoundBegin ==
  ASSUME StepFacts, RoundInv, ResumeInv, BeginFromScratch \/ Resume
  PROVE  RoundInv'
<1> USE DEF chainVars, files, progress, encoder, control
<1>1. /\ UNCHANGED <<chain, tip, command, rounds>> /\ pc = "begin" /\ pc' = "scan"
      /\ store' = store /\ starts' = << >> /\ RoundsDone \in Nat
      /\ resumed' = (resumed \/ epoch' # 0 \/ height' # 0)
  BY RoundsDoneType DEF BeginFromScratch, Resume, BeginAt
<1>2. CASE RoundsDone = 0 /\ resumed'
  <2>1. RoundsDone' = 0
    BY <1>1, <1>2 DEF RoundsDone
  <2>2. ~OnCut'
    BY <1>2, <2>1 DEF OnCut
  <2>3. rounds' = rounds /\ command' = command /\ pc # "idle"
    BY <1>1
  <2> QED BY <1>1, <2>2, <2>3 DEF RoundInv
<1>3. CASE ~(RoundsDone = 0 /\ resumed')
  <2>1. epoch' = 0 /\ height' = 0
    <3>1. CASE RoundsDone = 0
      BY <1>1, <1>3, <3>1
    <3>2. CASE RoundsDone # 0
      <4>1. RoundsDone > 0
        BY <1>1, <3>2
      <4>2. epochsCountFile = Missing /\ lastBlockFile = Missing
        BY <1>1, <4>1 DEF ResumeInv
      <4> QED BY <4>2 DEF BeginFromScratch, Resume, BeginAt, Parsed
    <3> QED BY <3>1, <3>2
  <2>2. resumed' = resumed
    <3>1. resumed \in BOOLEAN
      BY DEF StepFacts, TypeOK
    <3> QED BY <1>1, <2>1, <3>1
  <2>3. Control
    BY <1>1, <2>2 DEF Control
  <2>4. <<epoch', height'>> \in Boundaries
    BY <2>1, BehindStart
  <2>5. \A d \in 0..(epoch' - 1) : HasRounds(Cuts, store, d, CutRounds + 1)
    BY <2>1
  <2> QED BY <1>1, <2>3, <2>4, <2>5, NewEpoch
<1> QED BY <1>2, <1>3

\* At the end of the chain, no epoch of the cut is left that was not encoded.
LEMMA RoundAddBlock ==
  ASSUME StepFacts, RoundInv, AddBlock
  PROVE  RoundInv'
<1> USE DEF chainVars, files, progress, encoder, control
<1>0. KeepsStore /\ TypeOK
  BY FactsKeep DEF StepFacts
<1>1. /\ Control /\ pc = "scan" /\ store' = store /\ epoch \in Nat
      /\ CutTo(starts', height) /\ starts'[1] = EpochStart /\ starts' # << >>
      /\ pc' \in {"open", "scan", "removeCount"} /\ height <= tip
      /\ height \in Nat
  <2>1. CutTo(starts', height) /\ starts'[1] = EpochStart
    BY AddBlockCuts DEF StepFacts
  <2>2. starts' # << >>
    BY <2>1 DEF CutTo
  <2> QED BY <2>1, <2>2, NumbersAssumption
          DEF AddBlock, NextBlock, Control, StepFacts, StepOK, CutInv, Running, TypeOK, Heights
<1>2. EpochStart' = EpochStart /\ pc \in Running
  BY <1>1 DEF EpochStart, Running
<1>3. CASE pc' = "scan"
  <2>1. epoch' = epoch
    BY <1>1, <1>3 DEF AddBlock, NextBlock
  <2> QED BY <1>0, <1>1, <1>2, <1>3, <2>1, SameEpoch DEF Running, Encoding, Saving
<1>4. CASE pc' = "open"
  <2>1. epoch' = epoch /\ Len(starts') = SuperBlocksPerEpoch
    BY <1>1, <1>4 DEF AddBlock, NextBlock
  <2>2. starts' \in Layouts /\ Greedy(starts') /\ Last(starts') = height
    BY <1>1, <2>1 DEF CutTo, Layouts, Last
  <2>3. Completes(EpochStart)
    BY <1>1, <2>2 DEF Completes, First
  <2>4. Requested(epoch)
    BY <1>1 DEF Requested, StepFacts, RequestInv
  <2>5. EpochStart \in Nat
    BY <1>1, <2>2, LayoutType, NumbersAssumption
  <2>6. OnCut /\ CutRounds > 0 => HasRounds(Cuts, store, epoch, CutRounds)
    BY <1>1, <1>2, <2>3, <2>4, <2>5 DEF RoundInv, CutEpochs
  <2> QED BY <1>0, <1>1, <1>2, <1>4, <2>1, <2>6, SameEpoch DEF Running, Encoding, Saving
<1>5. CASE pc' = "removeCount"
  <2>1. epoch' = epoch - 1 /\ Len(starts') # SuperBlocksPerEpoch /\ height = tip
    <3>1. ~(height < tip)
      BY <1>1, <1>5 DEF AddBlock, NextBlock
    <3>2. tip \in Nat
      BY <1>0, NumbersAssumption DEF TypeOK, Heights
    <3> QED BY <1>1, <1>5, <3>1, <3>2 DEF AddBlock, NextBlock
  <2>2. Len(starts') < SuperBlocksPerEpoch
    BY <1>1, <2>1, NumbersAssumption DEF CutTo
  <2>3. ASSUME OnCut PROVE \A d \in (0..epoch') \cup CutEpochs : HasRounds(Cuts, store, d, CutRounds + 1)
    <3>1. <<epoch, EpochStart>> \in Boundaries
      BY <1>2, <2>3 DEF RoundInv
    <3>2. Behind(epoch, EpochStart)
      <4>1. EpochStart \in Nat
        BY <3>1 DEF Boundaries
      <4> QED BY <1>0, <1>1, <3>1, <4>1, BoundariesBehind
    <3>3. ASSUME NEW b \in Nat, <<epoch, b>> \in Boundaries, NEW t \in Layouts, Greedy(t), First(t) = b
          PROVE  ~(Last(t) <= tip)
      <4>1. starts'[1] <= t[1]
        BY <1>1, <3>2, <3>3 DEF Behind, First
      <4> QED BY <1>0, <1>1, <2>1, <2>2, <3>3, <4>1, LaterIncomplete
    <3>4. \A d \in CutEpochs : d < epoch
      BY <1>0, <1>1, <3>3, NoLaterEpoch DEF Completes
    <3>5. \A d \in (0..epoch') \cup CutEpochs : d \in 0..(epoch - 1)
      BY <1>1, <2>1, <3>4 DEF CutEpochs
    <3>6. \A d \in 0..(epoch - 1) : HasRounds(Cuts, store, d, CutRounds + 1)
      BY <1>2, <2>3 DEF RoundInv
    <3> QED BY <3>5, <3>6
  <2>4. pc # "idle" /\ 0..epoch' \subseteq DOMAIN store
    BY <1>1, <2>1, EpochsThere
  <2> QED BY <1>1, <1>5, <2>3, <2>4, RoundOver
<1> QED BY <1>1, <1>3, <1>4, <1>5

\* A round on the cut encodes every epoch as it is cut there.
LEMMA StartsInCut ==
  ASSUME StepFacts, RoundInv, pc \in Encoding, OnCut
  PROVE  epoch \in Nat /\ starts \in Layouts /\ <<epoch, starts>> \in Cuts
<1>1. /\ epoch \in Nat /\ starts \in Layouts /\ Greedy(starts) /\ pc \in Running
  BY DEF StepFacts, StepOK, CutInv, TypeOK, Layouts, Running, Encoding
<1>2. starts # << >>
  BY <1>1, LayoutType, NumbersAssumption
<1>3. <<epoch, First(starts)>> \in Boundaries
  BY <1>1, <1>2 DEF RoundInv, EpochStart, First
<1> QED BY <1>1, <1>3, CutsHave

LEMMA RoundEncode ==
  ASSUME StepFacts, RoundInv, OpenStorage \/ CreateDroplet \/ WriteDroplet
  PROVE  RoundInv'
<1> USE DEF chainVars, files, progress, encoder, control
<1>0. KeepsStore /\ TypeOK /\ epoch \in Nat
  BY FactsKeep DEF StepFacts, StepOK, OpenStorage, CreateDroplet, WriteDroplet
<1>1. /\ Control /\ pc \in Running /\ pc \in Encoding /\ pc' \in {"create", "write"}
      /\ epoch' = epoch /\ starts' = starts
      /\ EpochStart' = EpochStart /\ pc' \in Running /\ pc' # "open" /\ pc' \notin Saving
      /\ pc # "idle"
  BY DEF OpenStorage, CreateDroplet, WriteDroplet, Control, EpochStart, Running, Encoding, Saving
<1>2. ASSUME OnCut
      PROVE  Cardinality(Alike(store', epoch, starts)) >= CutRounds * ProducedDroplets + produced'
  <2>0. /\ CutRounds \in Nat /\ CutRounds * ProducedDroplets \in Nat
        /\ starts \in Layouts /\ <<epoch, starts>> \in Cuts
    BY <1>1, <1>2, RoundsDoneType, RoundsTimes, StartsInCut
  <2>1. CASE OpenStorage
    <3>1. /\ epoch \in DOMAIN store' /\ produced' = 0 /\ pc = "open"
      BY <2>1 DEF OpenStorage, OpenDir
    <3>2. Cardinality(Alike(store', epoch, starts)) \in Nat
      BY <1>0, <3>1, AlikeType DEF KeepsStore, TypeOK
    <3>3. CASE CutRounds = 0
      <4>1. CutRounds * ProducedDroplets = 0
        BY <3>3, ProducedPositive
      <4> QED BY <3>1, <3>2, <4>1
    <3>4. CASE CutRounds # 0
      <4>1. CutRounds > 0
        BY <2>0, <3>4
      <4>2. HasRounds(Cuts, store', epoch, CutRounds)
        BY <1>0, <1>2, <2>0, <3>1, <4>1, RoundsKept DEF RoundInv
      <4>3. PICK l \in Layouts : /\ <<epoch, l>> \in Cuts
                                 /\ Cardinality(Alike(store', epoch, l)) >= CutRounds * ProducedDroplets
        BY <4>2 DEF HasRounds
      <4>4. l = starts
        BY <1>0, <2>0, <4>3, CutIsUnique
      <4> QED BY <2>0, <3>1, <3>2, <4>3, <4>4
    <3> QED BY <3>3, <3>4
  <2>2. CASE CreateDroplet
    <3>1. /\ epoch \in DOMAIN store /\ produced' = produced /\ produced \in Nat
          /\ Cardinality(Alike(store, epoch, starts)) >= CutRounds * ProducedDroplets + produced
      BY <1>2, <2>2, ProducedPositive DEF CreateDroplet, StepFacts, StepOK, RoundInv, TypeOK
    <3> QED BY <1>0, <2>0, <3>1, AlikeKept
  <2>3. CASE WriteDroplet
    <3>1. /\ produced' = produced + 1 /\ produced \in Nat
          /\ Cardinality(Alike(store, epoch, starts)) >= CutRounds * ProducedDroplets + produced
      BY <1>2, <2>3, ProducedPositive DEF WriteDroplet, StepFacts, RoundInv, TypeOK
    <3>2. /\ Cardinality(Alike(store, epoch, starts)) \in Nat
          /\ Cardinality(Alike(store', epoch, starts)) = Cardinality(Alike(store, epoch, starts)) + 1
      BY <2>3, AlikeWritten DEF StepFacts
    <3> QED BY <2>0, <3>1, <3>2
  <2> QED BY <2>1, <2>2, <2>3
<1> QED BY <1>0, <1>1, <1>2, SameEpoch

LEMMA RoundFinish ==
  ASSUME StepFacts, RoundInv, FinishEpoch
  PROVE  RoundInv'
<1> USE DEF chainVars, files, progress, encoder, control
<1>0. KeepsStore /\ TypeOK /\ epoch \in Nat /\ epoch \in DOMAIN store
  BY FactsKeep DEF StepFacts, StepOK, FinishEpoch
<1>1. /\ Control /\ pc = "create" /\ pc \in Running /\ pc \in Encoding /\ epoch' = epoch
      /\ store' = store /\ EpochStart' = EpochStart /\ produced = ProducedDroplets
      /\ pc' \in {"removeCount", "truncateCount"} /\ pc # "idle"
  BY DEF FinishEpoch, Control, EpochStart, Running, Encoding
<1>2. ASSUME OnCut PROVE HasRounds(Cuts, store, epoch, CutRounds + 1)
  <2>1. CutRounds \in Nat /\ starts \in Layouts /\ <<epoch, starts>> \in Cuts
    BY <1>1, <1>2, RoundsDoneType, StartsInCut
  <2>2. Cardinality(Alike(store, epoch, starts)) >= CutRounds * ProducedDroplets + ProducedDroplets
    BY <1>1, <1>2 DEF RoundInv
  <2>3. Cardinality(Alike(store, epoch, starts)) >= (CutRounds + 1) * ProducedDroplets
    BY <2>1, <2>2, RoundsTimes
  <2> QED BY <1>0, <2>1, <2>3 DEF HasRounds
<1>3. CASE pc' = "truncateCount"
  BY <1>0, <1>1, <1>2, <1>3, SameEpoch DEF Running, Encoding
<1>4. CASE pc' = "removeCount"
  <2>1. EpochsToEncode # 0 /\ epoch = EpochsToEncode - 1
    BY <1>1, <1>4 DEF FinishEpoch, LastRequested
  <2>2. \A d \in CutEpochs : d \in 0..epoch
    BY <1>0, <2>1, NumbersAssumption DEF CutEpochs, Requested
  <2>3. \A d \in 0..epoch : d = epoch \/ d \in 0..(epoch - 1)
    BY <1>0
  <2>4. OnCut => \A d \in 0..(epoch - 1) : HasRounds(Cuts, store, d, CutRounds + 1)
    BY <1>1 DEF RoundInv
  <2>5. OnCut => \A d \in (0..epoch') \cup CutEpochs : HasRounds(Cuts, store, d, CutRounds + 1)
    BY <1>1, <1>2, <2>2, <2>3, <2>4
  <2>6. 0..epoch' \subseteq DOMAIN store
    BY <1>1, EpochsThere
  <2> QED BY <1>1, <1>4, <2>5, <2>6, RoundOver
<1> QED BY <1>1, <1>3, <1>4

LEMMA RoundSave ==
  ASSUME StepFacts, RoundInv, TruncateCount \/ WriteCount \/ TruncateBlock
  PROVE  RoundInv'
<1> USE DEF chainVars, files, progress, encoder, control
<1>0. KeepsStore
  BY FactsKeep
<1>1. /\ Control /\ pc \in Running /\ pc \in Saving /\ epoch' = epoch /\ store' = store
      /\ EpochStart' = EpochStart /\ pc' \in Saving /\ pc' \in Running
      /\ pc' \notin {"open", "create", "write"}
  BY DEF TruncateCount, WriteCount, TruncateBlock, Control, EpochStart, Running, Encoding, Saving
<1> QED BY <1>0, <1>1, SameEpoch DEF RoundInv

\* Once an epoch has its droplets, the next one begins where the cut's does.
LEMMA SavedEpoch ==
  ASSUME StepFacts, RoundInv, pc \in Saving, OnCut
  PROVE  /\ \A d \in 0..epoch : HasRounds(Cuts, store, d, CutRounds + 1)
         /\ <<epoch + 1, height + 1>> \in Boundaries
<1>0. pc \in Running /\ pc \in Encoding
  BY DEF Saving, Running, Encoding
<1>1. /\ epoch \in Nat /\ starts \in Layouts /\ Last(starts) = height
      /\ Greedy(starts) /\ <<epoch, starts[1]>> \in Boundaries
  <2>1. epoch \in Nat /\ starts \in Layouts /\ <<epoch, starts>> \in Cuts
    BY <1>0, StartsInCut
  <2>2. Last(starts) = height
    BY <1>0 DEF StepFacts, CutInv, Last
  <2> QED BY <2>1, <2>2, CutsHave DEF First
<1>2. <<epoch + 1, height + 1>> \in Boundaries
  BY <1>1, BoundaryNext
<1>3. \A d \in 0..epoch : d = epoch \/ d \in 0..(epoch - 1)
  BY <1>1
<1> QED BY <1>0, <1>2, <1>3 DEF RoundInv

LEMMA RoundWriteBlock ==
  ASSUME StepFacts, RoundInv, WriteBlock
  PROVE  RoundInv'
<1> USE DEF chainVars, files, progress, encoder, control
<1>0. TypeOK /\ tip \in Nat /\ epoch \in Nat /\ height \in Nat
  BY NumbersAssumption DEF StepFacts, StepOK, TypeOK, Heights, WriteBlock
<1>1. /\ Control /\ pc \in Running /\ pc \in Saving /\ store' = store /\ starts' = << >>
      /\ pc' \in {"scan", "removeCount"} /\ pc \in Encoding \ {"open"} /\ pc # "idle"
  BY DEF WriteBlock, NextBlock, Control, Running, Encoding, Saving
<1>2. OnCut => /\ \A d \in 0..epoch : HasRounds(Cuts, store, d, CutRounds + 1)
               /\ <<epoch + 1, height + 1>> \in Boundaries
  BY <1>1, SavedEpoch
<1>3. CASE pc' = "scan"
  <2>1. epoch' = epoch + 1 /\ height' = height + 1 /\ (epoch + 1) - 1 = epoch
    BY <1>0, <1>1, <1>3 DEF WriteBlock, NextBlock
  <2> QED BY <1>1, <1>2, <1>3, <2>1, NewEpoch
<1>4. CASE pc' = "removeCount"
  <2>1. epoch' = epoch /\ ~(height < tip)
    BY <1>0, <1>1, <1>4 DEF WriteBlock, NextBlock
  <2>2. ASSUME OnCut PROVE \A d \in (0..epoch') \cup CutEpochs : HasRounds(Cuts, store, d, CutRounds + 1)
    <3>1. Behind(epoch + 1, height + 1)
      BY <1>0, <1>2, <2>2, BoundariesBehind
    <3>2. ASSUME NEW b \in Nat, <<epoch + 1, b>> \in Boundaries, NEW t \in Layouts, Greedy(t), First(t) = b
          PROVE  ~(Last(t) <= tip)
      <4>1. height + 1 <= b
        BY <3>1, <3>2 DEF Behind
      <4>2. First(t) <= Last(t) /\ Last(t) \in Nat
        BY <3>2, LayoutType, GreedyIncreases, NumbersAssumption DEF First, Last
      <4> QED BY <1>0, <2>1, <3>2, <4>1, <4>2
    <3>3. \A d \in CutEpochs : d < epoch + 1
      BY <1>0, <3>2, NoLaterEpoch DEF Completes
    <3>4. \A d \in (0..epoch') \cup CutEpochs : d \in 0..epoch
      BY <1>0, <2>1, <3>3 DEF CutEpochs
    <3> QED BY <1>2, <2>2, <3>4
  <2>3. 0..epoch' \subseteq DOMAIN store
    BY <1>1, <2>1, EpochsThere
  <2> QED BY <1>1, <1>4, <2>2, <2>3, RoundOver
<1> QED BY <1>1, <1>3, <1>4

\* The next round of generate-all.
LEMMA RoundRemove ==
  ASSUME StepFacts, RoundInv, RemoveCount \/ RemoveBlock
  PROVE  RoundInv'
<1> USE DEF chainVars, files, progress, encoder, control
<1>1. CASE RemoveCount
  <2>1. /\ Control /\ pc = "removeCount" /\ pc' = "removeBlock" /\ store' = store /\ epoch' = epoch
    BY <1>1 DEF RemoveCount, Control
  <2>2. /\ 0..epoch' \subseteq DOMAIN store
        /\ OnCut => \A d \in (0..epoch') \cup CutEpochs : HasRounds(Cuts, store, d, CutRounds + 1)
    BY <2>1 DEF RoundInv
  <2>3. pc # "idle"
    BY <2>1
  <2> QED BY <2>1, <2>2, <2>3, RoundOver
<1>2. CASE RemoveBlock
  <2>1. /\ UNCHANGED <<chain, tip, command, resumed>> /\ pc = "removeBlock" /\ store' = store
        /\ rounds \in 1..RepetitionsNeeded
    BY <1>2 DEF RemoveBlock, Stop, RoundInv
  <2>2. CASE rounds > 1
    <3>1. pc' = "begin" /\ rounds' = rounds - 1 /\ command = "generateAll"
      BY <1>2, <2>1, <2>2, ProducedPositive DEF RemoveBlock, RoundInv
    <3>2. /\ rounds' \in 1..RepetitionsNeeded /\ RoundsDone' = RoundsDone + 1
          /\ CutEpochs' = CutEpochs /\ Cuts' = Cuts /\ RoundsDone \in Nat
      BY <2>1, <2>2, <3>1, ProducedPositive, CutUnchanged DEF RoundsDone
    <3>3. ASSUME CutRounds' > 0 PROVE OnCut /\ CutRounds' = CutRounds + 1
      BY <2>1, <3>2, <3>3 DEF CutRounds, OnCut
    <3>4. OnCut => \A d \in CutEpochs : HasRounds(Cuts, store, d, CutRounds + 1)
      BY <2>1 DEF RoundInv
    <3> QED BY <2>1, <3>1, <3>2, <3>3, <3>4 DEF RoundInv, Running, Encoding, Saving
  <2>3. CASE ~(rounds > 1)
    <3>1. pc' = "idle"
      BY <1>2, <2>3 DEF RemoveBlock, Stop
    <3> QED BY <3>1 DEF RoundInv, Running, Encoding, Saving
  <2> QED BY <2>2, <2>3
<1> QED BY <1>1, <1>2

LEMMA RoundInvariant ==
  ASSUME StepFacts, RoundInv, ResumeInv PROVE RoundInv'
<1> USE DEF chainVars, files, progress, encoder, control
<1>1. CASE ChainGrows \/ ResumeFails \/ Crash
  <2>1. pc' = "idle"
    BY <1>1 DEF ChainGrows, ResumeFails, Crash, Stop
  <2> QED BY <2>1 DEF RoundInv, Running, Encoding, Saving
<1>2. ASSUME NEW cmd \in {"generate", "generateAll"}, Start(cmd) PROVE RoundInv'
  <2>1. /\ pc' = "begin" /\ command' = cmd /\ resumed' = FALSE
        /\ rounds' = IF cmd = "generateAll" THEN RepetitionsNeeded ELSE 1
    BY <1>2 DEF Start
  <2>2. RoundsDone' = 0 /\ rounds' \in 1..RepetitionsNeeded
    BY <2>1, ProducedPositive DEF RoundsDone
  <2>3. CutRounds' = 0
    BY <2>1, <2>2 DEF CutRounds
  <2> QED BY <2>1, <2>2, <2>3 DEF RoundInv, Running, Encoding, Saving
<1>3. CASE UNCHANGED vars
  <2>1. /\ UNCHANGED <<store, pc, epoch, starts, produced>> /\ Control /\ EpochStart' = EpochStart
    BY <1>3 DEF vars, EpochStart, Control
  <2> QED BY <2>1, SameControl DEF RoundInv
<1> QED BY <1>1, <1>2, <1>3, RoundBegin, RoundAddBlock, RoundEncode, RoundFinish, RoundSave,
           RoundWriteBlock, RoundRemove DEF StepFacts, Next, Step

LEMMA ResumeInvariant ==
  ASSUME TypeOK, ResumeInv, [Next]_vars PROVE ResumeInv'
<1> USE DEF chainVars, files, progress, encoder, control
<1>1. CASE RemoveCount
  BY <1>1 DEF RemoveCount, ResumeInv
<1>2. CASE RemoveBlock
  BY <1>2 DEF RemoveBlock, Stop, ResumeInv
<1>3. ASSUME NEW cmd \in {"generate", "generateAll"}, Start(cmd) PROVE ResumeInv'
  <2>1. pc' = "begin" /\ RoundsDone' = 0
    BY <1>3, ProducedPositive DEF Start, RoundsDone
  <2> QED BY <2>1 DEF ResumeInv
<1>4. CASE UNCHANGED vars
  <2>1. UNCHANGED <<pc, epochsCountFile, lastBlockFile>> /\ RoundsDone' = RoundsDone
    BY <1>4 DEF vars, RoundsDone
  <2> QED BY <2>1 DEF ResumeInv
<1>5. CASE /\ ~RemoveCount /\ ~RemoveBlock /\ Next
           /\ ~\E cmd \in {"generate", "generateAll"} : Start(cmd)
  <2>1. pc' \notin {"begin", "removeBlock"}
    BY <1>5 DEF Next, Step, ChainGrows, BeginFromScratch, Resume, BeginAt, ResumeFails, AddBlock,
                NextBlock, OpenStorage, CreateDroplet, WriteDroplet, FinishEpoch, TruncateCount,
                WriteCount, TruncateBlock, WriteBlock, Crash, Stop
  <2> QED BY <2>1 DEF ResumeInv
<1> QED BY <1>1, <1>2, <1>3, <1>4, <1>5

\* The last round makes up what a restore needs.
LEMMA EnoughInvariant ==
  ASSUME StepFacts, RoundInv, EnoughInv PROVE EnoughInv'
<1> USE DEF chainVars, files, progress, encoder, control
<1>1. CASE RemoveBlock /\ outcome' = "done"
  <2>1. /\ pc = "removeBlock" /\ pc' = "idle" /\ UNCHANGED <<store, epoch, command, resumed>>
        /\ rounds \in 1..RepetitionsNeeded /\ ~(rounds > 1)
    <3>1. pc = "removeBlock" /\ rounds \in 1..RepetitionsNeeded
      BY <1>1 DEF RemoveBlock, RoundInv
    <3>2. outcome # "done"
      BY <3>1 DEF EnoughInv
    <3> QED BY <1>1, <3>1, <3>2 DEF RemoveBlock, Stop
  <2> DEFINE needed == IF resumed THEN (RepetitionsNeeded - 1) * ProducedDroplets
                                  ELSE MinEncodedSymbols
  <2>2. ASSUME command = "generateAll", NEW d \in 0..epoch PROVE ManyAlike(d, needed)
    <3>1. RoundsDone + 1 = RepetitionsNeeded /\ RoundsDone \in Nat
      BY <2>1, <2>2, ProducedPositive DEF RoundsDone
    <3>2. CASE OnCut
      <4>1. HasRounds(Cuts, store, d, CutRounds + 1)
        BY <2>1, <2>2, <3>2 DEF RoundInv
      <4>2. PICK l \in Layouts : Cardinality(Alike(store, d, l)) >= (CutRounds + 1) * ProducedDroplets
        BY <4>1 DEF HasRounds
      <4>3. d \in DOMAIN store /\ Cardinality(Alike(store, d, l)) \in Nat
        BY <4>1, AlikeType DEF HasRounds, StepFacts, TypeOK
      <4>4. CASE resumed
        <5>1. CutRounds + 1 = RepetitionsNeeded - 1
          BY <3>1, <4>4 DEF CutRounds
        <5> QED BY <4>2, <4>3, <4>4, <5>1 DEF ManyAlike
      <4>5. CASE ~resumed
        <5>1. CutRounds + 1 = RepetitionsNeeded
          BY <3>1, <4>5 DEF CutRounds
        <5>2. RepetitionsNeeded * ProducedDroplets \in Nat
          BY ProducedPositive, RoundsTimes
        <5>3. Cardinality(Alike(store, d, l)) >= MinEncodedSymbols
          BY <4>2, <4>3, <5>1, <5>2, EnoughRounds, NumbersAssumption
        <5> QED BY <4>3, <4>5, <5>3 DEF ManyAlike
      <4> QED BY <4>4, <4>5
    <3>3. CASE ~OnCut
      <4>1. resumed /\ RepetitionsNeeded - 1 = 0
        BY <3>1, <3>3 DEF OnCut
      <4>2. (RepetitionsNeeded - 1) * ProducedDroplets = 0
        BY <4>1, ProducedPositive
      <4>3. d \in DOMAIN store
        BY <2>1, <2>2 DEF RoundInv
      <4>4. PICK l \in Layouts : TRUE
        <5>1. 0 \in Heights
          BY NumbersAssumption DEF Heights
        <5>2. [j \in 1..SuperBlocksPerEpoch |-> 0] \in Layouts
          BY <5>1 DEF Layouts
        <5> QED BY <5>2
      <4>5. Cardinality(Alike(store, d, l)) \in Nat
        BY <4>3, AlikeType DEF StepFacts, TypeOK
      <4>6. Cardinality(Alike(store, d, l)) >= (RepetitionsNeeded - 1) * ProducedDroplets
        BY <4>2, <4>5
      <4> QED BY <4>1, <4>3, <4>6 DEF ManyAlike
    <3> QED BY <3>2, <3>3
  <2>3. ASSUME NEW d, NEW n, ManyAlike(d, n) PROVE ManyAlike(d, n)'
    BY <2>1, <2>3 DEF ManyAlike
  <2>4. needed' = needed
    BY <2>1
  <2>5. Reported' => \A d \in 0..epoch' : ManyAlike(d, needed)'
    <3> HIDE DEF needed
    <3> QED BY <2>1, <2>2, <2>3, <2>4 DEF Reported, ManyAlike
  <2> QED BY <2>1, <2>5 DEF EnoughInv, EnoughDroplets
<1>2. CASE ~(RemoveBlock /\ outcome' = "done")
  <2>1. outcome' = "done" => /\ outcome = "done" /\ pc = "idle" /\ pc' = "idle"
                             /\ UNCHANGED <<store, epoch, command, resumed>>
    <3>1. ASSUME outcome' = "done" PROVE outcome = "done" /\ (ChainGrows \/ UNCHANGED vars \/ pc # "idle")
      BY <1>2, <3>1 DEF StepFacts, Next, Step, ChainGrows, Start, BeginFromScratch, Resume, BeginAt,
         ResumeFails, AddBlock, OpenStorage, CreateDroplet, WriteDroplet, FinishEpoch, TruncateCount,
         WriteCount, TruncateBlock, WriteBlock, RemoveCount, Crash, Stop, vars, RemoveBlock
    <3> QED BY <3>1 DEF EnoughInv, ChainGrows, vars
  <2> QED BY <2>1 DEF EnoughInv, EnoughDroplets, Reported, ManyAlike
<1> QED BY <1>1, <1>2

LEMMA EnoughInit == Init => RoundInv /\ ResumeInv /\ EnoughInv
BY DEF Init, RoundInv, ResumeInv, EnoughInv, EnoughDroplets, Reported, Running, Encoding, Saving

\* Wherever runs died before, generate-all leaves in every epoch it reports the
\* droplets of one cutting that a restore needs, or a round less if it went on
\* where a run died: only its first round can cut the chain elsewhere.
THEOREM EnoughDropletsLeft == Spec => []EnoughDroplets
<1>1. TypeOK /\ StepOK /\ NumberInv /\ CutInv /\ RequestInv /\ EpochInv /\ [Next]_vars => StepFacts
  BY DEF StepFacts, EpochInv, InReach
<1>2. StepFacts /\ RoundInv /\ ResumeInv /\ EnoughInv => RoundInv' /\ ResumeInv' /\ EnoughInv'
  BY RoundInvariant, ResumeInvariant, EnoughInvariant DEF StepFacts
<1>3. EnoughInv => EnoughDroplets
  BY DEF EnoughInv
<1> QED BY <1>1, <1>2, <1>3, TypeInit, TypeInvariant, NumberInit, NumberInvariant, CutInit,
           CutInvariant, RequestInit, RequestInvariant, EpochInit, EpochInvariant, EnoughInit, PTL
           DEF Spec
------------------------------------------------------------------------------
(* Every command ends: what it has left to do gets less with every step.    *)

Shorter == OpToRel(<, Nat)
ShorterPair == LexPairOrdering(Shorter, Shorter, Nat, Nat)
RunOrder == LexPairOrdering(Shorter, ShorterPair, Nat, Nat \X Nat)

LEMMA RunOrderIsWellFounded == IsWellFoundedOn(RunOrder, Nat \X (Nat \X Nat))
<1>1. IsWellFoundedOn(Shorter, Nat)
  BY NatLessThanWellFounded DEF Shorter
<1>2. IsWellFoundedOn(ShorterPair, Nat \X Nat)
  BY <1>1, WFLexPairOrdering DEF ShorterPair
<1> QED BY <1>1, <1>2, WFLexPairOrdering DEF RunOrder

LEMMA RunOrderHas ==
  ASSUME NEW a \in Nat, NEW b \in Nat, NEW c \in Nat, NEW d \in Nat, NEW m \in Nat, NEW n \in Nat,
         \/ a < d
         \/ a = d /\ b < m
         \/ a = d /\ b = m /\ c < n
  PROVE  <<<<a, <<b, c>>>>, <<d, <<m, n>>>>>> \in RunOrder
<1>1. \A i, j \in Nat : i < j => <<i, j>> \in Shorter
  BY DEF Shorter, OpToRel
<1>2. b < m \/ (b = m /\ c < n) => <<<<b, c>>, <<m, n>>>> \in ShorterPair
  BY <1>1 DEF ShorterPair, LexPairOrdering
<1> QED BY <1>1, <1>2 DEF RunOrder, LexPairOrdering

\* What a command has left: rounds, blocks of the round, and steps with the
\* epoch that the block completes.
RoundsLeft == IF pc = "idle" THEN 0 ELSE rounds
BlocksLeft == IF pc = "begin" THEN tip + 2
              ELSE IF pc \in Running THEN tip + 1 - height
              ELSE 0
StepsLeft == IF pc = "scan" THEN 2 * ProducedDroplets + 7
             ELSE IF pc = "open" THEN 2 * ProducedDroplets + 6
             ELSE IF pc = "create" THEN 2 * (ProducedDroplets - produced) + 5
             ELSE IF pc = "write" THEN 2 * (ProducedDroplets - produced) + 4
             ELSE IF pc = "truncateCount" THEN 4
             ELSE IF pc = "writeCount" THEN 3
             ELSE IF pc = "truncateBlock" THEN 2
             ELSE IF pc \in {"writeBlock", "removeCount"} THEN 1
             ELSE 0
RunVariant == <<RoundsLeft, <<BlocksLeft, StepsLeft>>>>
Shortens == <<RunVariant', RunVariant>> \in RunOrder

\* A command that has not ended has a round to do.
InRound == pc # "idle" => rounds >= 1
RunInv == TypeOK /\ StepOK /\ CutInv /\ InRound

LEMMA RepetitionsPositive == RepetitionsNeeded \in Nat /\ RepetitionsNeeded >= 1
BY ProducedPositive, CeilDivPositive, NumbersAssumption DEF RepetitionsNeeded

LEMMA InRoundInvariant == TypeOK /\ InRound /\ [Next]_vars => InRound'
<1> SUFFICES ASSUME TypeOK, InRound, [Next]_vars PROVE InRound'
  OBVIOUS
<1> USE DEF InRound, control
<1>0. rounds \in Nat
  BY DEF TypeOK
<1>1. CASE \E cmd \in {"generate", "generateAll"} : Start(cmd)
  BY <1>1, RepetitionsPositive DEF Start
<1>2. CASE RemoveBlock
  BY <1>0, <1>2 DEF RemoveBlock, Stop
<1>3. CASE ResumeFails \/ Crash
  BY <1>3 DEF ResumeFails, Crash, Stop
<1>4. CASE /\ ~(\E cmd \in {"generate", "generateAll"} : Start(cmd))
           /\ ~(RemoveBlock \/ ResumeFails \/ Crash)
  <2>1. rounds' = rounds /\ (pc' # "idle" => pc # "idle")
    BY <1>4 DEF Next, Step, ChainGrows, BeginFromScratch, Resume, BeginAt, AddBlock, OpenStorage,
                CreateDroplet, WriteDroplet, FinishEpoch, TruncateCount, WriteCount, TruncateBlock,
                WriteBlock, RemoveCount, vars
  <2> QED BY <2>1
<1> QED BY <1>1, <1>2, <1>3, <1>4

LEMMA RunInvariantHolds == Spec => []RunInv
<1>1. Init => RunInv
  BY TypeInit, CutInit DEF RunInv, InRound, Init
<1>2. RunInv /\ [Next]_vars => RunInv'
  BY TypeInvariant, CutInvariant, InRoundInvariant DEF RunInv
<1> QED BY <1>1, <1>2, PTL DEF Spec

LEMMA RunInRange ==
  RunInv => RoundsLeft \in Nat /\ BlocksLeft \in Nat /\ StepsLeft \in Nat
<1> SUFFICES ASSUME RunInv PROVE RoundsLeft \in Nat /\ BlocksLeft \in Nat /\ StepsLeft \in Nat
  OBVIOUS
<1>1. /\ tip \in Nat /\ height \in Nat /\ rounds \in Nat
      /\ ProducedDroplets \in Nat /\ produced \in 0..ProducedDroplets
      /\ pc \in Running => height <= tip
  BY ProducedPositive, NumbersAssumption DEF RunInv, TypeOK, Heights, CutInv
<1>2. RoundsLeft \in Nat
  BY <1>1 DEF RoundsLeft
<1>3. BlocksLeft \in Nat
  BY <1>1 DEF BlocksLeft
<1>4. StepsLeft \in Nat
  BY <1>1 DEF StepsLeft
<1> QED BY <1>2, <1>3, <1>4

\* The three ways to get on: a round further, a block further, or a step
\* further with the epoch.
Onward == \/ RoundsLeft' < RoundsLeft
          \/ RoundsLeft' = RoundsLeft /\ BlocksLeft' < BlocksLeft
          \/ RoundsLeft' = RoundsLeft /\ BlocksLeft' = BlocksLeft /\ StepsLeft' < StepsLeft

LEMMA NextBlockOnward ==
  ASSUME RunInv, NEW e, NextBlock(e), pc \in {"scan", "writeBlock"}, UNCHANGED <<rounds, tip>>
  PROVE  Onward
<1>1. /\ tip \in Nat /\ height \in Nat /\ height <= tip
  BY NumbersAssumption DEF RunInv, TypeOK, Heights, CutInv, Running, Encoding
<1>2. BlocksLeft = tip + 1 - height /\ RoundsLeft = rounds
  BY DEF BlocksLeft, RoundsLeft, Running, Encoding
<1>3. RoundsLeft' = rounds
  BY DEF NextBlock, RoundsLeft
<1>4. CASE height < tip
  <2>1. BlocksLeft' = tip + 1 - (height + 1)
    BY <1>4 DEF NextBlock, BlocksLeft, Running
  <2> QED BY <1>1, <1>2, <1>3, <2>1 DEF Onward
<1>5. CASE ~(height < tip)
  <2>1. BlocksLeft' = 0
    BY <1>5 DEF NextBlock, BlocksLeft, Running, Encoding
  <2> QED BY <1>1, <1>2, <1>3, <2>1 DEF Onward
<1> QED BY <1>4, <1>5

LEMMA StepOnward ==
  ASSUME RunInv, Step \/ Crash, pc # "idle"
  PROVE  Onward
<1> USE DEF chainVars, files, progress, encoder, control
<1>0. /\ tip \in Nat /\ height \in Nat /\ rounds \in Nat /\ rounds >= 1
      /\ ProducedDroplets \in Nat /\ produced \in 0..ProducedDroplets
      /\ pc \in Running => height <= tip
      /\ pc = "write" => produced < ProducedDroplets
  BY ProducedPositive, NumbersAssumption DEF RunInv, TypeOK, StepOK, Heights, CutInv, InRound
<1>1. CASE ResumeFails \/ Crash
  <2>1. pc' = "idle"
    BY <1>1 DEF ResumeFails, Crash, Stop
  <2> QED BY <1>0, <2>1 DEF Onward, RoundsLeft
<1>2. CASE BeginFromScratch \/ Resume
  <2>1. /\ pc = "begin" /\ pc' = "scan" /\ UNCHANGED <<tip, rounds>>
        /\ height' \in Nat
    BY <1>0, <1>2, ParsedType, NumbersAssumption
       DEF BeginFromScratch, Resume, BeginAt, RunInv, Heights
  <2>2. BlocksLeft = tip + 2 /\ BlocksLeft' = tip + 1 - height' /\ RoundsLeft' = RoundsLeft
    BY <2>1 DEF BlocksLeft, RoundsLeft, Running
  <2>3. PICK h \in Nat : h = height'
    BY <2>1
  <2>4. \A i, j \in Nat : i + 1 - j < i + 2
    OBVIOUS
  <2>5. tip + 1 - h < tip + 2
    BY <1>0, <2>4
  <2> QED BY <2>2, <2>3, <2>5 DEF Onward
<1>3. CASE AddBlock /\ pc' = "open"
  <2>1. /\ pc = "scan" /\ pc' = "open" /\ UNCHANGED <<tip, rounds, height>>
    BY <1>3 DEF AddBlock, NextBlock
  <2> QED BY <1>0, <2>1 DEF Onward, RoundsLeft, BlocksLeft, StepsLeft, Running, Encoding
<1>4. CASE AddBlock /\ pc' # "open"
  <2>1. pc = "scan" /\ NextBlock(epoch) /\ UNCHANGED <<tip, rounds>>
    BY <1>4 DEF AddBlock
  <2> QED BY <2>1, NextBlockOnward
<1>5. CASE WriteBlock
  <2>1. pc = "writeBlock" /\ NextBlock(epoch + 1) /\ UNCHANGED <<tip, rounds>>
    BY <1>5 DEF WriteBlock
  <2> QED BY <2>1, NextBlockOnward
<1>6. CASE OpenStorage \/ CreateDroplet \/ WriteDroplet \/ TruncateCount \/ WriteCount \/ TruncateBlock
  <2>1. /\ UNCHANGED <<tip, rounds, height>>
        /\ pc \in Encoding /\ pc' \in Encoding
    BY <1>6 DEF OpenStorage, CreateDroplet, WriteDroplet, TruncateCount, WriteCount, TruncateBlock,
                Encoding
  <2>2. RoundsLeft' = RoundsLeft /\ BlocksLeft' = BlocksLeft
    BY <2>1 DEF RoundsLeft, BlocksLeft, Running, Encoding
  <2>3. StepsLeft' < StepsLeft
    <3>1. CASE OpenStorage
      <4>1. pc = "open" /\ pc' = "create" /\ produced' = 0
        BY <3>1 DEF OpenStorage
      <4> QED BY <1>0, <4>1 DEF StepsLeft
    <3>2. CASE CreateDroplet
      <4>1. pc = "create" /\ pc' = "write" /\ produced' = produced
        BY <3>2 DEF CreateDroplet
      <4> QED BY <1>0, <4>1 DEF StepsLeft
    <3>3. CASE WriteDroplet
      <4>1. pc = "write" /\ pc' = "create" /\ produced' = produced + 1
        BY <3>3 DEF WriteDroplet
      <4> QED BY <1>0, <4>1 DEF StepsLeft
    <3>4. CASE TruncateCount \/ WriteCount \/ TruncateBlock
      BY <3>4 DEF TruncateCount, WriteCount, TruncateBlock, StepsLeft
    <3> QED BY <1>6, <3>1, <3>2, <3>3, <3>4
  <2> QED BY <2>2, <2>3 DEF Onward
<1>7. CASE FinishEpoch
  <2>1. /\ UNCHANGED <<tip, rounds, height>>
        /\ pc = "create" /\ pc' \in {"removeCount", "truncateCount"} /\ produced = ProducedDroplets
    BY <1>7 DEF FinishEpoch
  <2>2. RoundsLeft' = RoundsLeft
    BY <2>1 DEF RoundsLeft
  <2>3. CASE pc' = "removeCount"
    <3>1. BlocksLeft' = 0 /\ BlocksLeft = tip + 1 - height
      BY <2>1, <2>3 DEF BlocksLeft, Running, Encoding
    <3>2. height <= tip
      BY <1>0, <2>1 DEF Running, Encoding
    <3> QED BY <1>0, <2>2, <3>1, <3>2 DEF Onward
  <2>4. CASE pc' = "truncateCount"
    <3>1. BlocksLeft' = BlocksLeft
      BY <2>1, <2>4 DEF BlocksLeft, Running, Encoding
    <3>2. StepsLeft' = 4 /\ StepsLeft = 2 * (ProducedDroplets - ProducedDroplets) + 5
      BY <2>1, <2>4 DEF StepsLeft
    <3> QED BY <1>0, <2>2, <3>1, <3>2 DEF Onward
  <2> QED BY <2>1, <2>3, <2>4
<1>8. CASE RemoveCount
  <2>1. /\ UNCHANGED <<tip, rounds>> /\ pc = "removeCount" /\ pc' = "removeBlock"
    BY <1>8 DEF RemoveCount
  <2> QED BY <1>0, <2>1 DEF Onward, RoundsLeft, BlocksLeft, StepsLeft, Running, Encoding
<1>9. CASE RemoveBlock
  <2>1. pc = "removeBlock" /\ (pc' = "idle" \/ (pc' = "begin" /\ rounds' = rounds - 1))
    BY <1>9 DEF RemoveBlock, Stop
  <2>2. RoundsLeft = rounds /\ RoundsLeft' \in {0, rounds - 1}
    BY <2>1 DEF RoundsLeft
  <2> QED BY <1>0, <2>2 DEF Onward
<1> QED BY <1>1, <1>2, <1>3, <1>4, <1>5, <1>6, <1>7, <1>8, <1>9 DEF Step

LEMMA StepShortens ==
  ASSUME RunInv, RunInv', Step \/ Crash, pc # "idle" PROVE Shortens
<1>1. RoundsLeft \in Nat /\ BlocksLeft \in Nat /\ StepsLeft \in Nat
  BY RunInRange
<1>2. RoundsLeft' \in Nat /\ BlocksLeft' \in Nat /\ StepsLeft' \in Nat
  <2>1. (RunInv => RoundsLeft \in Nat /\ BlocksLeft \in Nat /\ StepsLeft \in Nat)'
    BY RunInRange, PTL
  <2> QED BY <2>1
<1>3. Onward
  BY StepOnward
<1> QED BY <1>1, <1>2, <1>3, RunOrderHas DEF Onward, RunVariant, Shortens

\* Every step of generate and generate-all, also the one that ends them early,
\* lowers what they have left in a well-founded order: however long the chain,
\* whatever an earlier run left in the directory and in the progress files, a
\* command takes finitely many steps.
THEOREM RunsAreFinite ==
  /\ IsWellFoundedOn(RunOrder, Nat \X (Nat \X Nat))
  /\ Spec => [](RunVariant \in Nat \X (Nat \X Nat))
  /\ Spec => [][pc # "idle" => Shortens]_vars
<1>1. RunInv => RunVariant \in Nat \X (Nat \X Nat)
  BY RunInRange DEF RunVariant
<1>2. RunInv /\ RunInv' /\ [Next]_vars => [pc # "idle" => Shortens]_vars
  <2> SUFFICES ASSUME RunInv, RunInv', Next, pc # "idle" PROVE Shortens
    OBVIOUS
  <2>1. Step \/ Crash
    BY DEF Next, ChainGrows, Start
  <2> QED BY <2>1, StepShortens
<1>3. Spec => [](RunVariant \in Nat \X (Nat \X Nat))
  BY <1>1, RunInvariantHolds, PTL
<1>4. Spec => [][pc # "idle" => Shortens]_vars
  BY <1>2, RunInvariantHolds, PTL DEF Spec
<1> QED BY <1>3, <1>4, RunOrderIsWellFounded
==============================================================================

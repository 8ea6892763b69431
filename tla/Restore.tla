------------------------------- MODULE Restore -------------------------------
(***************************************************************************)
(* src/blockchain/decompressor.rs: a bucket node restores the chain from   *)
(* the droplets in its directories, epoch by epoch, with one decoder       *)
(* (FountainDecoder) per epoch, while more droplets are being collected.   *)
(* restore is called again and again; a run may fail or be interrupted.    *)
(*                                                                         *)
(* The node software's library that keeps the output chain is external.    *)
(* The blocks of the chain are numbered; superblock s of epoch e has       *)
(* BlocksPerSuperBlock of them, and so has a content out of Foreign, that   *)
(* begins at the block Place.  One of BadBodies has the headers of these   *)
(* blocks but a wrong body in at least one, which the library rejects      *)
(* (README.md:68); the others are good blocks, wherever they belong        *)
(* (README.md:70).                                                         *)
(*                                                                         *)
(* The decoder of the current epoch is FountainDecoder's, whose constants,  *)
(* variables and actions come with EXTENDS.                                *)
(***************************************************************************)
EXTENDS FountainDecoder, FileStorage

CONSTANTS BlocksPerSuperBlock,
          BadBodies,           \* the contents out of Foreign with a wrong body
          Place,               \* the first block of every content out of Foreign
          MaxEpochs,           \* bound on the epochs there are droplets of
          MaxInterrupts        \* bound on the interruptions

ASSUME BlocksAssumption == BlocksPerSuperBlock \in Nat \ {0}
ASSUME RestoreBounds == MaxEpochs \in Nat /\ MaxInterrupts \in Nat
ASSUME PlaceAssumption ==
  /\ BadBodies \subseteq Foreign
  /\ Place \in [Foreign -> Nat]
  /\ \A t \in Foreign :
       Place[t] + BlocksPerSuperBlock <= MaxEpochs * (SuperBlocksPerEpoch * BlocksPerSuperBlock)

VARIABLES disk,       \* the droplet directories
          output,     \* numbers of the blocks the output chain's library has
          stage,      \* where restore_blockchain is: "idle" between commands
          epochs,     \* epochs_count
          epoch,      \* the epoch being restored
          num,        \* superblock_num
          block,      \* i, the block of the superblock
          result,     \* how the last command ended, or "running"
          stray,      \* history: when a superblock was decoded whose blocks are not
                      \* those asked for: "never", "before" this command, or "now"
          interrupts

decoder == vars
restoreVars == <<disk, output, stage, epochs, epoch, num, block, result, stray, interrupts,
                 decoder>>
position == <<epochs, epoch, num, block>>
------------------------------------------------------------------------------
BlocksPerEpoch == SuperBlocksPerEpoch * BlocksPerSuperBlock
BlocksUpTo(e) == 0..(e * BlocksPerEpoch - 1)

\* FountainDecoder::new over the files of one directory.
NewDecoder(files) ==
  /\ count' = Cardinality(DOMAIN files)
  /\ droplets' = files
  /\ known' = {}
  /\ recovered' = [n \in {} |-> {}]
  /\ pc' = "ready" /\ outcome' = "pending" /\ superblock' = {}
  /\ requested' = 0 /\ round' = 0 /\ index' = 0 /\ skip' = {} /\ missed' = FALSE

RestoreInit ==
  /\ disk = EmptyStore
  /\ output = {}
  /\ stage = "idle"
  /\ epochs = 0 /\ epoch = 0 /\ num = 0 /\ block = 0
  /\ result = "none" /\ stray = "never"
  /\ interrupts = 0
  /\ count = 0 /\ droplets = NoFiles
  /\ known = {}
  /\ recovered = [n \in {} |-> {}]
  /\ pc = "ready" /\ outcome = "pending" /\ superblock = {}
  /\ requested = 0 /\ round = 0 /\ index = 0 /\ skip = {} /\ missed = FALSE

\* generate, or the download it simulates (README.md:54), adds a droplet.  It
\* may be a murky one, or a torn file if generate died.
Collect(e, d) ==
  /\ e \in 0..EpochCount(disk) /\ e < MaxEpochs
  /\ LET opened == OpenDir(disk, e) IN
       /\ \A n \in DOMAIN opened[e] : opened[e][n] # d
       /\ FilesCount(opened, e) < MaxDroplets
       /\ disk' = PutFile(opened, e, FilesCount(opened, e), d)
  /\ UNCHANGED <<output, stage, position, result, stray, interrupts, decoder>>
------------------------------------------------------------------------------
\* The command ends and drops its decoder.
Stop(how) == /\ stage' = "idle"
             /\ result' = how
             /\ epochs' = 0 /\ epoch' = 0 /\ num' = 0 /\ block' = 0
             /\ stray' = IF stray = "now" THEN "before" ELSE stray
             /\ NewDecoder(NoFiles)

NoEpochs == /\ stage = "idle" /\ EpochCount(disk) = 0
            /\ Stop("noEpochs")
            /\ UNCHANGED <<disk, output, interrupts>>

Start == /\ stage = "idle" /\ EpochCount(disk) > 0
         /\ stage' = "open"
         /\ result' = "running"
         /\ epochs' = EpochCount(disk)
         /\ UNCHANGED <<disk, output, epoch, num, block, stray, interrupts, decoder>>

OpenEpoch == /\ stage = "open" /\ epoch < epochs
             /\ stage' = "ask"
             /\ disk' = OpenDir(disk, epoch)
             /\ NewDecoder(disk'[epoch])
             /\ UNCHANGED <<output, position, result, stray, interrupts>>

Finish == /\ stage = "open" /\ epoch = epochs
          /\ Stop("restored")
          /\ UNCHANGED <<disk, output, interrupts>>

\* Mutant of SuperBlocksWanted: one superblock too many.
SuperBlocksOneMore == SuperBlocksPerEpoch + 1
SuperBlocksWanted == SuperBlocksPerEpoch

Ask == /\ stage = "ask" /\ num < SuperBlocksWanted
       /\ Call(num)
       /\ stage' = "wait"
       /\ UNCHANGED <<disk, output, position, result, stray, interrupts>>

EndEpoch == /\ stage = "ask" /\ num = SuperBlocksWanted
            /\ stage' = "open"
            /\ epoch' = epoch + 1
            /\ num' = 0
            /\ UNCHANGED <<disk, output, epochs, block, result, stray, interrupts, decoder>>

Decode == /\ stage = "wait"
          /\ Running
          /\ UNCHANGED <<disk, output, stage, position, result, stray, interrupts>>

Answered(reply) == stage = "wait" /\ pc = "ready" /\ outcome = reply

\* Where the blocks of a content belong, and where those belong that are asked for.
PlaceOf(t) == IF t \in Foreign THEN Place[t] ELSE epoch * BlocksPerEpoch + t * BlocksPerSuperBlock
Wanted == epoch * BlocksPerEpoch + num * BlocksPerSuperBlock
InPlace == \E t \in Epoch \cup Foreign : superblock = {t} /\ PlaceOf(t) = Wanted

GotSuperBlock == /\ Answered("found")
                 /\ stage' = "process"
                 /\ block' = 0
                 /\ stray' = IF InPlace THEN stray ELSE "now"
                 /\ UNCHANGED <<disk, output, epochs, epoch, num, result, interrupts, decoder>>

\* Mutant of NeedMore: leaves the loop over the superblocks but not the one over
\* the epochs.
NeedMoreLeavesEpoch == /\ Answered("notDecoded")
                       /\ stage' = "open"
                       /\ epoch' = epoch + 1
                       /\ num' = 0
                       /\ UNCHANGED <<disk, output, epochs, block, result, stray, interrupts,
                                      decoder>>
NeedMore == /\ Answered("notDecoded")
            /\ Stop("needMore")
            /\ UNCHANGED <<disk, output, interrupts>>

\* Mutant of Failed: the error is logged and the next superblock is asked for.
FailedGoesOn == /\ Answered("failed")
                /\ stage' = "ask"
                /\ num' = num + 1
                /\ UNCHANGED <<disk, output, epochs, epoch, block, result, stray, interrupts,
                               decoder>>
Failed == /\ Answered("failed")
          /\ Stop("failed")
          /\ UNCHANGED <<disk, output, interrupts>>
------------------------------------------------------------------------------
(* The blocks of a decoded superblock go to the library one by one. *)

\* into_blocks cannot fail on what block_hashes has read.
BlocksIn(content) == IF content = {} THEN 0 ELSE BlocksPerSuperBlock
Processing(t) == stage = "process" /\ superblock = {t} /\ block < BlocksPerSuperBlock
Number(t) == PlaceOf(t) + block

\* Which body is wrong is left open.  The library cannot be relied on to accept a
\* block whose predecessor it does not have.
GoodBody(t) == t \notin BadBodies \/ block + 1 < BlocksPerSuperBlock
MayReject(t) == t \in BadBodies \/ (Number(t) > 0 /\ Number(t) - 1 \notin output)

NewBlock ==
  \E t \in Epoch \cup Foreign :
    /\ Processing(t) /\ GoodBody(t) /\ Number(t) \notin output
    /\ output' = output \cup {Number(t)}
    /\ block' = block + 1
    /\ UNCHANGED <<disk, stage, epochs, epoch, num, result, stray, interrupts, decoder>>

Known == \E t \in Epoch \cup Foreign : Processing(t) /\ GoodBody(t) /\ Number(t) \in output

\* Mutant of Duplicate: a block that is known already fails the command.
DuplicateFails == /\ Known
                  /\ Stop("rejected")
                  /\ UNCHANGED <<disk, output, interrupts>>
Duplicate == /\ Known
             /\ block' = block + 1
             /\ UNCHANGED <<disk, output, stage, epochs, epoch, num, result, stray, interrupts,
                            decoder>>

Refused == \E t \in Epoch \cup Foreign : Processing(t) /\ MayReject(t)

\* Mutant of Rejected: the error is logged and the next block is processed.
RejectedGoesOn == /\ Refused
                  /\ block' = block + 1
                  /\ UNCHANGED <<disk, output, stage, epochs, epoch, num, result, stray,
                                 interrupts, decoder>>
Rejected == /\ Refused
            /\ Stop("rejected")
            /\ UNCHANGED <<disk, output, interrupts>>

NextSuperBlock == /\ stage = "process" /\ block = BlocksIn(superblock)
                  /\ stage' = "ask"
                  /\ num' = num + 1
                  /\ block' = 0
                  /\ UNCHANGED <<disk, output, epochs, epoch, result, stray, interrupts, decoder>>
------------------------------------------------------------------------------
\* When the process ends, the library may not have flushed the blocks it was given
\* last: the highest ones, as long as they were given in order.
Flushed == IF stray = "never"
             THEN {{n \in output : n < height} : height \in 0..Cardinality(output)}
             ELSE SUBSET output

\* The command is interrupted, or cannot open a directory.
Interrupt == /\ stage # "idle" /\ interrupts < MaxInterrupts
             /\ interrupts' = interrupts + 1
             /\ output' \in Flushed
             /\ Stop("interrupted")
             /\ UNCHANGED disk

\* The process ends within the decoder.
Died == /\ stage = "wait" /\ pc = "dead"
        /\ output' \in Flushed
        /\ Stop("died")
        /\ UNCHANGED <<disk, interrupts>>

Command == NoEpochs \/ Start
Step == \/ OpenEpoch \/ Finish \/ Ask \/ EndEpoch \/ Decode
        \/ GotSuperBlock \/ NeedMore \/ Failed \/ Died
        \/ NewBlock \/ Duplicate \/ Rejected \/ NextSuperBlock

RestoreNext ==
  \/ \E e \in 0..(MaxEpochs - 1), d \in Collected : Collect(e, d)
  \/ Command \/ Step
  \/ Interrupt

RestoreSpec == RestoreInit /\ [][RestoreNext]_restoreVars

\* A droplet that misleads: its bytes are good blocks, but of another superblock.
Wrong(d) == ~Honest(d) /\ ~Murky(d)
TooLarge(d) == d.payload \cap Huge # {}
Harmless(d) == d.readable /\ ~Wrong(d) /\ ~TooLarge(d)

\* A command keeps running, the user calls restore again, and sooner or later
\* every droplet is collected.  Nobody has to collect faulty ones.
RestoreFairSpec ==
  /\ RestoreSpec
  /\ WF_restoreVars(Step)
  /\ WF_restoreVars(Command)
  /\ \A e \in 0..(MaxEpochs - 1), d \in {c \in Collected : Harmless(c)} :
       WF_restoreVars(Collect(e, d))
------------------------------------------------------------------------------
RestoreTypeOK ==
  /\ DOMAIN disk = 0..(EpochCount(disk) - 1) /\ EpochCount(disk) \in 0..MaxEpochs
  /\ \A e \in DOMAIN disk : /\ FilesCount(disk, e) \in 0..MaxDroplets
                            /\ disk[e] \in [0..(FilesCount(disk, e) - 1) -> Collected]
  /\ output \subseteq BlocksUpTo(MaxEpochs)
  /\ stage \in {"idle", "open", "ask", "wait", "process"}
  /\ epochs \in 0..EpochCount(disk) /\ epoch \in 0..epochs
  /\ num \in 0..SuperBlocksPerEpoch
  /\ block \in 0..BlocksPerSuperBlock
  /\ result \in {"none", "running", "noEpochs", "restored", "needMore", "failed", "rejected",
                 "interrupted", "died"}
  /\ stray \in {"never", "before", "now"}
  /\ interrupts \in 0..MaxInterrupts
  /\ TypeOK

\* The output chain has no gap: whatever runs failed, were rejected, interrupted
\* or died, the library has been given the blocks of the chain in order, which is
\* all it can be relied on to accept.  Only a superblock that is decoded under the
\* number of another one puts blocks elsewhere (README.md:70).
OutputPrefix == stray = "never" => output = 0..(Cardinality(output) - 1)

\* "All blocks from droplets were successfully restored" (decompressor.rs:162):
\* when a command says so, every block of every epoch it found is in the output,
\* unless this command, and not an earlier one, took one superblock for another.
RestoredComplete ==
  [][stage # "idle" /\ result' = "restored" /\ stray # "now" =>
       BlocksUpTo(epochs) \subseteq output]_restoreVars

\* "Need more droplets!" is only said when the droplets the epoch was opened
\* with do not determine the superblock, whatever their order and whatever wrong
\* and murky droplets are among them: collecting more is then really what helps.
\* The exception is that a wrong one has passed the header-chain check and put a
\* wrong superblock among the recovered ones, or that one was not there to read.
NeedMoreJustified ==
  [][stage # "idle" /\ result' = "needMore" /\ ~missed /\ (\A n \in known : recovered[n] = {n}) =>
       requested \notin Abstract!Decodable]_restoreVars

\* When the droplets of the epoch can be read, none misleads or takes the process
\* down, and they determine all of its superblocks, nothing but an interruption
\* stops the command, also when earlier runs have left some of its blocks in the
\* output; unless the blocks of an earlier epoch were not those asked for.
Sufficient == /\ ~TmpStorageMayFail
              /\ \A i \in DOMAIN droplets : Harmless(droplets[i])
              /\ Abstract!Decodable = Epoch
SufficientSuffices ==
  [][stage # "idle" /\ Sufficient /\ stray # "now" =>
       result' \in {"running", "restored", "interrupted"}]_restoreVars

\* Whatever the droplets, the failures and the interruptions, restore hands out
\* the blocks of the chain one after the other up to the end of the epochs it has
\* counted, reports success only there, and continues where the chain ends.
Import == INSTANCE ChainImport WITH
  Blocks <- BlocksUpTo(MaxEpochs),
  PerEpoch <- BlocksPerEpoch,
  available <- EpochCount(disk),
  chain <- output,
  goal <- epochs * BlocksPerEpoch,
  status <- result

ImplementsImport == Import!Spec

\* As long as droplets keep coming and restore is called again, it succeeds, and
\* succeeds again on the chain it has restored; unless a droplet was collected
\* that cannot be read, misleads or takes the process down.
Faulty == \E e \in DOMAIN disk : \E n \in DOMAIN disk[e] : ~Harmless(disk[e][n])
EventuallyRestored == []<>(result = "restored" \/ Faulty)

\* What README.md:60 promises of a failed restore without a condition: "just
\* call generate".
GenerateHelps == []<>(result = "restored")
==============================================================================

# A TLA+ model of fountainhead

`fountainhead` stores a Bitcoin blockchain as *droplets*. A droplet node cuts the chain into
epochs of k superblocks and encodes each epoch into droplets, XORs of random sets of its
superblocks (a Luby transform code). A bucket node collects droplets, decodes them with an
error-resilient peeling decoder that checks every decoded superblock against the header-chain,
and feeds the blocks to the node software to restore the chain.

This directory holds the specifications, their TLC configurations and their TLAPS proofs.
Paths below are relative to the repository (`src/…`). A line like `compressor.rs:150` is in
`src/blockchain/compressor.rs`.

Check one configuration with `tlc -workers 2 -config X.cfg M`, one proof module with
`tlapm M.tla`. `PROJECT.json` lists the runs, maps every definition to the lines it models and
names, for every property, a mutant: a plausible bug that makes the property fail.

## Inventory

| Component | State it keeps | Operations | Hard behaviours |
|---|---|---|---|
| Commands (`main.rs`, `cli.rs`) | none; all state is on disk | `generate`, `generate-all` (rounds of generate), `headerchain`, `restore`, `purge-droplets` | interrupted at any point, run again; rounded divisions |
| Compressor (`blockchain/compressor.rs`) | loop position, current superblocks; on disk two progress files and the droplet directories | `generate_droplets`: resume or start, cut the chain, encode an epoch, save progress, clean up | crash between any two writes; chain growth between commands; off-by-one at seams and on resume |
| Fountain encoder (`encoder/fountain_encoder.rs`) | superblocks of the epoch, droplet counter | `init_epoch`, `generate_droplet`, `truncate_storage` | numbering after a restart; neighbors in random order; a search that ends by luck only |
| Degree distribution (`encoder/distribution.rs`) | cumulative distribution | `sample`, `min_encoded_symbols` | search result 0 or k + 1, the latter by rounding |
| Superblock (`super_block.rs`) | bytes, sizes and count of its blocks | `add`, `block_hashes`, `into_blocks`, XOR with padding, `crop_padding` | padding must be lost exactly when the XOR is undone; memory set aside for numbers out of a droplet |
| Droplet storage (`storage/file_storage.rs`) | one directory per epoch, one file per droplet, a counter | `new`, `insert`, `get`, `truncate`, `epoch_count` | file created before it is written; numbering by counting |
| Superblock storage (`storage/tmp_file_storage.rs`) | keys, temporary files | `insert`, `get` | a key whose file vanished or cannot be opened: answered as if there was no superblock |
| Fountain decoder (`decoder/fountain_decoder.rs`) | known neighbors, recovered superblocks | `get_decoded_superblock` | order of droplets, rejected droplets that cut passes short, state kept over calls, read errors, recovered superblocks that cannot be read back |
| Header-chain (`blockchain/headerchain.rs`, `blockchain.rs`, `blockchain/leveldb.rs`) | headers in the kernel library's database | `generate`, `validate_blocks` | reorganisation of the source between commands; headers lost in a crash; stale database |
| Decompressor (`blockchain/decompressor.rs`) | the output chain, in the kernel library | `restore_blockchain` | failure in the middle and run again, missing droplets, torn files |
| Droplet (`droplet.rs`) | number, neighbors, XOR | byte encoding | |

How they interact: a command is one process with one thread. `generate` calls the compressor,
which reads the chain through the kernel library (an external C++ library), hands an epoch's
superblocks to the encoder and the encoder's droplets to the droplet storage. `restore` opens
the same directories, makes one decoder per epoch, asks it for superblocks 0 to k - 1 in order
and gives their blocks to the kernel library. The decoder calls the header-chain for every
superblock it decodes. Commands share nothing but files, so concurrency here means: what a
command that died left behind, and what the chain did between two commands.

What makes each correct:

* *decoder*: nothing wrong is ever returned; what the droplets determine is found in whatever
  order they lie, unless a recovered superblock cannot be read back; every call returns, unless
  the memory does not suffice for what a droplet asks; what was recovered is kept;
* *compressor*: droplets of an epoch agree on its superblocks over all rounds; epochs tile the
  chain; enough droplets per epoch; a command that died loses nothing and can be resumed;
* *storage*: files are numbered without gaps and never overwritten;
* *encoder and distribution*: degrees in 1..k but for the two edges of the search, neighbors
  distinct and in range;
* *superblock*: XOR with padding is undone exactly, the blocks cropped out are the ones put in;
* *header-chain*: "done" means complete, calling the command again catches up with the source, and
  what is accepted is a piece of one branch;
* *purge*: no epoch is left, and what is left beside the epochs does not mislead a later run;
* *restore*: the output chain is always a prefix of the source chain, as long as no droplet passes
  off a superblock for another; running it again after more droplets were generated continues.

## Modules

| Module | What it is |
|---|---|
| `Peeling` | what a peeling decoder promises, without any order of droplets |
| `FountainDecoder` | the decoder, one action per turn of its loops |
| `FountainDecoderProofs` | its theorems |
| `FileStorage` | operators on the droplet directories |
| `Compressor` | `generate_droplets`, `generate` and `generate-all`, crashes, growth of the chain |
| `CompressorInvariants` | why the epochs agree and tile the chain |
| `CompressorProofs` | its theorems about uninterrupted runs, numbering and bounds |
| `RoundsProofs` | its theorems about runs that died: torn files, the record, enough droplets |
| `DropletNode` | the commands of a droplet node: extends `Compressor` by `purge-droplets` |
| `DropletNodeProofs` | its theorems |
| `SuperBlock` | operators on superblocks: filling, padded XOR, cropping, cutting up |
| `SuperBlockProofs` | the algebra of padded XOR; cutting up undoes filling |
| `DegreeDistribution` | the degree distribution and its sampling |
| `FountainEncoder` | `generate_droplet`, one action per turn of its loops |
| `Coding` | composes `FountainEncoder` with the byte handling of the decoder and its storage |
| `CodingProofs` | its theorems, and those of the encoder and the distribution |
| `HeaderChain` | `generate` over a source that reorganises, with crashes; `validate_blocks` |
| `HeaderChainProofs` | its theorems |
| `ChainImport` | what a restore promises of the output chain, without droplets or decoder |
| `Restore` | `restore`: composes `FileStorage`, `FountainDecoder` and the output chain; implements `ChainImport` |
| `RestoreProofs` | its theorems |
| `MCFountainDecoder`, `MCCompressor`, `MCDropletNode`, `MCRestore`, `MCCoding`, `MCHeaderChain` | instances for TLC |

### FountainDecoder

`droplets` are the files of one epoch, `known` is `known_neighbors`, `recovered` is
`recovered_super_blocks`; `round`, `index` and `skip` are the outer loop, the inner loop and
`droplets_to_skip`. `Call` enters `get_decoded_superblock`; `LookupHit` and `LookupMiss` are
lines 54-63; `SkipDroplet`, `ReadFails`, `NotPeelable`, `Reject` and `Recover` are the ways one
turn of the inner loop ends, `EndPass` and `GiveUp` the ends of the two loops. `Reject` gives up
the pass, like the `break` at lines 130 and 139. The client may ask for any number in any order
and again after an error, which includes what `restore` does.

Content is a vector over GF(2): the set of terms that occur an odd number of times. The
superblock number s is `{s}`, so XOR is the symmetric difference and an honest droplet holds
exactly its neighbors. `Noise` are bytes of no block. `Foreign` are good blocks that are no
superblock of this epoch. `Valid` is the verdict of `block_hashes` and `validate_blocks`: a
single superblock, a run of foreign blocks, or nothing at all (no blocks pass both loops of the
check); a mixture never parses to blocks of the header-chain, which for real hashes holds but for
negligible chance. The exception are the mixtures in `Hollow`: their block counts cancel to 0, so they
are cropped to nothing (`Cropped`) and pass as a superblock without blocks (see `hollow` in `Coding`).

Three failures of what lies beneath are in the model. An unreadable droplet file, missing or torn, is
`readable = FALSE` and ends the call with an error. With `TmpStorageMayFail`, a superblock's temporary
file that cannot be written or decoded ends it too (`TmpStorageFails`), while one that cannot be *opened*
is taken for one that is not there (`tmp_file_storage.rs:69-72`): `Opened` chooses which of the known
neighbors are XORed out, and `LookupMiss` may be taken by a superblock that is recovered. As its number
is known it is never peeled again, and the call answers that it is not decoded. `missed` remembers that
this happened in the call. And `block_hashes` sets memory aside for numbers that come out of
the droplet (`super_block.rs:81`, `:86`): with a content out of `Huge` the process may end there
(`Dies`), or the system grants the memory and the content is rejected (`Reject`).

Neighbors of a droplet are a nonempty set of numbers below k. The encoder makes no others, and a droplet
that lists a number twice, or one beyond the epoch, is not in the model.

`Peeling` is the specification it implements. Its `Decodable` set is order-free: the symbols that
are in every set closed under peeling. Under `INSTANCE Peeling WITH` the codes are those of the
honest droplets. It may say "notDecoded" of a determined symbol only when one was lost (`Lost`: a file
was not opened in this call, or an earlier mixture left a superblock without blocks).

### Compressor

The variables are the chain and its tip, the three things on disk (`store` and the two progress
files), and the state of the process. `pc` says which write comes next; there is one action per
write, so that a crash may fall between any two: creating a droplet's file and writing it,
truncating a progress file and writing it (`fs::write` does both), removing the one and the
other. `AddBlock` is one turn of the loop over the blocks that does not end the epoch.

A chain is given by the byte offsets of its blocks. What an epoch is cut into is its *layout*,
the heights of the first blocks of its superblocks; the epoch is over when its last superblock
has one block (`compressor.rs:197`), so the last start is also the last block. A droplet is
represented by the layout it was encoded from: droplets can only be decoded together if they
agree on it. Which superblocks a droplet XORs does not matter for these properties.

`Missing` and `Empty` stand for a progress file that does not exist, read as "0", and one that is
empty, which does not parse. `Crash` may happen before any step named in `CrashPoints` and also
stands for a failing file system call, which ends the process as well. `ChainGrows` is only
possible between commands: the kernel library's chain state is loaded when the command starts.

### DropletNode

`generate` and `generate-all` are the actions of `Compressor`, all of them under `OtherCommand`;
`StartPurge`, `OpenPurged`, `RemovePurged` and `PurgeDone` are `purge-droplets` (`main.rs:115-127`).
`purgeCount` is the number of epochs it has counted before it visits any; `OpenPurged` is
`FileStorage::new`, which creates the directory if it is missing, and `RemovePurged` is `truncate`.
The progress files stay, which is what `ResumesCovered` is about: a run that died, a purge, and
then runs that may find the recorded progress of droplets that are gone. A resume needs more
than one epoch directory, which a purge does not leave, and a run over a purged store has replaced
the record by its own before it opens a second directory; the property checks that this suffices
along every history of crashes.

### SuperBlock, DegreeDistribution, FountainEncoder and Coding

`Compressor` and `FountainDecoder` treat superblocks as symbols. `Coding` is about their bytes.
`SuperBlock` has the operations of `super_block.rs` on records of the same fields: `Add`, `BitXor`
(padding both vectors to the longer one), `CropPadding`, `IntoBlocks`; a block is a sequence of
bytes whose first byte is its header. `BitwiseXor` is a constant operator with the assumption
`XorAssumption`, so that nothing depends on the width; TLC is given a table of XOR on 0..15 and
evaluates the assumption for all of it. `BitsAssumption` says the same of its bits (the prover knows
nothing of powers of two) and is only about what `HonestDroplets` says. `CutAssumption` of `Coding`
says of an epoch's superblocks what the compressor guarantees: they were filled by `add`, so the
recorded lengths are those of the vectors and no superblock is longer than allowed, from
consecutive blocks of the header-chain. The theorem `CutSuperBlocks` derives all of it but the last
from the definition of `Add` and its guard.

`DegreeDistribution` is `distribution.rs` with probabilities in multiples of 1 / `Unit`: the ideal
and the robust soliton densities, their running sum, the binary search. `FountainEncoder` draws a
sample, then neighbors until there are as many different ones as the degree says (`Draw`), then
XORs them in any order (`XorNeighbor`), as they come out of a hash set. The sample 0 is a number the
generator may return: it gives degree 0 and the panic of the assertion (`Panic`). The last entry of
the cumulative distribution is a sum of floating-point numbers and may end below 1 (the test at
`distribution.rs:155` only asks for 1e-6): `Shortfall` is the number of samples above it. They give degree
K + 1, for which `Draw` never finds enough neighbors.

`Coding` adds the decoder's way with bytes: `TakeDroplet` loads a droplet that has one unknown
neighbor, `XorOut` XORs out one known neighbor, `Accept` and `Reject` are the two verdicts of
`block_hashes` and `validate_blocks` over the cropped bytes. In which order droplets are looked at is
`FountainDecoder`'s subject and open here. `Vanish` removes a temporary file under a known key.

`hollow` is not in the program: it remembers which superblocks were stored without a block.
`NoWrongBlock` speaks of the time before there is one, and it has to: once a file has vanished, the
number under it stays mixed into what is decoded, and a mixture of two superblocks with as many
blocks has the block count 0. It is cropped to no blocks at all (`super_block.rs:79`), so there is
nothing to reject, and it is stored. XORed out of another droplet later, it leaves bytes that start
with a header of the chain but are cut at the wrong length. Until then every mixture is rejected,
by `HashAssumption`: what the bytes at the fronts of several superblocks XOR to is no header. For
hashes that holds but for negligible chance. It says nothing of lengths, counts or later bytes.

### HeaderChain

Headers form a tree. `active` is the tip of the source's active chain, `known` the headers that the
bucket node's library has, `best` its best entry. `Generate` starts at the height of `best`
(`headerchain.rs:107`), `ProcessHeader` and `HeaderFails` are the two verdicts of the library on the
next header, `Done` the end of the loop. `SourceAdvances` switches the source to a higher tip, only
between commands, and takes back at most `MaxReorg` headers; `Crash` may lose headers that
the library has not written (`written`), but never a parent without its children. That the library
takes a header exactly if it has the parent, and that `best` is a highest one, is all that is
assumed of it. `ValidateBlocks` is the loop of `validate_blocks`.

### Restore

`restore_blockchain`, composed with the decoder: the module extends `FountainDecoder` and
`FileStorage`, and a step of the decoder is a step of `Restore` (`Decode`). `stage` is the
place in the loops: `Start` reads the number of epochs,
`OpenEpoch` makes a new decoder over the files the epoch has at that moment, `Ask` calls it,
`Decode` is any step of it, `GotSuperBlock`, `NeedMore` and `Failed` are the three answers.
`NewBlock`, `Duplicate` and `Rejected` are the verdicts of the kernel library's `process_block`,
which is external: `output` is the set of blocks it has. Contents out of `Foreign` begin at the block
`Place` of the chain. Those in `BadBodies` have a wrong body in at least one block, which the library
rejects; the others are good blocks of another epoch, or of this one cut otherwise, which README.md:70
speaks of. The library may accept or reject a good block whose predecessor it does not have
(`MayReject`), so that `OutputPrefix` is a promise of the program and not of the library.

`stray` remembers that a superblock was decoded whose blocks are not those asked for, by the command
that is running or an earlier one. It can only come of a droplet that passes off good blocks
under a wrong number, or of a superblock that lost its blocks; `GenuineNeverStray` says so. Only
then may the output have a gap, and only this command may report a success that is none.

`Collect` is what `generate`, or the download it simulates, does to the directories: a murky droplet
or a torn file may come too, and droplets arrive while a restore runs. It adds a complete file in
one step; a file that is still being written acts on a restore like a torn one. `Interrupt` ends the
command anywhere and may lose the last blocks the library has not flushed (`Flushed`), and so does
`Died`, the end of the process within the decoder.

The temporal properties speak of the user as well. `NeedMoreJustified` uses the abstract decoder's
`Decodable`. `EventuallyRestored` is what README.md:60 promises, as long as no droplet was collected
that is torn, wrong or too large (`Faulty`); without that condition it is `GenerateHelps`, which fails.
`SufficientSuffices` is its part without fairness: over droplets that can be read, are not
wrong nor too large and determine the epoch (`Sufficient`) a command never ends but by success or an
interruption. `NeedMoreJustified` is conditional: a droplet that passes off blocks under a wrong number puts
a wrong superblock among the recovered ones, and then honest droplets that determine the epoch may
yield nothing. What it says is that wrong droplets *at hand*, met or not, do no harm to the answer as
long as what has been recovered is right and could be read.

`ChainImport` is what remains of this when droplets, decoder, directories and the places in the loops
are hidden: a command sets itself the goal to reach the end of the epochs it finds, hands out the next
block of the chain and no other, never one beyond its goal, and reports success only at the goal; only
the end of the process takes blocks away, from the end. A command that goes astray (`GoAstray`) may hand
out any block, and the next one is on the right way again. `ImplementsImport` is the refinement, with
`epochs * BlocksPerEpoch` as the goal and `result` as the status; duplicates, decoding and the turns of
the loops are stutters.

## Runs

| Run | Instance | Shows |
|---|---|---|
| `decoder` | k = 3; up to 3 droplets out of all 7 honest ones, 7 murky ones (which are huge as well) and a torn file; temporary files may fail or not open, the mixture of superblocks 0 and 1 is hollow; any number of calls | `TypeOK`, `Sound`, `Exhausted`, `NeverReplaced`, `EveryCallReturns`, `ImplementsPeeling` |
| `compressor` | every chain of 6 blocks of size 1 or 2, superblocks of size 3, k = 2; 2 commands, any growth between them, 2 rounds of generate-all; no crash | `TypeOK`, `EpochsAgree`, `EpochsTile`, `PartitionInv`, `EnoughDroplets` |
| `compressor_crash` | 2 chains of 6 blocks, k = 2; 3 commands, up to 2 of which die anywhere | `Contiguous`, `NoEpochMissing`, `RecordedBlocksStored`, `TornPerCrash`, `DropletsKept`, `EveryCommandEnds` |
| `droplet_node` | 2 chains of 8 blocks, k = 2, 3 requested epochs, 3 rounds; 3 commands, up to 2 of which die anywhere, and a purge between any two | `EnoughDroplets`, `RequestedOnly`, `PurgeRemovesAll`, `ResumesCovered` |
| `restore` | 2 epochs of 2 superblocks of 2 blocks, up to 2 droplets each out of two honest ones, two wrong ones (a bad body, good blocks from elsewhere), a huge one and a torn file, in any order, at any time; one interruption | `RestoreTypeOK`, `OutputPrefix`, `RestoredComplete`, `NeedMoreJustified`, `SufficientSuffices`, `ImplementsImport`, `EventuallyRestored` |
| `coding` | k = 3, superblocks of one or two blocks cut in five ways, up to 3 droplets, one temporary file vanishes, every sample and one above the last entry | `TypeOK`, `HonestDroplets`, `Undone`, `NothingRejected`, `NoWrongBlock`, `SampleFollowsPmf`, `GenerateReturns` |
| `headerchain` | 15 headers on four branches, reorganisations by up to 2 headers, 2 crashes | `TypeOK`, `ValidatesPieces`, `DoneIsComplete`, `CatchesUpUnlessDeep` |
| `headerchain_reorg` | the same without a crash | violation, see below |
| `headerchain_longest` | the same without a crash, reorganisations by one header | violation, see below |
| `restore_torn` | 1 epoch, two honest droplets and a torn file | violation, see below |
| `resume_enough`, `resume_parse` | as `compressor_crash`, 2 commands, one crash at one kind of step | violations, see below |

Why these bounds are enough to be interesting. Three droplets over three superblocks are the
least in which the passes matter: in the worst order each pass decodes one superblock, with a
murky droplet in front of the others. Calls are unbounded, the state space is finite. Six blocks
make two or three epochs of two superblocks, so that there is a seam, a resume (which needs two
directories) and an incomplete epoch at the tip. Three commands and two crashes allow a crash in a
resumed run and a run after it. `MaxCommands` and `MaxCrashes` bound the behaviours,
`MaxHeight` the chain, `MaxDroplets` the files, `MaxEpochs` and `MaxInterrupts` those of `Restore`.
In `restore`, superblock 1 can only be decoded after superblock 0, or wrongly from the wrong
droplets, so that the order matters, which the decoder's run has with three; two blocks per
superblock put an interruption inside one; two epochs make a gap possible. Three requested epochs in `droplet_node` are the least
for which a run can be resumed before the last of them; its one purge (`MaxPurges`) may come before,
between and after the two crashes. In `coding`, the five
cuttings have superblocks of one and two blocks, of equal and of different lengths, up to the
longest a superblock may be; one of them has as many blocks in each, so that hollow mixtures
come about; three droplets decode the epoch, and `MaxVanished` = 1 file under a
known number already leaves a mixture. The distribution has `K` = 3, `R` = 1 and `Unit` = 6, the
least unit for which all densities are whole; `SpikeWeight` = 2 makes the spike lie at 3. `MaxNumber`
= 15 makes the numbers all those of four bits; `Shortfall` = 1 is a sample above the last entry. In
`headerchain` the tree has branches that leave another one at different heights, and `MaxReorg` = 2 admits one reorganisation that
`generate` gets over and one that it does not; `MaxCrashes` = 2 lets a crash follow another, and
`MaxBlocks` = 2 is enough, as no block is compared with any but the one before it. The runs of the
compressor and of the droplet node do not check for deadlock, since after the last command nothing
needs to happen, nor does the decoder's, since no call follows when the process has ended within one;
the others do.

Fairness. The decoder's `FairSpec` says that a call, once made, keeps running (`Running`), and
nothing of the client's calls. The compressor's `FairSpec` says the same of a command (`Step`):
its loops are one thread without locks or waiting. No fairness is assumed of crashes, commands or
the growth of the chain. `Restore`'s `FairSpec` adds what README.md:60 asks of the user: restore is
called again (`Command`), and every harmless droplet of the instance is collected sooner or later,
as every set of neighbors has a chance to be drawn each time; torn, wrong and too large ones need
not come.
The encoder's `EncoderFairness` says that a droplet, once begun, keeps being worked on; of the random
generator it says no more than that it does not repeat the numbers already drawn for ever
(a `Draw` of such a number is a stutter). `GenerateReturns` says of a degree above K, which no
fairness helps, that the command draws for ever. `HeaderChain`'s `FairSpec` says that a command keeps
running and that the command is called again; nothing of the source or of crashes.

### Findings

* `resume_enough`: `compressor.rs:150` skips as many blocks as the *height* of the last compressed
  block, which leaves that block to be encoded again, as the first of the next epoch. A
  generate-all that is resumed then writes droplets of the shifted cutting beside those of later
  rounds. They cannot be decoded together, so an epoch may have as many droplets as a restore needs
  but fewer of any one cutting, while main.rs:82, README.md:56 and cli.rs:65 say enough for a
  restoration. `EnoughDroplets` is what holds instead: a resumed command is short of one round.
* `resume_parse`: a crash between truncating and writing a progress file leaves it empty; every
  later `generate` fails to parse it, and nothing repairs it.
* `restore_torn`: a torn droplet file, which `TornPerCrash` allows each crash to leave, makes the
  decoder report an error where it skips a murky droplet. Every later restore fails at the same
  file, while README.md:60 advises just to generate more.
* `headerchain_reorg`: `headerchain.rs:107` starts at the height of the best header, whatever branch
  it is on. When the source took back two headers or more, the parent of the first header read is
  not known, the command fails, and so does every later one, while README.md:58 promises the
  longest header-chain. `CatchesUpUnlessDeep` is what holds instead.
* `headerchain_longest`: fountain_decoder.rs:117 says that the blocks "correspond to the longest
  header-chain", but `validate_blocks` looks blocks up among all known headers, those of
  branches that the source has left included. `ValidatesPieces` is what holds instead.

Two more follow from the same models without a run of their own. A crash between the removals of
the two progress files (`compressor.rs:324`) leaves the block without the epoch, and the next round
encodes epoch 0 from late blocks; `EnoughDroplets` counts that round as resumed. And the block that
a resumed run encodes again (`compressor.rs:150`) is then in two epochs, so that `EpochsTile` and
`EpochsAgree` are only true of uninterrupted runs.

What holds nevertheless, with crashes at any step, is the run `compressor_crash`: nothing written
is lost or overwritten, the numbering has no gaps, and every block up to the recorded one is in a
full set of droplets.

## What is proved

The proofs hold for all values of the constants that the named assumptions of the modules admit:
any k, any set of droplets, any chain and growth, any number of commands and crashes.

`FountainDecoderProofs`:

* `TypeCorrect`: `Spec => []TypeOK`.
* `SoundDecoding`: if all droplets are honest or murky (`HonestOrMurky`), `Spec => []Sound`. Noise
  never cancels, as everything XORed out is a recovered superblock without noise; so what is
  accepted from an honest droplet is its only unknown neighbor, or a hollow mixture when files were
  not opened, and nothing is accepted from a murky one.
* `ExhaustiveDecoding`: `Spec => []Exhausted`, for arbitrary droplets. Every pass that is counted
  either adds to `skip` or looks at all droplets without recovering anything, in which case
  nothing peels any more; as `skip` is a set of droplet numbers, the number of droplets bounds the
  passes of the first kind. The inductive invariant relates `round` to the cardinality of `skip`
  and says of every droplet before `index` that it is stuck, unless the pass has already made
  progress. A call in which a recovered superblock was not there to read is excepted (`missed`).
* `DecoderImplementsPeeling`: if all droplets are honest or murky, every behaviour is one of
  `Peeling`. "notDecoded" is answered correctly because at exhaustion the set `known` is closed,
  and everything in `known` is in every closed set; files that are not opened are the `lost` of
  `Peeling`, so that the refinement needs no assumption about the temporary storage.
* `RecoveredStays`: `Spec => NeverReplaced`, for arbitrary droplets: what was recovered once is never
  lost nor replaced, as only a neighbor that is not known is stored.
* `CallsAreFinite`: every step of a call lowers `CallVariant`, the turns of the outer and of the inner
  loop that are left, in a well-founded order, for arbitrary droplets. This needs the bound on
  the passes of the type invariant; it is `EveryCallReturns` up to the fairness that steps are taken,
  and for a call that does not end the process.

`CompressorProofs`:

* `TypeCorrect`: `Spec => []TypeOK`, crashes included.
* `ContiguousNumbering` and `DropletsAreKept`: `Spec => []Contiguous` and `Spec => DropletsKept`,
  crashes included. The invariant is `NumberInv`: while droplets are written, the counter is the
  number of files (one less while the last one is being written, which is still torn).
* `NoEpochIsMissing`: `Spec => []NoEpochMissing`, crashes included. The invariant is `EpochInv`: no
  run, resumed or not, works on an epoch beyond the next one. `restore` and `purge-droplets` visit
  the epochs 0 to their count - 1 and rely on it.
* `DropletsAgree` and `EpochsTileChain`: with `CrashPoints = {}`, `Spec => []EpochsAgree` and
  `Spec => []EpochsTile`. Neither is inductive. `PartitionInv` (`PartitionHolds`, also checked by TLC)
  adds that stored layouts are greedy (`StoredGreedy`: each superblock is as long as it can be), that the
  cutting in progress begins where the last epoch ended and is a prefix of what the directory
  holds (`Cutting`, `Encoded`), and that there is never anything to resume (`NothingToResume`).
  The heart is `SameNextStart`: of two greedy cuttings that agree so far, the next starts agree.
* `RequestedEpochsOnly`: `Spec => []RequestedOnly`, crashes included. The last requested epoch is
  recognised by an equality, so the proof needs that no record names an epoch beyond it and that
  the loop is never at one, the invariant `RequestInv` of `CompressorProofs`.

`RoundsProofs`, about the same module, with any number of runs that die and are resumed:

* `TornFilesPerCrash`: `Spec => []TornPerCrash`. A run writes into one file at a time, and the file
  a later run creates is another one, by `NumberInv`; so a crash adds at most one torn file.
* `RecordIsStored`: `Spec => []RecordedBlocksStored`. The invariant adds `RunStored`: every block
  before the epoch a run works on is in a whole round of droplets of one layout, in the directory.
  What a later run adds to a directory does not take that round away, even if its cutting is another
  one.
* `EnoughDropletsLeft`: `Spec => []EnoughDroplets`, wherever runs die. A round from scratch makes the
  cutting from the first block of the chain (`Boundaries`, a least set, and `Cuts`) and leaves a round of
  droplets of it in every epoch that this cutting completes (`CutEpochs`). Greedy cutting is monotone in
  its first block (`CutMonotone`), so the cutting is unique (`CutIsUnique`), and when one epoch is not
  complete no later one is (`NoLaterEpoch`): all rounds from scratch of a command add to the same
  epochs (`RoundInv`). Only the first round can begin elsewhere, as every round that is over has removed
  the record (`ResumeInv`).
* `RunsAreFinite`: every step of a command, resumed or not, lowers `RunVariant`: rounds left, blocks
  left, and the steps until the next block (droplets of the epoch left to write, writes of the progress
  files). It is `EveryCommandEnds` up to fairness, for every chain and number of rounds.

`DropletNodeProofs`, with crashes anywhere and any number of purges:

* `PurgeIsComplete`: `NodeSpec => []PurgeRemovesAll`. The purge visits the epochs 0 to the number of
  directories - 1, so the proof needs `NoEpochMissing` again. `EpochInv` is no longer an invariant,
  as a purge leaves a record of epochs that are gone: `PurgeInv` says that it holds or the record is
  `Stale`, which lasts only while there is at most one directory, too few for a resume to read it.
* `RequestedEpochsOnlyWithPurges`: `NodeSpec => []RequestedOnly`.
* `NoResumeFromPurged`: `NodeSpec => ResumesCovered`. `RecordedBlocksStored` is not an invariant any
  more, but it holds whenever the record is `InUse`: when there is more than one epoch, or a run has gone
  past its first one. A run over a purged store comes to neither before it has written its own
  record (`InUseBefore`).
* `EnoughDropletsAfterPurges`: as `EnoughDropletsLeft`, for `NodeSpec`.
* `ContiguousAmongPurges`, `NoEpochMissingBetweenPurges` and `TornFilesAmongPurges`: what `Compressor`
  promises of its files holds for `NodeSpec` too (`NodeFilesInv`), of the epochs only between purges.
* `DropletsKeptUnlessPurged`: a written droplet is only lost to the purge of its own epoch.
* `NodeCommandsAreFinite`: `RunVariant` still decreases, and a purge has a variant of its own.

`RestoreProofs`, for any collection of droplets, any interruptions and failures. Every step is one of
the decoder, or leaves it alone, or begins with a new one, so the decoder's invariants
(`DecoderInv`) hold of the one in use, whatever files are added to the directory meanwhile; the
others say where in the loops a command is (`PlaceInv`, `CommandOK`, `DiskOK`).

* `RestoreTypeCorrect`: `RestoreSpec => []RestoreTypeOK`.
* `OutputHasNoGap` and `ReportedIsRestored`: `OutputPrefix` and `RestoredComplete`, for any droplets,
  without an assumption about what is decoded: the properties themselves except what follows a
  superblock that was decoded under the number of another (`stray`), the first for good, the second
  for the command that did. The invariant `ChainInv` says that the output is a prefix of the chain and
  reaches to the place of the command; it is needed because blocks of earlier runs are `Duplicate` and
  those lost in an interruption come again.
* `GenuineNeverStray`: if all droplets are honest or murky (`HonestOrMurky`), and files can be opened or
  no mixture is hollow, no command ever goes astray, by the argument of `SoundDecoding`. It is what the
  header-chain's check cannot promise of others: a droplet whose neighbors are wrong but whose
  bytes are those of good blocks passes it.
* `NeedIsJustified`: `RestoreSpec => NeedMoreJustified`. Its condition is in the property: what has been
  recovered is right, and nothing recovered was unreadable in the call. Without it the statement is
  false: with a wrong droplet for superblock 1 before honest ones for {0, 1} and {1}, superblock 0 is never
  decoded although the honest ones determine it.
* `RestoreImplementsImport`: every behaviour is one of `ChainImport`, commands that go astray included.
  `ChainInv` makes each `NewBlock` the next one, the place of the command at the end of
  its loops makes success complete, and no other step touches the output.
* `SufficientDropletsSuffice`: `RestoreSpec => SufficientSuffices`. By exhaustion a
  decoder that gives up has recovered every superblock the droplets determine; readable droplets never fail
  it; and what is recovered without wrong droplets is genuine, so no block is rejected.
* `CommandsAreFinite`: every step of a command lowers `CommandVariant` (epochs left, place in the epoch,
  variant of the call), although droplets and epochs may arrive meanwhile.

`HeaderChainProofs`, for every finite tree of headers. `TreeAssumption` says that all headers descend
from the genesis, as a statement about sets, from which follow the equations of the recursive
`Chain` and `Height` (`ChainEquation`, `HeightEquation`) and that each header has one chain.

* `HeaderChainTypeCorrect`: `Spec => []TypeOK`, with crashes and reorganisations: `known` and
  `written` are closed under parents.
* `DoneMeansComplete`: `Spec => DoneIsComplete`. A command that is done knows the tip of the source,
  and so, as `known` is closed under parents, its whole chain.
* `AcceptsExactlyPieces`: `Spec => []ValidatesPieces`, for every `MaxBlocks`.
* `UpdatesAreFinite`: every step of an update lowers the number of entries that are left.

`SuperBlockProofs`, for superblocks of every length and every operation that satisfies
`XorAssumption`:

* `BitXorCommutes` and `BitXorAssociates`: a droplet does not depend on the order of its neighbors.
* `AddKeepsFilled` and `XorUndone`: what `add` builds is `Filled`, its recorded lengths those of
  its vectors, and a filled superblock XORed with another and XORed with it again is, once cropped,
  what it was. The argument is about padding: the vectors keep the greater length, and what is
  left behind the old one is zero and is cropped by a length that was restored by the same XOR.
* `BlocksComeBack` and `CutSuperBlocks`: a superblock that was filled with blocks, one by one while
  they fit, is cut up into exactly these blocks. `End` is a running sum; that running sums
  exist, are unique and grow is proved once (`SumExists`, `SumUnique`, `SumGrows`).

`CodingProofs`, for any K, distribution, superblocks that satisfy `CutAssumption`, droplets and orders:

* `CodingTypeCorrect`: `Spec => []TypeOK`, and with it the bound on the drawn neighbors.
* `SamplingFollowsPmf`: `Spec => []SampleFollowsPmf`. `Cdf` is a running sum, and the samples that
  give degree d are those between two of its values (`SamplesOfDegree`); those above the last value,
  `Shortfall` of them, give K + 1, and only the number 0 gives 0.
* `DropletsAreHonest`: `Spec => []HonestDroplets`. A droplet is what its set of neighbors combines
  to; `Combos` is the least relation of sets and XORs that is closed under XORing one more, and
  everything in it has the parity of its set at every bit.
* `DecodedAsCut` and `HonestAccepted`: `Spec => []Undone` and `Spec => []NothingRejected`. The invariant
  (`DecoderInv` of this module): what is being decoded is a combination of the neighbors not yet
  XORed out, with zeros behind (`Zeros`, what is left of a superblock XORed with itself). A
  member can be taken out of a combination whatever the order it was put in (`ComboOut`); at the end a
  single one remains, and cropping takes the zeros away. Both speak of the time before a file vanishes, as
  the properties do.
* `OrderDoesNotMatter` and `XorIsDifference`: what makes `FountainDecoder`'s contents sound. There a
  superblock is a symbol and XOR a symmetric difference; here two combinations XORed are, with zeros
  behind, the combination of the difference of their sets, whatever lengths were padded, and
  when one superblock is left, cropping gives exactly it.
* `NothingWrongStored`: `Spec => []NoWrongBlock`, with any number of vanished files. The invariant
  (`MixtureInv`): what is being decoded is, with zeros behind, a combination of some set that has
  the unknown neighbor and every neighbor not yet looked up. If it is accepted with a block, its
  first byte is a header; it has the parity of that set (`CombosHold`), so by `HashAssumption` the set
  has one member (`MixtureFails`), which is the unknown neighbor.

Induction. The library's induction theorems take an operator as a parameter, which no installed
prover can instantiate. Where a proof needs induction it states it of sets: a set that has the
start and is closed under the step has everything (`NumberInduction`, the least sets
`Boundaries`, `Combos`, `Cut`, and `TreeAssumption`), or it takes the least number at which
something fails.

Only model-checked: the liveness properties (`EveryCallReturns`, `EveryCommandEnds`,
`EventuallyRestored`, `GenerateReturns`, `CatchesUpUnlessDeep`), as fairness is out of the prover's
reach. Of the first two and of the commands that the next two depend on, the part that does not need
fairness is proved: the variants above, by which no sequence of steps of one command is infinite, and
`SufficientDropletsSuffice`. `GenerateReturns` has no variant, as the search for neighbors ends by luck.

## Not modelled

* Rounding in the floating-point densities of the robust soliton distribution, but for the sum that ends
  below 1 (`Shortfall`): `DegreeDistribution` has exact fractions and an integer spike position.
* Droplets with a neighbor number beyond the epoch, or with the same one twice.
* The number of droplets that a restore needs: in `Compressor`, `MinEncodedSymbols` is a
  constant; that so many droplets decode an epoch is a matter of probability, not of the program's
  control.
* The kernel library and LevelDB, beyond what the calls above say of them.
* Reorganisations of the chain under the compressor, and a change of the configuration between
  commands.
* An interrupted purge, and a `remove_dir_all` that is interrupted inside a directory. The first
  leaves a gap at the front that a later purge does not get over, as it counts fewer epochs than
  the last number plus one.
* A failing removal of a progress file, whose error the code ignores (`compressor.rs:324-325`).
* Layout of byte encodings, logging, parsing of the command line and of the configuration.
* The dummy and test coders, which no command uses.

## Plan

Done: the decoder against its abstract specification and the compressor with its storage, first
because everything else depends on them; restore on top of the decoder; the droplet node with its
purge; encoder, distribution and superblocks down to the bytes; the header-chain.
Every invariant, action property and refinement of the passing runs is proved. Next, in this order:

1. `DropletNode` with an interrupted purge, a configuration that changes and a reorganisation of
   its chain between commands.
2. `System`: droplets of several nodes whose runs died or resumed, mixed in one directory of a
   bucket node and decoded: which of the findings above a bucket node notices.

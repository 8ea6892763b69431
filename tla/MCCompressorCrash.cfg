\* Three commands, two of which may die at any step.
CONSTANTS
  MaxHeight = 5
  BlockSizes = {1, 2}
  Chains <- SomeChains
  SuperBlockMaxSize = 2
  SuperBlocksPerEpoch = 2
  StorageReductionRatio = 1
  EpochsToEncode = 0
  MinEncodedSymbols = 3
  CrashPoints <- Anywhere
  MaxCommands = 3
  MaxCrashes = 2
SPECIFICATION FairSpec
INVARIANTS
  Contiguous
  NoEpochMissing
  RecordedBlocksStored
  TornPerCrash
PROPERTIES
  DropletsKept
  EveryCommandEnds
CHECK_DEADLOCK FALSE

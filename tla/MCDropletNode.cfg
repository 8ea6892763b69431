\* The first three epochs of two superblocks, with runs that die twice and a purge.
CONSTANTS
  MaxHeight = 7
  Chains <- SomeChains
  SuperBlockMaxSize = 2
  SuperBlocksPerEpoch = 2
  StorageReductionRatio = 2
  EpochsToEncode = 3
  MinEncodedSymbols = 3
  CrashPoints <- Anywhere
  MaxCommands = 3
  MaxCrashes = 2
  MaxPurges = 1
SPECIFICATION NodeSpec
INVARIANTS
  EnoughDroplets
  RequestedOnly
  PurgeRemovesAll
PROPERTIES
  ResumesCovered
CHECK_DEADLOCK FALSE

\* A run dies while it writes its progress, the next one tries to resume it.
CONSTANTS
  MaxHeight = 5
  BlockSizes = {1, 2}
  Chains <- SomeChains
  SuperBlockMaxSize = 2
  SuperBlocksPerEpoch = 2
  StorageReductionRatio = 1
  EpochsToEncode = 0
  MinEncodedSymbols = 3
  CrashPoints <- WhileWritingCount
  MaxCommands = 2
  MaxCrashes = 1
SPECIFICATION Spec
INVARIANTS
  ResumeWorks
CHECK_DEADLOCK FALSE

\* A run dies while it cuts an epoch, the next command goes on from its record.
CONSTANTS
  MaxHeight = 5
  BlockSizes = {1, 2}
  Chains <- SomeChains
  SuperBlockMaxSize = 2
  SuperBlocksPerEpoch = 2
  StorageReductionRatio = 1
  EpochsToEncode = 0
  MinEncodedSymbols = 3
  CrashPoints <- WhileScanning
  MaxCommands = 2
  MaxCrashes = 1
SPECIFICATION Spec
INVARIANTS
  EnoughAlsoResumed
CHECK_DEADLOCK FALSE

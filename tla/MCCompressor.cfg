\* No crashes: two commands on a chain that may grow, all block sizes.
CONSTANTS
  MaxHeight = 5
  BlockSizes = {1, 2}
  Chains <- AllChains
  SuperBlockMaxSize = 3
  SuperBlocksPerEpoch = 2
  StorageReductionRatio = 1
  EpochsToEncode = 0
  MinEncodedSymbols = 3
  CrashPoints <- Nowhere
  MaxCommands = 2
  MaxCrashes = 0
SPECIFICATION Spec
INVARIANTS
  TypeOK
  EpochsAgree
  PartitionInv
  EpochsTile
  EnoughDroplets
CHECK_DEADLOCK FALSE

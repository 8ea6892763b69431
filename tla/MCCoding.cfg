\* Three superblocks of one or two blocks, cut in five ways; three droplets.
CONSTANTS
  K = 3
  R = 1
  Unit = 6
  SpikeWeight = 2
  Shortfall = 1
  SuperBlockMaxSize = 4
  MaxNumber = 15
  BitwiseXor <- TableXor
  Epochs <- Cuttings
  Headers <- FourHeaders
  MaxDroplets = 3
  MaxVanished = 1
SPECIFICATION FairSpec
INVARIANTS
  TypeOK
  HonestDroplets
  Undone
  NothingRejected
  NoWrongBlock
  SampleFollowsPmf
PROPERTIES
  GenerateReturns
CHECK_DEADLOCK TRUE

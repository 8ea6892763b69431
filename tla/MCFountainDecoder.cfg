\* Three superblocks, up to three droplets of every kind, and files that cannot be opened.
CONSTANTS
  SuperBlocksPerEpoch = 3
  noise = noise
  Noise <- OneNoise
  Huge <- OneNoise
  Foreign <- NoTerms
  Hollow <- ZeroAndOne
  Collected <- HonestMurkyTorn
  MaxDroplets = 3
  TmpStorageMayFail = TRUE
SPECIFICATION FairSpec
INVARIANTS
  TypeOK
  Sound
  Exhausted
PROPERTIES
  NeverReplaced
  EveryCallReturns
  ImplementsPeeling
CHECK_DEADLOCK FALSE

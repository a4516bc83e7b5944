SPECIFICATION Spec
CONSTANTS
  Ident = {"a"}
  Rev = {"r1", "r2"}
  NoRev = NoRev
  Block <- TwoBlocks
  Shard <- TwoShards
  ShardFor <- TwoShardsFor
  ShardBudget = 3
  Thread = {t1, t2}
  MaxId = 2
  Reader = {p, q}
  NoReader = NoReader
  Asset <- MixedAssets
  Request <- TailRequest
  BlockSize = 2
  GapBlocks = 0
  MaxRequestBytes = 4
  BypassBytes = 5
  MaxOffset = 7
  Byte <- FourBytes
  Passes = 1
SYMMETRY MCSymmetry
INVARIANTS
  StripesAreSound
  PrivateBlocksDieWithReader
PROPERTIES
  RebuildOnlyUnbound
  ImplementsContract

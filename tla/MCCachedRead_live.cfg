SPECIFICATION FairSpec
CONSTANTS
  Ident = {"a"}
  Rev = {"r1"}
  NoRev = NoRev
  Block <- TwoBlocks
  Shard <- OneShard
  ShardFor <- OneShardFor
  ShardBudget = 2
  Thread = {t1, t2}
  MaxId = 1
  Reader = {p}
  NoReader = NoReader
  Asset <- ShortAsset
  Request <- MixedRequests
  BlockSize = 2
  GapBlocks = 0
  MaxRequestBytes = 4
  BypassBytes = 4
  MaxOffset = 7
  Byte <- FourBytes
  Passes = 2
INVARIANTS
  EveryBlockCountedOnce
  TypeOK
  PendingHasOwner
  SingleOwner
  HoldNothingWhileAwaiting
PROPERTIES
  ReadsReturn

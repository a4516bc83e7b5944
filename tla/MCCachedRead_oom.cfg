SPECIFICATION OomSpec
CONSTANTS
  Ident = {"a"}
  Rev = {"r1"}
  NoRev = NoRev
  Block <- TwoBlocks
  Shard <- OneShard
  ShardFor <- OneShardFor
  ShardBudget = 2
  Thread = {t1, t2}
  MaxId = 1
  Reader = {p}
  NoReader = NoReader
  Asset <- ShortAsset
  Request <- TailRequest
  BlockSize = 2
  GapBlocks = 0
  MaxRequestBytes = 4
  BypassBytes = 5
  MaxOffset = 7
  Byte <- FourBytes
  Passes = 2
INVARIANTS
  PendingHasOwner

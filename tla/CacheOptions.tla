------------------------------ MODULE CacheOptions ------------------------------
(***************************************************************************)
(* The cache policy made legal, and how the store divides its budget into  *)
(* stripes (libs/usd-asset-cache/src/CacheOptions.cpp, BlockCache.cpp).    *)
(***************************************************************************)
EXTENDS Integers, FiniteSetsExt

CONSTANTS MinBlockSize, MaxBlockSize, DefaultBlockSize, MaxShards

ASSUME OptionsAssumption ==
  /\ {MinBlockSize, MaxBlockSize, DefaultBlockSize, MaxShards} \subseteq Nat \ {0}
  /\ MinBlockSize <= MaxBlockSize

AtLeast(a, b) == IF a < b THEN b ELSE a

RoundDownToPowerOfTwo(value) ==
  IF value < MinBlockSize THEN MinBlockSize
  ELSE IF value >= MaxBlockSize THEN MaxBlockSize
  ELSE Max({p \in {MinBlockSize * 2^i : i \in 0 .. value} : p <= value})

\* Mutant: a gap that leaves room for one of the two blocks around it.
GapCeiling_OneMore(perRequest) == IF perRequest >= 1 THEN perRequest - 1 ELSE 0

\* The widest gap a request can bridge: two of its blocks are at the ends.
GapCeiling(perRequest) == IF perRequest >= 2 THEN perRequest - 2 ELSE 0

Normalized(o) ==
  LET blockSize  == RoundDownToPowerOfTwo(IF o.blockSize = 0 THEN DefaultBlockSize
                                                             ELSE o.blockSize)
      request    == AtLeast(o.maxRequestBytes, blockSize)
      gapCeiling == GapCeiling(request \div blockSize)
  IN  [blockSize            |-> blockSize,
       maxRequestBytes      |-> request,
       budgetBytes          |-> AtLeast(o.budgetBytes, blockSize),
       bypassThresholdBytes |-> AtLeast(o.bypassThresholdBytes, blockSize),
       coalesceGapBlocks    |-> IF o.coalesceGapBlocks > gapCeiling THEN gapCeiling
                                                                   ELSE o.coalesceGapBlocks]

IsNormalized(o) == Normalized(o) = o

\* Doubles while the next count still leaves eight blocks to every stripe.
ChooseShardCount(budgetBytes, blockSize) ==
  LET desired == IF blockSize > 0 THEN budgetBytes \div (blockSize * 8) ELSE 1
  IN  Max({1} \cup {n \in {2^i : i \in 1 .. MaxShards} : n <= MaxShards /\ n <= desired})

\* What ResetLocked gives each stripe.
ShardBudgetOf(o) ==
  AtLeast(o.budgetBytes \div ChooseShardCount(o.budgetBytes, o.blockSize), o.blockSize)
==============================================================================

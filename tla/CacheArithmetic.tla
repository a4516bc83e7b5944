---------------------------- MODULE CacheArithmetic ----------------------------
(***************************************************************************)
(* The pure functions under the cache, called on every input of a small    *)
(* set and compared with what they promise.  A behaviour is one call.      *)
(***************************************************************************)
EXTENDS PlanLaws, CacheOptions, Calls

CONSTANTS
  PlanInput,     \* [blocks, blockSize, assetSize, gap, maxRequest]
  RangeInput,    \* [offset, size, assetSize, blockSize]
  OptionInput,   \* CacheOptions as a host may ask for them
  Limit          \* the largest offset

ArithmeticCalls ==
  \/ call = "plan" /\ input \in PlanInput
  \/ call = "range" /\ input \in RangeInput
  \/ call = "options" /\ input \in OptionInput

Plan ==
  Returns("plan", PlanRuns(Ascending(input.blocks), input.blockSize, input.assetSize, input.gap,
                           input.maxRequest))

Resolve ==
  Returns("range", <<ResolveReadRange(input.offset, input.size, input.assetSize, Limit)>>)

Normalize ==
  Returns("options", <<Normalized(input)>>)

------------------------------------------------------------------------------
\* The plan of PlanRuns fetches every block asked for exactly once, and the
\* bytes of each request are those of its blocks.
PlanFetchesOnce ==
  Called("plan") => PlanFetches(output, input.blocks, input.blockSize, input.assetSize)

\* PlanRuns merges "into as few requests as the policy allows": its plan obeys
\* the policy, and no other plan that obeys it has fewer requests.
PlanIsLeast ==
  Called("plan") => PlanLeast(output, input.blocks, input.blockSize, input.assetSize, input.gap,
                              input.maxRequest)

\* A resolved read lies inside the asset and inside the request, is refused
\* exactly when its end does not fit the offset type, and its covering blocks
\* hold each of its bytes exactly once with none of them idle.
RangeIsCovered ==
  Called("range") =>
    RangeCovered(output[1], input.offset, input.size, input.assetSize, input.blockSize, Limit)

\* Normalized is idempotent, its gap is one that PlanRuns can really take, and
\* the stripes it leads to hold a block each, together stay inside the budget,
\* and hold eight blocks each when there is more than one.
OptionsConsistent ==
  Called("options") =>
    LET o == output[1]
        n == ChooseShardCount(o.budgetBytes, o.blockSize)
    IN  /\ IsNormalized(o)
        /\ o.coalesceGapBlocks > 0 =>
             Len(PlanRuns(<<0, o.coalesceGapBlocks + 1>>, o.blockSize,
                          (o.coalesceGapBlocks + 2) * o.blockSize, o.coalesceGapBlocks,
                          o.maxRequestBytes)) = 1
        /\ ShardBudgetOf(o) >= o.blockSize
        /\ n * ShardBudgetOf(o) <= o.budgetBytes
        /\ n > 1 => ShardBudgetOf(o) >= 8 * o.blockSize
==============================================================================

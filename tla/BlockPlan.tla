------------------------------ MODULE BlockPlan ------------------------------
(***************************************************************************)
(* The block arithmetic of the cache: which blocks a byte range covers,    *)
(* which bytes a block holds, and how the blocks a read must fetch are     *)
(* merged into requests.  All sizes are in bytes, all blocks are indices   *)
(* counted from zero (libs/usd-asset-cache/src/BlockPlan.cpp).             *)
(***************************************************************************)
EXTENDS Integers, Sequences, FiniteSets

\* Mutant: up to the block after the last byte.
CoveringBlocks_PastEnd(offset, length, blockSize) ==
  (offset \div blockSize) .. ((offset + length) \div blockSize)

\* The blocks a non-empty range touches: up to the block of its last byte.
CoveringBlocks(offset, length, blockSize) ==
  (offset \div blockSize) .. ((offset + length - 1) \div blockSize)

\* Mutant: the last block is not clamped.
ExtentOf_Unclamped(b, blockSize, assetSize) == [offset |-> b * blockSize, length |-> blockSize]

\* The bytes of one block, the last block of the asset clamped to its true
\* length and a block past the end empty.
ExtentOf(b, blockSize, assetSize) ==
  LET start == b * blockSize
  IN  [offset |-> start,
       length |-> IF start >= assetSize THEN 0
                  ELSE IF assetSize - start < blockSize THEN assetSize - start
                  ELSE blockSize]

\* The bytes from the start of one block to the end of another.
SpanBytes(first, last, blockSize, assetSize) ==
  LET end == ExtentOf(last, blockSize, assetSize)
  IN  end.offset + end.length - ExtentOf(first, blockSize, assetSize).offset

\* One request, for the blocks first .. last.
FetchRun(first, last, blockSize, assetSize) ==
  [firstBlock |-> first,
   blockCount |-> last - first + 1,
   offset     |-> ExtentOf(first, blockSize, assetSize).offset,
   length     |-> SpanBytes(first, last, blockSize, assetSize)]

\* Mutant: the widest gap allowed does not join.
Joins_Strictly(plan, next, blockSize, assetSize, gapBlocks, maxRequestBytes) ==
  /\ next - plan.last - 1 < gapBlocks
  /\ SpanBytes(plan.first, next, blockSize, assetSize) <= maxRequestBytes

\* The next block joins the open run if the gap and the merged length allow it.
Joins(plan, next, blockSize, assetSize, gapBlocks, maxRequestBytes) ==
  /\ next - plan.last - 1 <= gapBlocks
  /\ SpanBytes(plan.first, next, blockSize, assetSize) <= maxRequestBytes

\* A set of blocks in ascending order.
Ascending(blocks) ==
  [i \in 1 .. Cardinality(blocks) |->
     CHOOSE b \in blocks : Cardinality({c \in blocks : c < b}) = i - 1]

\* Left to right over the ascending sequence of blocks: one that does not join
\* the open run closes it and opens its own.
PlanRuns(blocks, blockSize, assetSize, gapBlocks, maxRequestBytes) ==
  LET Close(plan) == Append(plan.runs, FetchRun(plan.first, plan.last, blockSize, assetSize))
      Take(plan, next) ==
        IF Joins(plan, next, blockSize, assetSize, gapBlocks, maxRequestBytes)
          THEN [plan EXCEPT !.last = next]
          ELSE [runs |-> Close(plan), first |-> next, last |-> next]
      walk[i \in DOMAIN blocks] ==
        IF i = 1 THEN [runs |-> <<>>, first |-> blocks[1], last |-> blocks[1]]
        ELSE Take(walk[i - 1], blocks[i])
  IN  IF blocks = <<>> THEN <<>> ELSE Close(walk[Len(blocks)])

\* Mutant: one block short.
LastBlock_Short(run) == run.firstBlock + run.blockCount - 2

LastBlock(run) == run.firstBlock + run.blockCount - 1
==============================================================================

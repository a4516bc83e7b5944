------------------------------- MODULE PlanLaws -------------------------------
(***************************************************************************)
(* What the block arithmetic promises: ResolveReadRange and CoveringBlocks *)
(* for a read, PlanRuns for the requests of one.  DataTheorems proves it.  *)
(***************************************************************************)
EXTENDS BlockPlan, RangeMath, Functions

\* The bytes of a range that a block holds.
Wanted(r, b, blockSize, assetSize) ==
  LET e == ExtentOf(b, blockSize, assetSize)
  IN  (r.offset .. r.offset + r.length - 1) \cap (e.offset .. e.offset + e.length - 1)

\* A resolved read lies inside the asset and inside the request, is refused
\* exactly when its end does not fit the offset type, and its covering blocks
\* hold each of its bytes exactly once with none of them idle.
RangeCovered(r, offset, size, assetSize, blockSize, limit) ==
  LET end  == offset + size
      span == CoveringBlocks(r.offset, r.length, blockSize)
      W(b) == Wanted(r, b, blockSize, assetSize)
  IN  /\ r.outcome = "Overflow" <=> end > limit
      /\ r.outcome = "Transfer" =>
           /\ r.offset = offset
           /\ r.length = (IF end < assetSize THEN end ELSE assetSize) - offset
           /\ UNION {W(b) : b \in span} = r.offset .. r.offset + r.length - 1
           /\ \A b \in span : W(b) # {}
           /\ \A b, c \in span : b # c => W(b) \cap W(c) = {}
      /\ r.outcome = "Empty" => size = 0 \/ offset >= assetSize

Run == [firstBlock : Nat, blockCount : Nat \ {0}, offset : Int, length : Int]

\* The blocks of a request.
Reaches(run, b) == run.firstBlock <= b /\ b <= LastBlock(run)

\* Requests in ascending order, none touching another.
Ascends(rs) ==
  /\ rs \in Seq(Run)
  /\ \A i, j \in 1 .. Len(rs) : i < j => LastBlock(rs[i]) < rs[j].firstBlock

\* The runs ascend, and reach every block asked for.
PlanLaw ==
  \A S \in SUBSET Nat, blockSize \in Nat \ {0}, assetSize, gapBlocks, maxRequestBytes \in Nat :
    (IsFiniteSet(S) /\ S # {}) =>
      LET rs == PlanRuns(Ascending(S), blockSize, assetSize, gapBlocks, maxRequestBytes)
      IN  Ascends(rs) /\ \A b \in S : \E i \in 1 .. Len(rs) : Reaches(rs[i], b)

\* A plan fetches every block asked for exactly once: the runs ascend without
\* touching, each starts and ends on a block asked for, each is the bytes of its
\* blocks, and none is empty or reaches past the asset.
RunBlocks(run) == run.firstBlock .. LastBlock(run)
PlanFetches(rs, blocks, blockSize, assetSize) ==
  /\ blocks \subseteq UNION {RunBlocks(rs[i]) : i \in DOMAIN rs}
  /\ \A i \in DOMAIN rs :
       LET run == rs[i]
           Bytes(b) == ExtentOf(b, blockSize, assetSize).length
       IN  /\ {run.firstBlock, LastBlock(run)} \subseteq blocks
           /\ run.length > 0
           /\ run.offset + run.length <= assetSize
           /\ run.length = SumFunctionOnSet([b \in RunBlocks(run) |-> Bytes(b)], RunBlocks(run))
           /\ i > 1 => LastBlock(rs[i - 1]) < run.firstBlock

\* Ways to cut the blocks into groups of neighbours, as the sets of the blocks
\* each group starts with.
CutsOf(blocks) == {cut \in SUBSET blocks : \A b \in blocks : \E c \in cut : c <= b}
GroupOf(blocks, cut, first) ==
  {b \in blocks : b >= first /\ \A c \in cut : c > first => b < c}

\* The policy for one request: within the length ceiling unless it is a single
\* block, and no gap in it wider than allowed.
AllowedGroup(group, blockSize, assetSize, gapBlocks, maxRequestBytes) ==
  \A a, b \in group : a < b =>
    /\ SpanBytes(a, b, blockSize, assetSize) <= maxRequestBytes
    /\ (\A c \in group : c <= a \/ b <= c) => b - a - 1 <= gapBlocks

\* The plan obeys the policy, and no other way to cut the blocks that obeys it
\* has fewer requests.
LegalCut(blocks, cut, blockSize, assetSize, gapBlocks, maxRequestBytes) ==
  \A f \in cut :
    AllowedGroup(GroupOf(blocks, cut, f), blockSize, assetSize, gapBlocks, maxRequestBytes)
PlanLeast(rs, blocks, blockSize, assetSize, gapBlocks, maxRequestBytes) ==
  LET Legal(cut) == LegalCut(blocks, cut, blockSize, assetSize, gapBlocks, maxRequestBytes)
  IN  /\ Legal({rs[i].firstBlock : i \in DOMAIN rs})
      /\ \A cut \in CutsOf(blocks) : Legal(cut) => Len(rs) <= Cardinality(cut)
===============================================================================

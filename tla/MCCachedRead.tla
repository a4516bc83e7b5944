----------------------------- MODULE MCCachedRead -----------------------------
(***************************************************************************)
(* Small instances of CachedAssetReader.  Blocks are two bytes.            *)
(***************************************************************************)
EXTENDS CachedAssetReader, TLC

Strong == [usable |-> TRUE, strong |-> TRUE]
Weak   == [usable |-> TRUE, strong |-> FALSE]

MCSymmetry == Permutations(Thread) \cup Permutations(Reader)

\* One stripe, or two that a block's number spreads over.
OneShard == {0}
OneShardFor(k) == 0
TwoShards == 0 .. 1
TwoShardsFor(k) == (k[1] + k[2]) % 2

TwoBlocks == 0 .. 1
FourBytes == 0 .. 3

\* Opens of one identifier: two of one strong identity that disagree on the
\* size, so that the last block has another length for each; and one whose
\* validator does not tell revisions apart.
MixedAssets ==
  {[ident |-> "a", rev |-> "r1", size |-> 4, validator |-> Strong, persists |-> FALSE],
   [ident |-> "a", rev |-> "r1", size |-> 3, validator |-> Strong, persists |-> FALSE],
   [ident |-> "a", rev |-> "r2", size |-> 2, validator |-> Weak, persists |-> FALSE]}

\* An asset of two blocks that uses the disk tier.
ShortAsset ==
  {[ident |-> "a", rev |-> "r1", size |-> 4, validator |-> Strong, persists |-> TRUE]}

TailRequest   == {<<1, 3>>}
MixedRequests == {<<1, 3>>, <<0, 4>>}
==============================================================================

------------------------------- MODULE RangeMath -------------------------------
(***************************************************************************)
(* What a read request resolves to against the asset size                  *)
(* (libs/usd-asset-io/src/RangeMath.cpp).  limit is the largest value of   *)
(* the unsigned type offsets are kept in; the sum of offset and size is    *)
(* never evaluated.                                                        *)
(***************************************************************************)
EXTENDS Integers

ResolveReadRange(offset, size, assetSize, limit) ==
  IF offset > limit - size
    THEN [outcome |-> "Overflow", offset |-> offset, length |-> 0]
  ELSE IF size = 0 \/ offset >= assetSize
    THEN [outcome |-> "Empty", offset |-> offset, length |-> 0]
  ELSE [outcome |-> "Transfer", offset |-> offset,
        length |-> IF assetSize - offset < size THEN assetSize - offset ELSE size]
==============================================================================

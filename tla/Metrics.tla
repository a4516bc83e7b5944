-------------------------------- MODULE Metrics --------------------------------
(***************************************************************************)
(* Counters of a reader and their process-wide aggregate                   *)
(* (libs/usd-asset-io/src/Metrics.cpp).  A reader counts what it was asked *)
(* for and what its transport did; when it is destroyed its counters are   *)
(* folded into the registry.  A cached reader is a stack of two readers    *)
(* that are one for whoever reads the aggregate.                           *)
(*                                                                         *)
(* The counters kept are one of each kind: what the caller asked for, what *)
(* the transport moved, its requests, those for metadata among them, and   *)
(* the asset's size.  An increment is one atomic addition.                 *)
(***************************************************************************)
EXTENDS Integers, FiniteSetsExt, Functions

CONSTANTS
  MaxTracked   \* kMaxTrackedIdentifiers

VARIABLE
  registry     \* MetricsRegistry: the aggregate, and a bounded table per asset

NoMetrics == [assetSize |-> 0, bytesRequested |-> 0, bytesTransferred |-> 0,
              requestCount |-> 0, metadataRequestCount |-> 0]

MetricsInit == registry = [aggregate |-> NoMetrics, perAsset |-> [i \in {} |-> NoMetrics]]

AddRequest(m)                == [m EXCEPT !.requestCount = @ + 1]
AddMetadataRequest(m)        == [AddRequest(m) EXCEPT !.metadataRequestCount = @ + 1]
AddBytesRequested(m, bytes)  == [m EXCEPT !.bytesRequested = @ + bytes]
AddBytesTransferred(m, bytes) == [m EXCEPT !.bytesTransferred = @ + bytes]

\* What the transport of a stack did, beside what its caller asked for.
AbsorbTransport(m, inner) ==
  [m EXCEPT !.assetSize = Max({@, inner.assetSize}),
            !.bytesTransferred = @ + inner.bytesTransferred,
            !.requestCount = @ + inner.requestCount,
            !.metadataRequestCount = @ + inner.metadataRequestCount]

Add(m, other) == [f \in DOMAIN m |-> m[f] + other[f]]

\* Two readers of an asset do not make it twice as large.
AddForAsset(m, other) == [Add(m, other) EXCEPT !.assetSize = Max({m.assetSize, other.assetSize})]

\* An asset that finds the table full is in the aggregate only.
Fold(snapshot, identifier) ==
  LET table == registry.perAsset
  IN  registry' = [aggregate |-> Add(registry.aggregate, snapshot),
                   perAsset  |->
                     IF identifier \in DOMAIN table
                     THEN [table EXCEPT ![identifier] = AddForAsset(@, snapshot)]
                     ELSE IF Cardinality(DOMAIN table) < MaxTracked
                     THEN [i \in DOMAIN table \cup {identifier} |->
                             IF i = identifier THEN snapshot ELSE table[i]]
                     ELSE table]
================================================================================

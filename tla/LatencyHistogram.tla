--------------------------- MODULE LatencyHistogram ---------------------------
(***************************************************************************)
(* The latency distribution of a reader and its fold into another          *)
(* (LatencyHistogram in libs/usd-asset-io/src/Metrics.cpp).  Samples are a *)
(* function from a number of microseconds to how often it was recorded.    *)
(* The samples checked stay within the bounds of the buckets: what the     *)
(* last bucket does with one beyond its bound is here and is not reached.  *)
(***************************************************************************)
EXTENDS Integers, FiniteSetsExt, Calls

CONSTANTS
  BucketCount,      \* kBucketCount
  HistogramInput    \* [samples, folded]: what two histograms recorded

Bucket == 0 .. BucketCount - 1

\* The top bucket saturates.
BucketFor(microseconds) ==
  IF microseconds = 0 THEN 0
  ELSE Min({b \in Bucket \ {0} : microseconds < 2^b \/ b = BucketCount - 1})

BucketUpperBound(bucket) == IF bucket = 0 THEN 0 ELSE 2^bucket - 1

\* Record, of every sample.
Record(samples) ==
  LET recorded == {x \in DOMAIN samples : samples[x] > 0}
  IN  [buckets |-> [b \in Bucket |->
                      MapThenSumSet(LAMBDA x : samples[x], {x \in recorded : BucketFor(x) = b})],
       count   |-> MapThenSumSet(LAMBDA x : samples[x], recorded),
       max     |-> IF recorded = {} THEN 0 ELSE Max(recorded)]

FoldHistogram(h, other) ==
  [buckets |-> [b \in Bucket |-> h.buckets[b] + other.buckets[b]],
   count   |-> h.count + other.count,
   max     |-> Max({h.max, other.max})]

\* Mutant: the rank is rounded down.
Rank_Down(count, percent) == (count * percent) \div 100

Rank(count, percent) == (count * percent + 99) \div 100

\* The upper bound of the bucket that reaches the rank, but never above the
\* largest sample.
Quantile(h, percent) ==
  LET Cumulative(b) == MapThenSumSet(LAMBDA c : h.buckets[c], 0 .. b)
      reached == {b \in Bucket : Cumulative(b) >= Rank(h.count, percent)}
  IN  IF h.count = 0 \/ reached = {} THEN 0 ELSE Min({BucketUpperBound(Min(reached)), h.max})

Summary(h) == [percent \in {50, 90, 99} |-> Quantile(h, percent)]

HistogramCalls == call = "histogram" /\ input \in HistogramInput

Summarize ==
  Returns("histogram", <<Summary(FoldHistogram(Record(input.samples), Record(input.folded)))>>)

------------------------------------------------------------------------------
\* A quantile of histograms folded into one is not below the sample of that rank
\* among all of them, and over-reports it by less than a factor of two
\* ("they never under-report", Snapshot): whichever bucket the ranks fall in,
\* and whichever of the two recorded the sample.
QuantilesBracket ==
  Called("histogram") =>
    LET AtMost(x) == MapThenSumSet(LAMBDA y : IF y <= x THEN input.samples[y] + input.folded[y] ELSE 0,
                                   DOMAIN input.samples)
        all       == AtMost(Max(DOMAIN input.samples))
        Exact(k)  == Min({x \in DOMAIN input.samples : 100 * AtMost(x) >= k * all})
    IN  \A k \in {50, 90, 99} :
          IF all = 0 THEN output[1][k] = 0
          ELSE /\ output[1][k] >= Exact(k)
               /\ Exact(k) > 0 => output[1][k] < 2 * Exact(k)
               /\ Exact(k) = 0 => output[1][k] = 0
===============================================================================

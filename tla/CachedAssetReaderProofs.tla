------------------------ MODULE CachedAssetReaderProofs ------------------------
(***************************************************************************)
(* What a read through the cache returns, for any number of threads,       *)
(* readers, blocks and stripes.  On top of the invariants of               *)
(* CachedStoreProofs: every block in the store is of the revision its      *)
(* readers opened (Faithful), and every read in progress is Good - its     *)
(* blocks are sifted into owned, awaited and resolved, its requests cover  *)
(* what it owns, its buffer holds what is resolved, and its counters count *)
(* it.  From these follow the theorems on waiting, on the counters and on  *)
(* the contract of AssetReader.                                            *)
(***************************************************************************)
EXTENDS CachedStoreProofs, PlanLaws

------------------------------------------------------------------------------
\* Finite sets of bytes, under the laws of DataLaws.

LEMMA FiniteUnion ==
  ASSUME FiniteLaws, NEW S, IsFiniteSet(S), NEW T, IsFiniteSet(T)
  PROVE  /\ IsFiniteSet(S \cup T)
         /\ Cardinality(S \cup T) = Cardinality(S) + Cardinality(T) - Cardinality(S \cap T)
BY Zenon DEF FiniteLaws, UnionLaw

LEMMA FiniteInterval ==
  ASSUME FiniteLaws, NEW a \in Int, NEW b \in Int
  PROVE  IsFiniteSet(a .. b) /\ Cardinality(a .. b) = IF a > b THEN 0 ELSE b - a + 1
BY Zenon DEF FiniteLaws, IntervalLaw

------------------------------------------------------------------------------
\* The bytes of a read, apart from whose read it is: s the read, a its asset.
SpanOf(s) == CoveringBlocks(s.offset, s.length, BlockSize)
Within(s, x) == s.offset <= x /\ x < s.offset + s.length
Overlap(s, a, b) ==
  {x \in Byte : /\ Within(s, x)
                /\ ExtentOf(b, BlockSize, a.size).offset <= x
                /\ x < ExtentOf(b, BlockSize, a.size).offset + ExtentOf(b, BlockSize, a.size).length}

\* The range lies inside the asset and is not empty.
Fits(s, a) == s.length > 0 /\ s.offset + s.length <= a.size

\* The extent of a block starts where the block does and is no longer.
LEMMA ExtentIs ==
  ASSUME NEW b \in Nat, NEW size \in Nat
  PROVE  LET e == ExtentOf(b, BlockSize, size)
         IN  /\ BlockSize \in Nat \ {0} /\ e.offset = b * BlockSize /\ e.offset \in Nat
             /\ e.length \in Nat /\ e.length <= BlockSize
             /\ \A x \in Nat : e.offset <= x /\ x < e.offset + BlockSize /\ x < size
                                 => x < e.offset + e.length
<1> DEFINE start == b * BlockSize
           e == ExtentOf(b, BlockSize, size)
<1>1. BlockSize \in Nat \ {0}
  BY ReaderAssumption, Zenon
<1>2. start \in Nat
  BY <1>1, SMT
<1>3. /\ e.offset = start
      /\ e.length = IF start >= size THEN 0
                    ELSE IF size - start < BlockSize THEN size - start ELSE BlockSize
  BY Zenon DEF ExtentOf
<1> HIDE DEF e
<1>4. e.offset = b * BlockSize
  BY <1>3, Zenon
<1> HIDE DEF start
<1> QED BY <1>1, <1>2, <1>3, <1>4 DEF e

\* No byte is in two blocks.
LEMMA ExtentsApart ==
  ASSUME NEW s \in ReadState, NEW a \in AssetType, NEW b \in Nat, NEW c \in Nat, b # c
  PROVE  Overlap(s, a, b) \cap Overlap(s, a, c) = {}
<1> DEFINE e(d) == ExtentOf(d, BlockSize, a.size)
<1>1. a.size \in Nat /\ Byte \subseteq Nat
  BY ReaderAssumption, Zenon DEF AssetType
<1>2. ASSUME NEW d \in Nat
      PROVE  /\ BlockSize \in Nat \ {0} /\ e(d).offset = d * BlockSize /\ e(d).offset \in Nat
             /\ e(d).length \in Nat /\ e(d).length <= BlockSize
  BY <1>1, ExtentIs, Zenon
<1>3. ASSUME NEW d \in Nat, NEW f \in Nat, d < f PROVE e(d).offset + BlockSize <= e(f).offset
  <2>1. BlockSize \in Nat /\ e(d).offset = d * BlockSize /\ e(f).offset = f * BlockSize
    BY <1>2, Zenon
  <2>2. PICK g \in Nat : f = d + 1 + g
    <3>1. f - d - 1 \in Nat /\ f = d + 1 + (f - d - 1)
      BY <1>3
    <3> QED BY <3>1, Zenon
  <2>3. f * BlockSize = d * BlockSize + BlockSize + g * BlockSize
    BY <2>1, <2>2, SMT
  <2>4. g * BlockSize \in Nat /\ d * BlockSize \in Nat
    BY <2>1, SMT
  <2> QED BY <2>1, <2>3, <2>4
<1>4. ASSUME NEW d \in Nat, NEW f \in Nat, d < f,
             NEW x \in Overlap(s, a, d) \cap Overlap(s, a, f)
      PROVE  FALSE
  <2>1. x \in Nat /\ x < e(d).offset + e(d).length /\ e(f).offset <= x
    BY <1>1, <1>4, Zenon DEF Overlap
  <2>2. e(d).offset + BlockSize <= e(f).offset
    BY <1>3, <1>4, Zenon
  <2>3. e(d).offset \in Nat /\ e(f).offset \in Nat /\ e(d).length \in Nat /\ BlockSize \in Nat
        /\ e(d).length <= BlockSize
    BY <1>2, Zenon
  <2> HIDE DEF e
  <2> QED BY <2>1, <2>2, <2>3
<1>5. b < c \/ c < b
  OBVIOUS
<1> QED BY <1>4, <1>5, Zenon

\* The quotient of a byte by the block size is the block that holds it.
LEMMA Quotient ==
  ASSUME NEW x \in Nat
  PROVE  /\ x \div BlockSize \in Nat
         /\ (x \div BlockSize) * BlockSize <= x
         /\ x < (x \div BlockSize) * BlockSize + BlockSize
<1>1. BlockSize \in Nat \ {0}
  BY ReaderAssumption, Zenon
<1> QED BY <1>1, SMT

\* Bytes in order are in blocks in order.
LEMMA QuotientAscends ==
  ASSUME NEW x \in Nat, NEW y \in Nat, x <= y
  PROVE  x \div BlockSize <= y \div BlockSize
<1> DEFINE p == x \div BlockSize
           q == y \div BlockSize
<1>1. BlockSize \in Nat \ {0}
  BY ReaderAssumption, Zenon
<1>2. p \in Nat /\ q \in Nat /\ p * BlockSize <= x /\ y < q * BlockSize + BlockSize
  BY Quotient, Zenon
<1> HIDE DEF p, q
<1>3. SUFFICES ASSUME q < p PROVE FALSE
  BY <1>2 DEF p, q
<1>4. PICK g \in Nat : p = q + 1 + g
  <2>1. p - q - 1 \in Nat /\ p = q + 1 + (p - q - 1)
    BY <1>2, <1>3
  <2> QED BY <2>1, Zenon
<1>5. p * BlockSize = q * BlockSize + BlockSize + g * BlockSize
  BY <1>1, <1>2, <1>4, SMT
<1>6. g * BlockSize \in Nat /\ q * BlockSize \in Nat /\ p * BlockSize \in Nat
  BY <1>1, <1>2, SMT
<1> QED BY <1>1, <1>2, <1>5, <1>6

\* Every byte of the range is in a block of its span.
LEMMA SpanReaches ==
  ASSUME NEW s \in ReadState, NEW a \in Asset, Fits(s, a), NEW x \in Byte, Within(s, x)
  PROVE  \E b \in Block \cap SpanOf(s) : x \in Overlap(s, a, b)
<1> DEFINE b == x \div BlockSize
           e == ExtentOf(b, BlockSize, a.size)
<1>1. /\ a \in AssetType /\ a.size \in Nat /\ x \in Nat /\ s.offset \in Nat /\ s.length \in Nat
      /\ BlockSize \in Nat \ {0}
  BY ReaderAssumption, Zenon DEF AssetType, ReadState
<1>2. /\ s.offset <= x /\ x <= s.offset + s.length - 1 /\ s.offset + s.length - 1 \in Nat
      /\ x < a.size
  BY <1>1 DEF Fits, Within
<1>3. b \in Nat /\ b * BlockSize <= x /\ x < b * BlockSize + BlockSize
  BY <1>1, Quotient, Zenon
<1>4. s.offset \div BlockSize <= b /\ b <= (s.offset + s.length - 1) \div BlockSize
  BY <1>1, <1>2, QuotientAscends, Zenon
<1>5. s.offset \div BlockSize \in Nat /\ (s.offset + s.length - 1) \div BlockSize \in Nat
  BY <1>1, <1>2, Quotient, Zenon
<1>6. b \in Block
  <2>1. x \in 0 .. a.size - 1
    BY <1>1, <1>2
  <2> QED BY <2>1, CoverAssumption, Zenon
<1> HIDE DEF b
<1>7. b \in SpanOf(s)
  BY <1>3, <1>4, <1>5 DEF SpanOf, CoveringBlocks
<1>8. e.offset <= x /\ x < e.offset + e.length
  <2>1. e.offset = b * BlockSize
    BY <1>1, <1>3, ExtentIs, Zenon
  <2> QED BY <1>1, <1>2, <1>3, <2>1, ExtentIs, Zenon
<1>9. x \in Overlap(s, a, b)
  BY <1>8, Zenon DEF Overlap
<1> QED BY <1>6, <1>7, <1>9, Zenon

\* The span of a range that fits is finite and made of blocks.
LEMMA SpanType ==
  ASSUME FiniteLaws, NEW s \in ReadState, NEW a \in Asset, Fits(s, a)
  PROVE  SpanOf(s) \subseteq Block /\ IsFiniteSet(SpanOf(s))
<1> DEFINE low  == s.offset \div BlockSize
           end  == s.offset + s.length - 1
           high == end \div BlockSize
<1>1. /\ a \in AssetType /\ a.size \in Nat /\ s.offset \in Nat /\ s.length \in Nat
      /\ BlockSize \in Nat \ {0}
  BY ReaderAssumption, Zenon DEF AssetType, ReadState
<1>2. end \in Nat /\ end < a.size
  BY <1>1 DEF Fits
<1>3. low \in Nat /\ high \in Nat /\ high * BlockSize <= end
  BY <1>1, <1>2, Quotient, Zenon
<1> HIDE DEF low, high, end
<1>4. SpanOf(s) = low .. high
  BY Zenon DEF SpanOf, CoveringBlocks, low, high, end
<1>5. IsFiniteSet(low .. high)
  BY <1>3, FiniteInterval
<1>6. ASSUME NEW b \in low .. high PROVE b \in Block
  <2>1. b \in Nat /\ b <= high
    BY <1>3
  <2>2. PICK g \in Nat : high = b + g
    <3>1. high - b \in Nat /\ high = b + (high - b)
      BY <1>3, <2>1
    <3> QED BY <3>1, Zenon
  <2>3. high * BlockSize = b * BlockSize + g * BlockSize /\ g * BlockSize \in Nat
        /\ b * BlockSize \in Nat
    BY <1>1, <2>1, <2>2, SMT
  <2>4. b * BlockSize \in 0 .. a.size - 1
    BY <1>1, <1>2, <1>3, <2>3
  <2>5. (b * BlockSize) \div BlockSize = b
    BY <1>1, <2>1, SMT
  <2> QED BY <2>4, <2>5, CoverAssumption, Zenon
<1> QED BY <1>4, <1>5, <1>6, Zenon

------------------------------------------------------------------------------
\* What is true of a read in progress.

\* Still in the acquisition loop, or to go on with it.
Sifts(s) == s.pc \in {"acquire", "mismatch"} \/ (s.pc = "abandon" /\ s.after = "mismatch")

\* A block is to be visited, owned, busy or resolved, and never two of these as
\* long as it matters; the fallback visits all that is not resolved.
SetsOK(s) ==
  /\ s.todo \cup s.owned \cup s.busy \cup s.resolved \subseteq SpanOf(s)
  /\ s.owned \cap s.resolved = {}
  /\ Sifts(s) => s.todo \cap (s.owned \cup s.busy \cup s.resolved) = {}
  /\ Sifts(s) \/ s.pc \in {"load", "fetch", "publish"} => s.busy \cap (s.owned \cup s.resolved) = {}
  /\ s.pc \in {"await", "fallback"} => s.todo \cap s.resolved = {}
  /\ s.pc = "fallback" => Block \cap SpanOf(s) \subseteq s.resolved \cup s.todo
  /\ s.pc = "bypass" => s.resolved = {}

\* The requests rs still to be issued reach every owned block that the last one
\* did not, and go upwards from it; nothing is owned once they are all issued.
Planned(s, rs) ==
  /\ s.pc \in {"fetch", "publish"} => Ascends(rs)
  /\ s.pc = "fetch" => \A b \in s.owned : \E i \in 1 .. Len(rs) : Reaches(rs[i], b)
  /\ s.pc = "publish" =>
       \A b \in s.owned : \/ b \in s.fetched
                          \/ /\ \A c \in s.fetched : c < b
                             /\ \E i \in 1 .. Len(rs) : Reaches(rs[i], b)
  /\ s.pc = "await" => s.owned = {}

\* The caller's buffer holds the resolved blocks' bytes, of the reader's revision.
Written(s) == {x \in Byte : s.dst[x] # NoRev}
BufferOK(s, a) ==
  /\ \A x \in Written(s) : s.dst[x] = a.rev /\ Within(s, x)
  /\ \A b \in s.resolved : \A x \in Overlap(s, a, b) : s.dst[x] = a.rev
  /\ s.pc # "return" => \A x \in Written(s) : \E b \in s.resolved : x \in Overlap(s, a, b)

\* Success is told once, with every byte of the range written.
DoneOK(s, a) ==
  /\ s.pc # "return" => s.result # "ok"
  /\ s.pc = "return" /\ s.result = "ok" =>
       /\ \A x \in Byte : Within(s, x) => s.dst[x] = a.rev
       /\ s.resolved # {} => s.resolved = SpanOf(s)

\* The counters: bytes written, and blocks resolved.
CountOK(s, c) ==
  /\ c \in [served : Nat, hits : Nat, misses : Nat]
  /\ c.hits + c.misses = Cardinality(s.resolved)
  /\ s.pc # "return" => c.served = Cardinality(Written(s))
  /\ s.result # "short"

ReadGood(s, a, rs, c) ==
  Fits(s, a) /\ SetsOK(s) /\ Planned(s, rs) /\ BufferOK(s, a) /\ DoneOK(s, a) /\ CountOK(s, c)

ThreadGood(t) ==
  /\ read[t].pc = "idle" => read[t] = NoRead /\ count[t] = NoCount
  /\ read[t].pc # "idle" => ReadGood(read[t], AssetOf(t), runs[t], count[t])

Good ==
  /\ runs = [t \in Thread |-> runs[t]] /\ count = [t \in Thread |-> count[t]]
  /\ \A t \in Thread : ThreadGood(t)

FInv == IInv /\ Shares /\ Faithful /\ Good

------------------------------------------------------------------------------
\* How the parts fare when a step changes only some fields.
Keeps(s, n) == n.reader = s.reader /\ n.offset = s.offset /\ n.length = s.length
Still(s, n) == Keeps(s, n) /\ n.resolved = s.resolved /\ n.dst = s.dst

\* A step that writes no byte and tells no success.
LEMMA CopiesNothing ==
  ASSUME NEW s \in ReadState, NEW n \in ReadState, NEW a, NEW c,
         Still(s, n),
         s.pc # "return", n.result \in {s.result, "error", "threw"},
         Fits(s, a), BufferOK(s, a), DoneOK(s, a), CountOK(s, c)
  PROVE  Fits(n, a) /\ BufferOK(n, a) /\ DoneOK(n, a) /\ CountOK(n, c)
<1>1. /\ n.offset = s.offset /\ n.length = s.length /\ n.resolved = s.resolved
      /\ n.dst = s.dst
  BY Zenon DEF Still, Keeps
<1>2. Fits(n, a)
  BY <1>1, Zenon DEF Fits
<1>3. /\ \A x : Within(n, x) <=> Within(s, x)
      /\ \A b : Overlap(n, a, b) = Overlap(s, a, b)
      /\ Written(n) = Written(s)
  BY <1>1, Zenon DEF Within, Overlap, Written
<1>4. BufferOK(n, a)
  BY <1>1, <1>3 DEF BufferOK
<1>5. n.result # "ok" /\ n.result # "short"
  BY Zenon DEF DoneOK, CountOK
<1>6. DoneOK(n, a)
  BY <1>5, Zenon DEF DoneOK
<1>7. CountOK(n, c)
  BY <1>1, <1>3, <1>5, Zenon DEF CountOK
<1> QED BY <1>2, <1>4, <1>6, <1>7, Zenon

\* A step that copies block b of the right revision, not resolved before, and
\* counts it.
LEMMA CopiesBlock ==
  ASSUME FiniteLaws, NEW s \in ReadState, NEW n \in ReadState, NEW a \in Asset, NEW b \in Block \ s.resolved,
         NEW c, NEW d,
         Keeps(s, n), n.result = s.result,
         n.resolved = s.resolved \cup {b},
         n.dst = [x \in Byte |-> IF x \in Overlap(s, a, b) THEN a.rev ELSE s.dst[x]],
         s.pc # "return", n.pc # "return", b \in SpanOf(s),
         SetsOK(s), Fits(s, a), BufferOK(s, a), DoneOK(s, a), CountOK(s, c),
         d \in [served : Nat, hits : Nat, misses : Nat],
         d.served = c.served + Cardinality(Overlap(s, a, b)),
         d.hits + d.misses = c.hits + c.misses + 1
  PROVE  Fits(n, a) /\ BufferOK(n, a) /\ DoneOK(n, a) /\ CountOK(n, d)
<1>1. n.offset = s.offset /\ n.length = s.length /\ n.result = s.result
  BY Zenon DEF Keeps
<1>2. Fits(n, a)
  BY <1>1, Zenon DEF Fits
<1>3. /\ \A x : Within(n, x) <=> Within(s, x)
      /\ \A i : Overlap(n, a, i) = Overlap(s, a, i)
  BY <1>1, Zenon DEF Within, Overlap
<1>4. a \in AssetType /\ a.rev \in Rev /\ a.rev # NoRev
  BY ReaderAssumption, CacheAssumption, Zenon DEF AssetType
<1>5. \A x \in Byte : n.dst[x] = IF x \in Overlap(s, a, b) THEN a.rev ELSE s.dst[x]
  BY Zenon
<1>6. Overlap(s, a, b) \subseteq Byte /\ \A x \in Overlap(s, a, b) : Within(s, x)
  BY Zenon DEF Overlap
<1>7. Written(n) = Written(s) \cup Overlap(s, a, b)
  BY <1>4, <1>5, <1>6, Zenon DEF Written
<1>8. Written(s) \cap Overlap(s, a, b) = {}
  <2>1. SUFFICES ASSUME NEW x \in Written(s) \cap Overlap(s, a, b) PROVE FALSE
    BY Zenon
  <2>2. PICK i \in s.resolved : x \in Overlap(s, a, i)
    BY <2>1, Zenon DEF BufferOK
  <2>3. i # b /\ i \in Nat /\ b \in Nat
    BY <2>2, CacheAssumption, Zenon DEF ReadState
  <2> QED BY <1>4, <2>1, <2>2, <2>3, ExtentsApart, Zenon
<1>9. BufferOK(n, a)
  <2>1. \A x \in Written(n) : n.dst[x] = a.rev /\ Within(n, x)
    BY <1>3, <1>5, <1>6, <1>7, Zenon DEF BufferOK, Written
  <2>2. \A i \in n.resolved : \A x \in Overlap(n, a, i) : n.dst[x] = a.rev
    <3> SUFFICES ASSUME NEW i \in s.resolved \cup {b}, NEW x \in Overlap(s, a, i)
                 PROVE  n.dst[x] = a.rev
      BY <1>3, Zenon
    <3>1. x \in Byte
      BY Zenon DEF Overlap
    <3> QED BY <1>5, <3>1, Zenon DEF BufferOK
  <2>3. \A x \in Written(n) : \E i \in n.resolved : x \in Overlap(n, a, i)
    BY <1>3, <1>7 DEF BufferOK
  <2> QED BY <2>1, <2>2, <2>3, Zenon DEF BufferOK
<1>10. DoneOK(n, a)
  BY <1>1, Zenon DEF DoneOK
<1>11. CountOK(n, d)
  <2>1. Cardinality(n.resolved) = Cardinality(s.resolved) + 1
    <3>1. IsFiniteSet(SpanOf(s)) /\ s.resolved \in SUBSET SpanOf(s)
      BY SpanType, Zenon DEF SetsOK
    <3>2. IsFiniteSet(s.resolved)
      BY <3>1, FiniteSubset, Zenon
    <3>3. PICK S : S = s.resolved
      BY Zenon
    <3>4. Cardinality(S \cup {b}) = Cardinality(S) + 1
      BY <3>2, <3>3, FiniteAdd, Zenon
    <3> QED BY <3>3, <3>4, Zenon
  <2>2. Cardinality(Written(n)) = Cardinality(Written(s)) + Cardinality(Overlap(s, a, b))
    <3>1. s.offset \in Nat /\ s.length \in Nat /\ Byte \subseteq Nat
      BY ReaderAssumption, Zenon DEF ReadState
    <3> DEFINE range == s.offset .. s.offset + s.length
    <3>2. IsFiniteSet(range)
      <4>1. PICK low, high \in Int : low = s.offset /\ high = s.offset + s.length
        BY <3>1
      <4> QED BY <4>1, FiniteInterval, Zenon
    <3>3. Written(s) \subseteq range /\ Overlap(s, a, b) \subseteq range
      <4>1. \A x \in Byte : Within(s, x) => x \in range
        BY <3>1 DEF Within
      <4>2. \A x \in Written(s) : x \in Byte /\ Within(s, x)
        BY Zenon DEF BufferOK, Written
      <4> HIDE DEF range
      <4> QED BY <1>6, <4>1, <4>2, Zenon
    <3>4. IsFiniteSet(Written(s)) /\ IsFiniteSet(Overlap(s, a, b))
      <4> HIDE DEF range
      <4> QED BY <3>2, <3>3, FiniteSubset, Zenon
    <3>5. Cardinality(Written(s) \cup Overlap(s, a, b))
            = Cardinality(Written(s)) + Cardinality(Overlap(s, a, b))
                - Cardinality(Written(s) \cap Overlap(s, a, b))
      BY <3>4, FiniteUnion, Zenon
    <3>6. Cardinality(Written(s)) \in Nat /\ Cardinality(Overlap(s, a, b)) \in Nat
      BY <3>4, FiniteEmpty, Zenon
    <3>7. Cardinality(Written(s) \cap Overlap(s, a, b)) = 0
      BY <1>8, FiniteEmpty, Zenon
    <3> QED BY <1>7, <3>5, <3>6, <3>7
  <2>3. n.result # "short" /\ c.served = Cardinality(Written(s))
        /\ c.hits + c.misses = Cardinality(s.resolved)
    BY <1>1, Zenon DEF CountOK
  <2> QED BY <2>1, <2>2, <2>3, Zenon DEF CountOK
<1> QED BY <1>2, <1>9, <1>10, <1>11, Zenon

\* A thread in a read, with all that is known of it.
LEMMA Local ==
  ASSUME IInv, Good, NEW t \in Thread, read[t].pc # "idle"
  PROVE  /\ read[t] \in ReadState /\ AssetOf(t) \in Asset /\ OwnsOK(read[t])
         /\ ReadGood(read[t], AssetOf(t), runs[t], count[t])
<1>1. read[t] \in ReadState /\ OwnsOK(read[t]) /\ read[t].reader \in Reader
  BY ReadType, ReadingThread, Zenon DEF IInv, ReadsOK, ReadOK
<1>2. AssetOf(t) \in Asset
  BY <1>1, Zenon DEF IInv, TypeOK, ReaderState, AssetOf
<1> QED BY <1>1, <1>2, Zenon DEF Good, ThreadGood

\* What is copied is the overlap of the block with the range.
LEMMA CopyIsOverlap ==
  ASSUME NEW t, NEW b
  PROVE  CopyOverlap(t, b) = Overlap(read[t], AssetOf(t), b)
  BY Zenon DEF CopyOverlap, Overlap, InRange, Within, Extent

\* One thread's read goes on to n: it starts, keeps its reader and its range, or
\* is over; and nothing else moves.
Goes(t, n) ==
  \/ read[t].pc = "idle" /\ n.pc \notin {"idle", "return"} /\ n.reader \in Reader
  \/ read[t].pc \notin {"idle", "return"} /\ n.pc # "idle" /\ Keeps(read[t], n)
  \/ read[t].pc = "return" /\ n = NoRead
Moves(t) ==
  /\ UNCHANGED reader
  /\ \A u \in Thread : u # t => read'[u] = read[u]
  /\ Goes(t, read'[t])

\* The other threads do not see what one thread does.
LEMMA OthersKept ==
  ASSUME IInv, Good, NEW t \in Thread, UNCHANGED reader,
         NEW n, Becomes(t, n), Goes(t, n),
         NEW rs, runs' = [runs EXCEPT ![t] = rs] \/ (UNCHANGED runs /\ rs = runs[t]),
         NEW c, count' = [count EXCEPT ![t] = c] \/ (UNCHANGED count /\ c = count[t]),
         n.pc = "idle" => n = NoRead /\ c = NoCount,
         n.pc # "idle" => ReadGood(n, reader[n.reader].asset, rs, c)
  PROVE  Good' /\ Moves(t)
<1>1. DOMAIN read = Thread
  BY Zenon DEF IInv, TypeOK
<1>2. DOMAIN runs = Thread /\ DOMAIN count = Thread
  BY Zenon DEF Good
<1>3. /\ runs' = [u \in Thread |-> runs'[u]] /\ count' = [u \in Thread |-> count'[u]]
      /\ runs'[t] = rs /\ count'[t] = c
      /\ \A u \in Thread \ {t} : runs'[u] = runs[u] /\ count'[u] = count[u]
  BY <1>2, Zenon DEF Good
<1>4. read'[t] = n /\ \A u \in Thread \ {t} : read'[u] = read[u]
  BY <1>1, Zenon DEF Becomes
<1>5. ThreadGood(t)'
  BY <1>3, <1>4, Zenon DEF ThreadGood, AssetOf
<1>6. ASSUME NEW u \in Thread \ {t} PROVE ThreadGood(u)'
  BY <1>3, <1>4, Zenon DEF ThreadGood, AssetOf, Good
<1>7. Moves(t)
  BY <1>4, Zenon DEF Moves
<1> QED BY <1>3, <1>5, <1>6, <1>7, Zenon DEF Good

\* A step of a read that copies nothing keeps the sets and the plan in order.
LEMMA PlainStep ==
  ASSUME IInv, IInv', Good, NEW t \in Thread, read[t].pc # "idle", read[t].pc # "return",
         UNCHANGED <<reader, count>>,
         NEW n, Becomes(t, n), n.pc # "idle", Still(read[t], n),
         n.result \in {read[t].result, "error", "threw"},
         NEW rs, runs' = [runs EXCEPT ![t] = rs] \/ (UNCHANGED runs /\ rs = runs[t]),
         SetsOK(n), Planned(n, rs)
  PROVE  Good' /\ Moves(t)
<1>1. PICK s, a, c : s = read[t] /\ a = AssetOf(t) /\ c = count[t]
  BY Zenon
<1>2. s \in ReadState /\ ReadGood(s, a, runs[t], c)
  BY <1>1, Local, Zenon
<1>3. n \in ReadState
  <2>1. DOMAIN read = Thread /\ read' \in [Thread -> ReadState]
    BY Zenon DEF IInv, TypeOK
  <2> QED BY <2>1, Zenon DEF Becomes
<1>4. ReadGood(n, a, rs, c)
  BY <1>1, <1>2, <1>3, CopiesNothing, Zenon DEF ReadGood
<1>5. a = reader[n.reader].asset
  BY <1>1, Zenon DEF Still, Keeps, AssetOf
<1>6. Goes(t, n)
  BY Zenon DEF Goes, Still
<1> QED BY <1>1, <1>4, <1>5, <1>6, OthersKept, Zenon

\* A step of a read that copies block b, of the reader's revision, and counts it.
Copies(t, b, rev, source, n) ==
  /\ read[t].pc \notin {"idle", "return"} /\ n.pc \notin {"idle", "return"}
  /\ UNCHANGED <<reader, runs>>
  /\ b \in SpanOf(read[t]) /\ b \notin read[t].resolved
  /\ rev = AssetOf(t).rev
  /\ source \in {"hits", "misses"} /\ Count(t, b, source)
  /\ Becomes(t, n) /\ Keeps(read[t], n) /\ n.result = read[t].result
  /\ n.dst = Copied(t, b, rev).dst /\ n.resolved = Copied(t, b, rev).resolved

\* It keeps the buffer and the counters right.
LEMMA CopyStep ==
  ASSUME FiniteLaws, IInv, IInv', Good, NEW t \in Thread, NEW b, NEW rev, NEW source, NEW n,
         Copies(t, b, rev, source, n), SetsOK(n), Planned(n, runs[t])
  PROVE  Good' /\ Moves(t)
<1> USE DEF Copies
<1>1. PICK s, a, c : s = read[t] /\ a = AssetOf(t) /\ c = count[t]
  BY Zenon
<1>2. s \in ReadState /\ a \in Asset /\ ReadGood(s, a, runs[t], c)
  BY <1>1, Local, Zenon
<1>3. n \in ReadState
  <2>1. DOMAIN read = Thread /\ read' \in [Thread -> ReadState]
    BY Zenon DEF IInv, TypeOK
  <2> QED BY <2>1, Zenon DEF Becomes
<1>4. n.resolved = s.resolved \cup {b}
      /\ n.dst = [x \in Byte |-> IF x \in Overlap(s, a, b) THEN a.rev ELSE s.dst[x]]
  BY <1>1, <1>2, CopyIsOverlap, Zenon DEF Copied, ReadState
<1>5. b \in Block /\ b \in SpanOf(s)
  BY <1>1, <1>2, SpanType, Zenon DEF ReadGood
<1> DEFINE d == [c EXCEPT !.served = @ + Cardinality(Overlap(s, a, b)), ![source] = @ + 1]
<1>6. c \in [served : Nat, hits : Nat, misses : Nat]
  BY <1>2, Zenon DEF ReadGood, CountOK
<1>7. Cardinality(Overlap(s, a, b)) \in Nat
  <2>1. s.offset \in Nat /\ s.length \in Nat /\ Byte \subseteq Nat
    BY <1>2, ReaderAssumption, Zenon DEF ReadState
  <2>2. PICK low, high \in Int : low = s.offset /\ high = s.offset + s.length
    BY <2>1
  <2>3. IsFiniteSet(low .. high)
    BY FiniteInterval, Zenon
  <2>4. Overlap(s, a, b) \subseteq low .. high
    <3>1. \A x \in Byte : Within(s, x) => x \in low .. high
      BY <2>1, <2>2 DEF Within
    <3> QED BY <3>1, Zenon DEF Overlap
  <2>5. IsFiniteSet(Overlap(s, a, b))
    BY <2>3, <2>4, FiniteSubset, Zenon
  <2> QED BY <2>5, FiniteEmpty, Zenon
<1>8. /\ d \in [served : Nat, hits : Nat, misses : Nat]
      /\ d.served = c.served + Cardinality(Overlap(s, a, b))
      /\ d.hits + d.misses = c.hits + c.misses + 1
  <2>1. PICK z \in Nat : z = Cardinality(Overlap(s, a, b))
    BY <1>7, Zenon
  <2>2. d = [c EXCEPT !.served = @ + z, ![source] = @ + 1]
    BY <2>1, Zenon
  <2> HIDE DEF d
  <2>3. d \in [served : Nat, hits : Nat, misses : Nat]
        /\ d.served = c.served + z /\ d.hits + d.misses = c.hits + c.misses + 1
    <3>1. CASE source = "hits"
      <4>1. d = [c EXCEPT !.served = @ + z, !.hits = @ + 1]
        BY <2>2, <3>1, Zenon
      <4>2. d = [served |-> c.served + z, hits |-> c.hits + 1, misses |-> c.misses]
        BY <1>6, <4>1, Zenon
      <4>3. c.served \in Nat /\ c.hits \in Nat /\ c.misses \in Nat
        BY <1>6, Zenon
      <4> QED BY <4>2, <4>3
    <3>2. CASE source = "misses"
      <4>1. d = [c EXCEPT !.served = @ + z, !.misses = @ + 1]
        BY <2>2, <3>2, Zenon
      <4>2. d = [served |-> c.served + z, hits |-> c.hits, misses |-> c.misses + 1]
        BY <1>6, <4>1, Zenon
      <4>3. c.served \in Nat /\ c.hits \in Nat /\ c.misses \in Nat
        BY <1>6
      <4> QED BY <4>2, <4>3
    <3> QED BY <3>1, <3>2, Zenon
  <2> QED BY <2>1, <2>3, Zenon
<1>9. count' = [count EXCEPT ![t] = d]
  <2>1. DOMAIN count = Thread
    BY Zenon DEF Good
  <2> QED BY <1>1, <2>1, CopyIsOverlap, Zenon DEF Count
<1> HIDE DEF d
<1>10. ReadGood(n, a, runs[t], d)
  <2>1. SetsOK(s) /\ Fits(s, a) /\ BufferOK(s, a) /\ DoneOK(s, a) /\ CountOK(s, c)
    BY <1>2, Zenon DEF ReadGood
  <2>2. Fits(n, a) /\ BufferOK(n, a) /\ DoneOK(n, a) /\ CountOK(n, d)
    BY <1>1, <1>2, <1>3, <1>4, <1>5, <1>8, <2>1, CopiesBlock, Zenon
  <2> QED BY <2>2, Zenon DEF ReadGood
<1>11. a = reader[n.reader].asset
  BY <1>1, Zenon DEF Keeps, AssetOf
<1>12. Goes(t, n)
  BY Zenon DEF Goes
<1> QED BY <1>9, <1>10, <1>11, <1>12, OthersKept, Zenon

------------------------------------------------------------------------------
\* The steps that copy nothing.

LEMMA AcquireOneGood ==
  ASSUME IInv, IInv', Good, NEW t \in Thread, AcquireOne(t)
  PROVE  Good' /\ Moves(t)
<1>1. PICK s : s = read[t]
  BY Zenon
<1>2. s \in ReadState /\ s.pc = "acquire" /\ SetsOK(s)
  BY <1>1, Local, Zenon DEF AcquireOne, ReadGood
<1>3. PICK b, n :
        /\ Becomes(t, n) /\ b \in s.todo
        /\ \/ n = [s EXCEPT !.todo = @ \ {b}, !.owned = @ \cup {b}]
           \/ n = [s EXCEPT !.todo = @ \ {b}, !.busy = @ \cup {b}]
  BY <1>1, Zenon DEF AcquireOne
<1>4. /\ n.pc = "acquire" /\ Still(s, n) /\ n.result = s.result
      /\ n.todo = s.todo \ {b}
      /\ \/ n.owned = s.owned \cup {b} /\ n.busy = s.busy
         \/ n.busy = s.busy \cup {b} /\ n.owned = s.owned
  BY <1>2, <1>3, Zenon DEF ReadState, Still, Keeps
<1>5. SpanOf(n) = SpanOf(s) /\ n.resolved = s.resolved
  BY <1>4, Zenon DEF SpanOf, Still, Keeps
<1>6. SetsOK(n)
  <2>1. CASE n.owned = s.owned \cup {b} /\ n.busy = s.busy
    BY <1>2, <1>3, <1>4, <1>5, <2>1 DEF SetsOK, Sifts
  <2>2. CASE n.busy = s.busy \cup {b} /\ n.owned = s.owned
    BY <1>2, <1>3, <1>4, <1>5, <2>2, Zenon DEF SetsOK, Sifts
  <2> QED BY <1>4, <2>1, <2>2, Zenon
<1>7. Planned(n, runs[t])
  BY <1>4, Zenon DEF Planned
<1> QED BY <1>1, <1>2, <1>3, <1>4, <1>6, <1>7, PlainStep, Zenon DEF AcquireOne

\* AbandonAll is entered with the blocks as they are.
LEMMA AbandonGood ==
  ASSUME IInv, IInv', Good, NEW t \in Thread, UNCHANGED <<reader, count>>, UNCHANGED runs,
         read[t].pc \notin {"idle", "return"},
         NEW next \in {"pass", "mismatch", "return"}, NEW how \in {read[t].result, "error", "threw"},
         next = "mismatch" => Sifts(read[t]),
         Becomes(t, [AbandonThen(t, next) EXCEPT !.result = how])
  PROVE  Good' /\ Moves(t)
<1>1. PICK s, n : s = read[t] /\ n = [[s EXCEPT !.pc = "abandon", !.after = next] EXCEPT !.result = how]
  BY Zenon
<1>2. s \in ReadState /\ SetsOK(s)
  BY <1>1, Local, Zenon DEF ReadGood
<1>3. /\ n.pc = "abandon" /\ n.after = next /\ Still(s, n) /\ n.result = how
      /\ n.todo = s.todo /\ n.owned = s.owned /\ n.busy = s.busy
  BY <1>1, <1>2, Zenon DEF ReadState, Still, Keeps
<1>4. SetsOK(n) /\ Planned(n, runs[t])
  BY <1>1, <1>2, <1>3, Zenon DEF SetsOK, Sifts, Planned, SpanOf, Still, Keeps
<1>5. Becomes(t, n)
  BY <1>1, Zenon DEF AbandonThen
<1> QED BY <1>1, <1>3, <1>4, <1>5, PlainStep, Zenon

LEMMA ThrowsGood ==
  ASSUME IInv, IInv', Good, NEW t \in Thread, Throws(t)
  PROVE  Good' /\ Moves(t)
  BY AbandonGood, Zenon DEF Throws, Leave

LEMMA AbandonThenGood ==
  ASSUME IInv, IInv', Good, NEW t \in Thread, HitMismatch(t) \/ AwaitEnd(t)
  PROVE  Good' /\ Moves(t)
<1>1. PICK next : /\ Becomes(t, AbandonThen(t, next))
                  /\ \/ read[t].pc = "acquire" /\ next = "mismatch"
                     \/ read[t].pc = "await" /\ next = "pass"
  BY Zenon DEF HitMismatch, AwaitEnd
<1>2. UNCHANGED <<reader, count>> /\ UNCHANGED runs
  BY Zenon DEF HitMismatch, AwaitEnd
<1>3. read[t] \in ReadState
  BY ReadType, Zenon
<1>4. AbandonThen(t, next) = [AbandonThen(t, next) EXCEPT !.result = read[t].result]
  <2>1. PICK m : m = AbandonThen(t, next)
    BY Zenon
  <2>2. m.result = read[t].result /\ m = [f \in DOMAIN m |-> m[f]]
    BY <1>3, <2>1, Zenon DEF AbandonThen, ReadState
  <2>3. m = [m EXCEPT !.result = m.result]
    BY <2>2, Zenon
  <2> QED BY <2>1, <2>2, <2>3, Zenon
<1>5. Becomes(t, [AbandonThen(t, next) EXCEPT !.result = read[t].result])
  BY <1>1, <1>4, Zenon
<1>6. next = "mismatch" => Sifts(read[t])
  BY <1>1, Zenon DEF Sifts
<1> QED BY <1>1, <1>2, <1>5, <1>6, AbandonGood, Zenon

LEMMA AbandonOneGood ==
  ASSUME IInv, IInv', Good, NEW t \in Thread, AbandonOne(t)
  PROVE  Good' /\ Moves(t)
<1>1. PICK s : s = read[t]
  BY Zenon
<1>2. s \in ReadState /\ s.pc = "abandon" /\ SetsOK(s)
  BY <1>1, Local, Zenon DEF AbandonOne, ReadGood
<1>3. PICK b, n : b \in s.owned /\ Becomes(t, n) /\ n = [s EXCEPT !.owned = @ \ {b}]
  BY <1>1, Zenon DEF AbandonOne
<1>4. /\ n.pc = "abandon" /\ n.after = s.after /\ Still(s, n) /\ n.result = s.result
      /\ n.todo = s.todo /\ n.owned = s.owned \ {b} /\ n.busy = s.busy
  BY <1>2, <1>3, Zenon DEF ReadState, Still, Keeps
<1>5. SetsOK(n) /\ Planned(n, runs[t])
  BY <1>2, <1>4, Zenon DEF SetsOK, Sifts, Planned, SpanOf, Still, Keeps
<1> QED BY <1>1, <1>2, <1>3, <1>4, <1>5, PlainStep, Zenon DEF AbandonOne

LEMMA AwaitMissGood ==
  ASSUME IInv, IInv', Good, NEW t \in Thread, AwaitMiss(t)
  PROVE  Good' /\ Moves(t)
<1>1. PICK s : s = read[t]
  OBVIOUS
<1>2. s \in ReadState /\ s.pc = "await" /\ SetsOK(s) /\ Planned(s, runs[t])
  BY <1>1, Local, Zenon DEF AwaitMiss, ReadGood
<1>3. PICK b, n : b \in s.todo /\ Becomes(t, n) /\ n = [s EXCEPT !.todo = @ \ {b}]
  BY <1>1, Zenon DEF AwaitMiss
<1>4. /\ n.pc = "await" /\ Still(s, n) /\ n.result = s.result
      /\ n.todo = s.todo \ {b} /\ n.owned = s.owned /\ n.busy = s.busy
  BY <1>2, <1>3, Zenon DEF ReadState, Still, Keeps
<1>5. SetsOK(n) /\ Planned(n, runs[t])
  BY <1>2, <1>4, Zenon DEF SetsOK, Sifts, Planned, SpanOf, Still, Keeps
<1> QED BY <1>1, <1>2, <1>3, <1>4, <1>5, PlainStep, Zenon DEF AwaitMiss

\* The next pass, and the fallback, visit what is not resolved.
LEMMA AbandonEndGood ==
  ASSUME IInv, IInv', Good, NEW t \in Thread, AbandonEnd(t)
  PROVE  Good' /\ Moves(t)
<1>1. PICK s, left : s = read[t] /\ left = Unresolved(t)
  BY Zenon
<1>2. s \in ReadState /\ s.pc = "abandon" /\ s.owned = {} /\ SetsOK(s)
  BY <1>1, Local, Zenon DEF AbandonEnd, ReadGood
<1>3. left = (Block \cap SpanOf(s)) \ s.resolved
  BY <1>1, Zenon DEF Unresolved, Span, SpanOf
<1>4. PICK n :
        /\ Becomes(t, n)
        /\ \/ s.after # "pass" /\ n = [s EXCEPT !.pc = s.after]
           \/ n = [[s EXCEPT !.todo = left, !.busy = {}] EXCEPT !.pc = "acquire", !.pass = @ + 1]
           \/ n = [[s EXCEPT !.todo = left, !.busy = {}] EXCEPT !.pc = "fallback"]
  BY <1>1, Zenon DEF AbandonEnd
<1>5. /\ Still(s, n) /\ n.result = s.result /\ n.owned = {}
      /\ \/ n.pc = s.after /\ s.after \in {"mismatch", "return"} /\ n.todo = s.todo /\ n.busy = s.busy
         \/ n.pc \in {"acquire", "fallback"} /\ n.todo = left /\ n.busy = {}
  <2>1. CASE s.after # "pass" /\ n = [s EXCEPT !.pc = s.after]
    BY <1>2, <2>1, Zenon DEF ReadState, Still, Keeps
  <2>2. CASE n = [[s EXCEPT !.todo = left, !.busy = {}] EXCEPT !.pc = "acquire", !.pass = @ + 1]
    BY <1>2, <2>2, Zenon DEF ReadState, Still, Keeps
  <2>3. CASE n = [[s EXCEPT !.todo = left, !.busy = {}] EXCEPT !.pc = "fallback"]
    BY <1>2, <2>3, Zenon DEF ReadState, Still, Keeps
  <2> QED BY <1>4, <2>1, <2>2, <2>3, Zenon
<1>6. SpanOf(n) = SpanOf(s)
  BY <1>5, Zenon DEF SpanOf, Still, Keeps
<1>7. SetsOK(n) /\ Planned(n, runs[t])
  BY <1>2, <1>3, <1>5, <1>6, Zenon DEF SetsOK, Sifts, Planned, Still
<1> QED BY <1>1, <1>2, <1>4, <1>5, <1>7, PlainStep, Zenon DEF AbandonEnd

\* The plan of a read's owned blocks is in order and leaves none out.
LEMMA OwnedPlanned ==
  ASSUME FiniteLaws, PlanLaw, NEW s \in ReadState, NEW a \in Asset, Fits(s, a), SetsOK(s), s.owned # {}, NEW rs,
         rs = PlanRuns(Ascending(s.owned), BlockSize, a.size, GapBlocks, MaxRequestBytes)
  PROVE  Ascends(rs) /\ \A b \in s.owned : \E i \in 1 .. Len(rs) : Reaches(rs[i], b)
<1>1. s.owned \in SUBSET Nat
  BY CacheAssumption, Zenon DEF ReadState
<1>2. IsFiniteSet(s.owned)
  <2>1. IsFiniteSet(SpanOf(s)) /\ s.owned \in SUBSET SpanOf(s)
    BY SpanType, Zenon DEF SetsOK
  <2> QED BY <2>1, FiniteSubset, Zenon
<1>3. /\ BlockSize \in Nat \ {0} /\ a.size \in Nat /\ GapBlocks \in Nat /\ MaxRequestBytes \in Nat
  BY ReaderAssumption, Zenon DEF AssetType
<1>4. PICK S, size : S = s.owned /\ size = a.size
  BY Zenon
<1>5. LET plan == PlanRuns(Ascending(S), BlockSize, size, GapBlocks, MaxRequestBytes)
      IN  Ascends(plan) /\ \A b \in S : \E i \in 1 .. Len(plan) : Reaches(plan[i], b)
  BY <1>1, <1>2, <1>3, <1>4, Zenon DEF PlanLaw
<1> QED BY <1>4, <1>5, Zenon

\* From the end of the acquisition, or of the loads, to what comes next.
LEMMA AfterLoadGood ==
  ASSUME FiniteLaws, PlanLaw, IInv, IInv', Good, NEW t \in Thread, read[t].pc \in {"acquire", "load"}, AfterLoad(t),
         UNCHANGED <<reader, count>>
  PROVE  Good' /\ Moves(t)
<1>1. PICK s, a, left : s = read[t] /\ a = AssetOf(t) /\ left = Unresolved(t)
  BY Zenon
<1>2. s \in ReadState /\ a \in Asset /\ Fits(s, a) /\ SetsOK(s) /\ s.pc \in {"acquire", "load"}
  BY <1>1, Local, Zenon DEF ReadGood
<1>3. left = (Block \cap SpanOf(s)) \ s.resolved
  BY <1>1, Zenon DEF Unresolved, Span, SpanOf
<1>4. s.busy \cap (s.owned \cup s.resolved) = {}
  BY <1>2, Zenon DEF SetsOK, Sifts
<1>5. CASE s.owned = {} /\ s.busy = {} /\ Becomes(t, [s EXCEPT !.pc = "fallback", !.todo = left])
           /\ UNCHANGED runs
  <2>1. PICK n : n = [s EXCEPT !.pc = "fallback", !.todo = left]
    BY Zenon
  <2>2. /\ n.pc = "fallback" /\ Still(s, n) /\ n.result = s.result
        /\ n.todo = left /\ n.owned = {} /\ n.busy = {}
    BY <1>2, <1>5, <2>1, Zenon DEF ReadState, Still, Keeps
  <2>3. SpanOf(n) = SpanOf(s) /\ n.resolved = s.resolved
    BY <2>2, Zenon DEF SpanOf, Still, Keeps
  <2>4. SetsOK(n) /\ Planned(n, runs[t])
    BY <1>2, <1>3, <2>2, <2>3, Zenon DEF SetsOK, Sifts, Planned
  <2> QED BY <1>1, <1>5, <2>1, <2>2, <2>4, PlainStep, Zenon
<1>6. CASE s.owned = {} /\ Becomes(t, [s EXCEPT !.pc = "await", !.todo = s.busy])
           /\ UNCHANGED runs
  <2>1. PICK n : n = [s EXCEPT !.pc = "await", !.todo = s.busy]
    BY Zenon
  <2>2. /\ n.pc = "await" /\ Still(s, n) /\ n.result = s.result
        /\ n.todo = s.busy /\ n.owned = {} /\ n.busy = s.busy
    BY <1>2, <1>6, <2>1, Zenon DEF ReadState, Still, Keeps
  <2>3. SpanOf(n) = SpanOf(s) /\ n.resolved = s.resolved
    BY <2>2, Zenon DEF SpanOf, Still, Keeps
  <2>4. SetsOK(n) /\ Planned(n, runs[t])
    BY <1>2, <1>4, <2>2, <2>3, Zenon DEF SetsOK, Sifts, Planned
  <2> QED BY <1>1, <1>6, <2>1, <2>2, <2>4, PlainStep, Zenon
<1>7. ASSUME s.owned # {}, Becomes(t, [s EXCEPT !.pc = "fetch"]),
             NEW rs, runs' = [runs EXCEPT ![t] = rs],
             rs = PlanRuns(Ascending(s.owned), BlockSize, a.size, GapBlocks, MaxRequestBytes)
      PROVE  Good' /\ Moves(t)
  <2>1. PICK n : n = [s EXCEPT !.pc = "fetch"]
    BY Zenon
  <2>2. /\ n.pc = "fetch" /\ Still(s, n) /\ n.result = s.result
        /\ n.todo = s.todo /\ n.owned = s.owned /\ n.busy = s.busy
    BY <1>2, <2>1, Zenon DEF ReadState, Still, Keeps
  <2>3. SpanOf(n) = SpanOf(s) /\ n.resolved = s.resolved
    BY <2>2, Zenon DEF SpanOf, Still, Keeps
  <2>4. SetsOK(n)
    BY <1>2, <1>4, <2>2, <2>3, Zenon DEF SetsOK, Sifts
  <2>5. Planned(n, rs)
    BY <1>2, <1>7, <2>2, OwnedPlanned, Zenon DEF Planned
  <2> QED BY <1>1, <1>7, <2>1, <2>2, <2>4, <2>5, PlainStep, Zenon
<1> QED BY <1>1, <1>5, <1>6, <1>7, Zenon DEF AfterLoad

LEMMA AcquireEndGood ==
  ASSUME FiniteLaws, PlanLaw, IInv, IInv', Good, NEW t \in Thread, AcquireEnd(t)
  PROVE  Good' /\ Moves(t)
<1>1. CASE Becomes(t, [read[t] EXCEPT !.pc = "load", !.todo = read[t].owned]) /\ UNCHANGED runs
  <2>1. PICK s, n : s = read[t] /\ n = [s EXCEPT !.pc = "load", !.todo = s.owned]
    BY Zenon
  <2>2. s \in ReadState /\ s.pc = "acquire" /\ SetsOK(s)
    BY <2>1, Local, Zenon DEF AcquireEnd, ReadGood
  <2>3. /\ n.pc = "load" /\ Still(s, n) /\ n.result = s.result
        /\ n.todo = s.owned /\ n.owned = s.owned /\ n.busy = s.busy
    BY <2>1, <2>2, Zenon DEF ReadState, Still, Keeps
  <2>4. SetsOK(n) /\ Planned(n, runs[t])
    BY <2>2, <2>3, Zenon DEF SetsOK, Sifts, Planned, SpanOf, Still, Keeps
  <2> QED BY <1>1, <2>1, <2>2, <2>3, <2>4, PlainStep, Zenon DEF AcquireEnd
<1>2. CASE AfterLoad(t)
  BY <1>2, AfterLoadGood, Zenon DEF AcquireEnd
<1> QED BY <1>1, <1>2, Zenon DEF AcquireEnd

LEMMA LoadEndGood ==
  ASSUME FiniteLaws, PlanLaw, IInv, IInv', Good, NEW t \in Thread, LoadEnd(t)
  PROVE  Good' /\ Moves(t)
  BY AfterLoadGood, Zenon DEF LoadEnd

\* All requests are issued, so nothing is owned when the waiting starts.
LEMMA FetchEndGood ==
  ASSUME IInv, IInv', Good, NEW t \in Thread, FetchEnd(t)
  PROVE  Good' /\ Moves(t)
<1>1. PICK s, n : s = read[t] /\ n = [s EXCEPT !.pc = "await", !.todo = s.busy]
  BY Zenon
<1>2. s \in ReadState /\ s.pc = "fetch" /\ SetsOK(s) /\ Planned(s, runs[t]) /\ runs[t] = <<>>
  BY <1>1, Local, Zenon DEF FetchEnd, ReadGood
<1>3. s.owned = {}
  BY <1>2 DEF Planned
<1>4. /\ n.pc = "await" /\ Still(s, n) /\ n.result = s.result
      /\ n.todo = s.busy /\ n.owned = {} /\ n.busy = s.busy
  BY <1>1, <1>2, <1>3, Zenon DEF ReadState, Still, Keeps
<1>5. SetsOK(n) /\ Planned(n, runs[t])
  BY <1>2, <1>4, Zenon DEF SetsOK, Sifts, Planned, SpanOf, Still, Keeps
<1>6. Becomes(t, n)
  BY <1>1, Zenon DEF FetchEnd
<1> QED BY <1>1, <1>2, <1>4, <1>5, <1>6, PlainStep, Zenon DEF FetchEnd

\* What a request transfers, and what the rest of the plan is left to reach.
LEMMA RunIssued ==
  ASSUME NEW s \in ReadState, NEW rs, Ascends(rs), rs # <<>>,
         \A b \in s.owned : \E i \in 1 .. Len(rs) : Reaches(rs[i], b),
         NEW n, n.owned = s.owned, n.pc = "publish",
         n.fetched = {b \in Block : rs[1].firstBlock <= b /\ b <= LastBlock(rs[1])}
  PROVE  Planned(n, Tail(rs))
<1>1. rs \in Seq(Run) /\ Len(rs) \in Nat \ {0}
  BY DEF Ascends
<1>2. /\ Tail(rs) \in Seq(Run) /\ Len(Tail(rs)) = Len(rs) - 1
      /\ \A i \in 1 .. Len(rs) - 1 : Tail(rs)[i] = rs[i + 1]
  BY <1>1
<1>3. Ascends(Tail(rs))
  <2> SUFFICES ASSUME NEW i \in 1 .. Len(Tail(rs)), NEW j \in 1 .. Len(Tail(rs)), i < j
               PROVE  LastBlock(Tail(rs)[i]) < Tail(rs)[j].firstBlock
    BY <1>2, Zenon DEF Ascends
  <2>1. i + 1 \in 1 .. Len(rs) /\ j + 1 \in 1 .. Len(rs) /\ i + 1 < j + 1
    BY <1>1, <1>2
  <2>2. LastBlock(rs[i + 1]) < rs[j + 1].firstBlock
    BY <2>1, Zenon DEF Ascends
  <2> QED BY <1>1, <1>2, <2>2, Zenon
<1>4. ASSUME NEW b \in n.owned
      PROVE  \/ b \in n.fetched
             \/ /\ \A c \in n.fetched : c < b
                /\ \E i \in 1 .. Len(Tail(rs)) : Reaches(Tail(rs)[i], b)
  <2>1. b \in Block /\ b \in Nat /\ Block \subseteq Nat
    BY CacheAssumption, Zenon DEF ReadState
  <2>2. PICK i \in 1 .. Len(rs) : Reaches(rs[i], b)
    BY Zenon
  <2>3. CASE i = 1
    BY <2>1, <2>2, <2>3, Zenon DEF Reaches
  <2>4. CASE i # 1
    <3>1. 1 \in 1 .. Len(rs) /\ 1 < i /\ i - 1 \in 1 .. Len(Tail(rs)) /\ Tail(rs)[i - 1] = rs[i]
      BY <1>1, <1>2, <2>4
    <3>2. LastBlock(rs[1]) < rs[i].firstBlock
      BY <3>1, Zenon DEF Ascends
    <3>3. LastBlock(rs[1]) \in Int /\ rs[i].firstBlock \in Nat
      <4>1. rs[1] \in Run /\ rs[i] \in Run
        BY <1>1, <3>1
      <4> QED BY <4>1 DEF Run, LastBlock
    <3>4. ASSUME NEW c \in n.fetched PROVE c < b
      <4>1. c \in Nat /\ c <= LastBlock(rs[1])
        BY <2>1, <3>4, Zenon
      <4>2. rs[i].firstBlock <= b
        BY <2>2, Zenon DEF Reaches
      <4> QED BY <2>1, <3>2, <3>3, <4>1, <4>2
    <3> QED BY <2>2, <3>1, <3>4, Zenon
  <2> QED BY <2>3, <2>4, Zenon
<1> QED BY <1>3, <1>4, Zenon DEF Planned

LEMMA FetchOneGood ==
  ASSUME IInv, IInv', Good, NEW t \in Thread, FetchOne(t)
  PROVE  Good' /\ Moves(t)
<1>1. PICK s, rs : s = read[t] /\ rs = runs[t]
  BY Zenon
<1>2. s \in ReadState /\ s.pc = "fetch" /\ SetsOK(s) /\ Planned(s, rs) /\ rs # <<>>
  BY <1>1, Local, Zenon DEF FetchOne, ReadGood
<1>3. CASE Becomes(t, Leave(t, "error")) /\ UNCHANGED runs
  BY <1>3, AbandonGood, Zenon DEF FetchOne, Leave
<1>4. ASSUME NEW n, Becomes(t, n), runs' = [runs EXCEPT ![t] = Tail(rs)],
             n = [s EXCEPT !.pc = "publish",
                           !.fetched = {b \in Block : rs[1].firstBlock <= b /\ b <= LastBlock(rs[1])}]
      PROVE  Good' /\ Moves(t)
  <2>1. /\ n.pc = "publish" /\ Still(s, n) /\ n.result = s.result
        /\ n.todo = s.todo /\ n.owned = s.owned /\ n.busy = s.busy
        /\ n.fetched = {b \in Block : rs[1].firstBlock <= b /\ b <= LastBlock(rs[1])}
    BY <1>2, <1>4, Zenon DEF ReadState, Still, Keeps
  <2>2. SetsOK(n)
    BY <1>2, <2>1, Zenon DEF SetsOK, Sifts, SpanOf, Still, Keeps
  <2>3. Planned(n, Tail(rs))
    <3>1. Ascends(rs) /\ \A b \in s.owned : \E i \in 1 .. Len(rs) : Reaches(rs[i], b)
      BY <1>2, Zenon DEF Planned
    <3> QED BY <1>2, <2>1, <3>1, RunIssued, Zenon
  <2> QED BY <1>1, <1>2, <1>4, <2>1, <2>2, <2>3, PlainStep, Zenon DEF FetchOne
<1>5. \/ Becomes(t, Leave(t, "error")) /\ UNCHANGED runs
      \/ /\ Becomes(t, [s EXCEPT
                 !.pc = "publish",
                 !.fetched = {b \in Block : rs[1].firstBlock <= b /\ b <= LastBlock(rs[1])}])
         /\ runs' = [runs EXCEPT ![t] = Tail(rs)]
  BY <1>1 DEF FetchOne, Head
<1> QED BY <1>3, <1>4, <1>5, Zenon

LEMMA PublishEndGood ==
  ASSUME IInv, IInv', Good, NEW t \in Thread, PublishEnd(t)
  PROVE  Good' /\ Moves(t)
<1>1. PICK s, n : s = read[t] /\ n = [s EXCEPT !.pc = "fetch", !.fetched = {}]
  BY Zenon
<1>2. s \in ReadState /\ s.pc = "publish" /\ SetsOK(s) /\ Planned(s, runs[t])
  BY <1>1, Local, Zenon DEF PublishEnd, ReadGood
<1>3. \A b \in s.owned : b \notin s.fetched
  <2>1. \A b \in s.owned, c \in s.fetched : b > c
    BY <1>1, Zenon DEF PublishEnd
  <2>2. s.owned \subseteq Nat
    BY <1>2, CacheAssumption, Zenon DEF ReadState
  <2> QED BY <2>1, <2>2
<1>4. /\ n.pc = "fetch" /\ Still(s, n) /\ n.result = s.result
      /\ n.todo = s.todo /\ n.owned = s.owned /\ n.busy = s.busy
  BY <1>1, <1>2, Zenon DEF ReadState, Still, Keeps
<1>5. SetsOK(n)
  BY <1>2, <1>4, Zenon DEF SetsOK, Sifts, SpanOf, Still, Keeps
<1>6. Planned(n, runs[t])
  BY <1>2, <1>3, <1>4, Zenon DEF Planned
<1>7. Becomes(t, n)
  BY <1>1, Zenon DEF PublishEnd
<1> QED BY <1>1, <1>2, <1>4, <1>5, <1>6, <1>7, PlainStep, Zenon DEF PublishEnd

------------------------------------------------------------------------------
\* The steps that copy a block.

\* A resident block that a reader finds is of its own revision.
LEMMA HitIsFaithful ==
  ASSUME IInv, Shares, Faithful, NEW t \in Thread, read[t].pc # "idle", NEW b \in Block,
         entries[KeyOf(t, b)].state = "resident"
  PROVE  entries[KeyOf(t, b)].rev = AssetOf(t).rev
<1>1. KeyOf(t, b) \in Key /\ read[t].reader \in Reader /\ Bound(read[t].reader)
  BY ReadingThread, Zenon DEF Bound
<1>2. PICK q \in Reader : /\ Bound(q) /\ reader[q].id = KeyOf(t, b)[1]
                          /\ entries[KeyOf(t, b)].rev = reader[q].asset.rev
  BY <1>1, Zenon DEF Faithful
<1>3. reader[q].id = reader[read[t].reader].id
  BY <1>2, Zenon DEF KeyOf
<1> QED BY <1>1, <1>2, <1>3, Zenon DEF Shares, OneRevision, AssetOf

\* A block out of the store, in the acquisition loop or after a wait.
LEMMA HitGood ==
  ASSUME FiniteLaws, IInv, IInv', Shares, Faithful, Good, NEW t \in Thread, read[t].pc \in {"acquire", "await"},
         NEW b \in read[t].todo, entries[KeyOf(t, b)].state = "resident",
         UNCHANGED <<reader, runs>>, Count(t, b, "hits"),
         Becomes(t, [Copied(t, b, entries[KeyOf(t, b)].rev) EXCEPT !.todo = @ \ {b}])
  PROVE  Good' /\ Moves(t)
<1>1. PICK s, m, n, rev : /\ s = read[t] /\ rev = entries[KeyOf(t, b)].rev
                          /\ m = Copied(t, b, rev) /\ n = [m EXCEPT !.todo = @ \ {b}]
  BY Zenon
<1>2. s \in ReadState /\ s.pc \in {"acquire", "await"} /\ SetsOK(s) /\ Planned(s, runs[t])
      /\ b \in Block
  BY <1>1, Local, Zenon DEF ReadGood, ReadState
<1>3. rev = AssetOf(t).rev
  BY <1>1, <1>2, HitIsFaithful, Zenon
<1>4. /\ n.pc = s.pc /\ Keeps(s, n) /\ n.result = s.result
      /\ n.todo = s.todo \ {b} /\ n.owned = s.owned /\ n.busy = s.busy
      /\ n.resolved = m.resolved /\ n.resolved = s.resolved \cup {b} /\ n.dst = m.dst
  BY <1>1, <1>2, Zenon DEF ReadState, Keeps, Copied
<1>5. SpanOf(n) = SpanOf(s)
  BY <1>4, Zenon DEF SpanOf, Keeps
<1>6. b \in SpanOf(s) /\ b \notin s.resolved /\ (s.pc = "acquire" => b \notin s.owned \cup s.busy)
  BY <1>1, <1>2, Zenon DEF SetsOK, Sifts
<1>7. s.pc = "await" => s.owned = {}
  BY <1>2, Zenon DEF Planned
<1>8. SetsOK(n)
  BY <1>2, <1>4, <1>5, <1>6, <1>7, Zenon DEF SetsOK, Sifts
<1>9. Planned(n, runs[t])
  BY <1>2, <1>4, Zenon DEF Planned
<1>10. Becomes(t, n)
  BY <1>1, Zenon
<1>11. Copies(t, b, rev, "hits", n)
  BY <1>1, <1>2, <1>3, <1>4, <1>6, <1>10 DEF Copies
<1> QED BY <1>8, <1>9, <1>11, CopyStep, Zenon

LEMMA HitsGood ==
  ASSUME FiniteLaws, IInv, IInv', Shares, Faithful, Good, NEW t \in Thread, HitOne(t) \/ AwaitHit(t)
  PROVE  Good' /\ Moves(t)
  BY HitGood, Zenon DEF HitOne, AwaitHit, AcquireHit, AwaitPublished

LEMMA ReadDirectGood ==
  ASSUME FiniteLaws, IInv, IInv', Good, NEW t \in Thread, ReadDirect(t)
  PROVE  Good' /\ Moves(t)
<1>1. CASE Becomes(t, Leave(t, "error")) /\ UNCHANGED count
  BY <1>1, AbandonGood, Zenon DEF ReadDirect, Leave
<1>2. ASSUME NEW b \in read[t].todo, Count(t, b, "misses"),
             Becomes(t, [Copied(t, b, AssetOf(t).rev) EXCEPT
                           !.todo = @ \ {b}, !.pc = IF @ = "mismatch" THEN "acquire" ELSE @])
      PROVE  Good' /\ Moves(t)
  <2>1. PICK s, m, n, rev : /\ s = read[t] /\ rev = AssetOf(t).rev /\ m = Copied(t, b, rev)
                            /\ n = [m EXCEPT !.todo = @ \ {b},
                                             !.pc = IF @ = "mismatch" THEN "acquire" ELSE @]
    BY Zenon
  <2>2. s \in ReadState /\ s.pc \in {"mismatch", "fallback"} /\ SetsOK(s) /\ OwnsOK(s)
    BY <2>1, Local, Zenon DEF ReadDirect, ReadGood
  <2>3. /\ n.pc = (IF s.pc = "mismatch" THEN "acquire" ELSE s.pc)
        /\ Keeps(s, n) /\ n.result = s.result
        /\ n.todo = s.todo \ {b} /\ n.owned = s.owned /\ n.busy = s.busy
        /\ n.resolved = m.resolved /\ n.resolved = s.resolved \cup {b} /\ n.dst = m.dst
    BY <2>1, <2>2, Zenon DEF ReadState, Keeps, Copied
  <2>4. SpanOf(n) = SpanOf(s)
    BY <2>3, Zenon DEF SpanOf, Keeps
  <2>5. b \in SpanOf(s) /\ b \notin s.resolved
    BY <1>2, <2>1, <2>2, Zenon DEF SetsOK, Sifts
  <2>6. Copies(t, b, rev, "misses", n)
    BY <1>2, <2>1, <2>2, <2>3, <2>5 DEF Copies, ReadDirect
  <2>7. CASE s.pc = "mismatch"
    <3>1. SetsOK(n)
      BY <1>2, <2>1, <2>2, <2>3, <2>4, <2>5, <2>7 DEF SetsOK, Sifts
    <3>2. Planned(n, runs[t])
      BY <2>3, <2>7, Zenon DEF Planned
    <3> QED BY <2>6, <3>1, <3>2, CopyStep, Zenon
  <2>8. CASE s.pc = "fallback"
    <3>1. s.owned = {}
      BY <2>2, <2>8, Zenon DEF OwnsOK, Quiet
    <3>2. SetsOK(n)
      BY <2>2, <2>3, <2>4, <2>5, <2>8, <3>1, Zenon DEF SetsOK, Sifts
    <3>3. Planned(n, runs[t])
      BY <2>3, <2>8, Zenon DEF Planned
    <3> QED BY <2>6, <3>2, <3>3, CopyStep
  <2> QED BY <2>2, <2>7, <2>8, Zenon
<1> QED BY <1>1, <1>2, Zenon DEF ReadDirect

\* A block this thread owned, loaded from disk or fetched.
LEMMA SettledGood ==
  ASSUME FiniteLaws, IInv, IInv', Good, NEW t \in Thread, read[t].pc \in {"load", "publish"},
         NEW b \in read[t].owned, NEW rev, rev = AssetOf(t).rev,
         UNCHANGED <<reader, runs>>, NEW source \in {"hits", "misses"}, Count(t, b, source),
         NEW todo, todo \subseteq read[t].todo,
         NEW n, Becomes(t, n),
         n = [Copied(t, b, rev) EXCEPT !.todo = todo, !.owned = @ \ {b}]
  PROVE  Good' /\ Moves(t)
<1>1. PICK s, m : s = read[t] /\ m = Copied(t, b, rev)
  BY Zenon
<1>2. s \in ReadState /\ s.pc \in {"load", "publish"} /\ SetsOK(s) /\ Planned(s, runs[t])
  BY <1>1, Local, Zenon DEF ReadGood
<1>3. /\ n.pc = s.pc /\ Keeps(s, n) /\ n.result = s.result /\ n.fetched = s.fetched
      /\ n.todo = todo /\ n.owned = s.owned \ {b} /\ n.busy = s.busy
      /\ n.resolved = m.resolved /\ n.resolved = s.resolved \cup {b} /\ n.dst = m.dst
  BY <1>1, <1>2, Zenon DEF ReadState, Keeps, Copied
<1>4. SpanOf(n) = SpanOf(s)
  BY <1>3, Zenon DEF SpanOf, Keeps
<1>5. b \in SpanOf(s) /\ b \notin s.resolved /\ b \notin s.busy
  BY <1>1, <1>2, Zenon DEF SetsOK
<1>6. SetsOK(n)
  BY <1>1, <1>2, <1>3, <1>4, <1>5 DEF SetsOK, Sifts
<1>7. Planned(n, runs[t])
  BY <1>2, <1>3, Zenon DEF Planned
<1>8. Copies(t, b, rev, source, n)
  BY <1>1, <1>2, <1>3, <1>5, Zenon DEF Copies
<1> QED BY <1>6, <1>7, <1>8, CopyStep, Zenon

LEMMA LoadOneGood ==
  ASSUME FiniteLaws, IInv, IInv', Good, NEW t \in Thread, LoadOne(t)
  PROVE  Good' /\ Moves(t)
<1>1. PICK s : s = read[t]
  BY Zenon
<1>2. s \in ReadState /\ s.pc = "load" /\ SetsOK(s) /\ s.todo \subseteq s.owned
  BY <1>1, Local, Zenon DEF LoadOne, ReadGood, OwnsOK
<1>3. PICK b \in s.todo :
        \/ /\ Becomes(t, [Copied(t, b, AssetOf(t).rev) EXCEPT !.todo = @ \ {b}, !.owned = @ \ {b}])
           /\ Count(t, b, "hits")
        \/ Becomes(t, [s EXCEPT !.todo = @ \ {b}]) /\ UNCHANGED count
  BY <1>1, Zenon DEF LoadOne
<1>4. CASE /\ Becomes(t, [Copied(t, b, AssetOf(t).rev) EXCEPT !.todo = @ \ {b}, !.owned = @ \ {b}])
           /\ Count(t, b, "hits")
  <2>1. PICK rev : rev = AssetOf(t).rev
    BY Zenon
  <2>2. Copied(t, b, rev).todo = s.todo
    BY <1>1, <1>2, Zenon DEF Copied, ReadState
  <2>3. PICK n : n = [Copied(t, b, rev) EXCEPT !.todo = s.todo \ {b}, !.owned = @ \ {b}]
    BY Zenon
  <2>4. Becomes(t, n)
    BY <1>4, <2>1, <2>2, <2>3, Zenon
  <2>5. b \in read[t].owned /\ s.todo \ {b} \subseteq read[t].todo /\ read[t].pc \in {"load", "publish"}
    BY <1>1, <1>2, Zenon
  <2>6. UNCHANGED <<reader, runs>>
    BY Zenon DEF LoadOne
  <2>7. PICK left : left = s.todo \ {b}
    BY Zenon
  <2> QED BY <1>4, <2>1, <2>3, <2>4, <2>5, <2>6, <2>7, SettledGood, Zenon
<1>5. CASE Becomes(t, [s EXCEPT !.todo = @ \ {b}]) /\ UNCHANGED count
  <2>1. PICK n : n = [s EXCEPT !.todo = @ \ {b}]
    BY Zenon
  <2>2. /\ n.pc = "load" /\ Still(s, n) /\ n.result = s.result
        /\ n.todo = s.todo \ {b} /\ n.owned = s.owned /\ n.busy = s.busy
    BY <1>2, <2>1, Zenon DEF ReadState, Still, Keeps
  <2>3. SetsOK(n) /\ Planned(n, runs[t])
    BY <1>2, <2>2, Zenon DEF SetsOK, Sifts, Planned, SpanOf, Still, Keeps
  <2> QED BY <1>1, <1>2, <1>5, <2>1, <2>2, <2>3, PlainStep, Zenon DEF LoadOne
<1> QED BY <1>3, <1>4, <1>5

\* The request reached the block that is published: owned blocks below its last
\* one are in it.
LEMMA PublishesFetched ==
  ASSUME NEW s \in ReadState, NEW rs, Planned(s, rs), s.pc = "publish", NEW b \in s.owned,
         \E c \in s.fetched : b <= c
  PROVE  b \in s.fetched
<1>1. PICK c \in s.fetched : b <= c
  BY Zenon
<1>2. b \in Nat /\ c \in Nat
  BY CacheAssumption DEF ReadState
<1> QED BY <1>1, <1>2 DEF Planned

LEMMA PublishOneGood ==
  ASSUME FiniteLaws, IInv, IInv', Good, NEW t \in Thread, PublishOne(t)
  PROVE  Good' /\ Moves(t)
<1>1. PICK s, rev : s = read[t] /\ rev = AssetOf(t).rev
  BY Zenon
<1>2. s \in ReadState /\ s.pc = "publish" /\ Planned(s, runs[t])
  BY <1>1, Local, Zenon DEF PublishOne, ReadGood
<1>3. PICK b \in s.owned :
        /\ \E c \in s.fetched : b <= c
        /\ Becomes(t, [Copied(t, b, IF b \in s.fetched THEN rev ELSE NoRev) EXCEPT !.owned = @ \ {b}])
        /\ Count(t, b, "misses")
  BY Zenon, <1>1 DEF PublishOne
<1>4. b \in s.fetched
  BY <1>2, <1>3, PublishesFetched, Zenon
<1>5. Becomes(t, [Copied(t, b, rev) EXCEPT !.owned = @ \ {b}])
  BY <1>3, <1>4, Zenon
<1>6. PICK n, m : m = Copied(t, b, rev) /\ n = [m EXCEPT !.todo = s.todo, !.owned = @ \ {b}]
  BY Zenon
<1>7. n = [m EXCEPT !.owned = @ \ {b}]
  BY <1>1, <1>2, <1>6, Zenon DEF Copied, ReadState
<1>8. Becomes(t, n) /\ UNCHANGED <<reader, runs>>
  BY <1>5, <1>6, <1>7, Zenon DEF PublishOne
<1>9. b \in read[t].owned /\ s.todo \subseteq read[t].todo /\ read[t].pc \in {"load", "publish"}
  BY <1>1, <1>2, Zenon
<1> QED BY <1>1, <1>3, <1>6, <1>8, <1>9, SettledGood, Zenon

------------------------------------------------------------------------------
\* The beginning and the end of a read.

\* The bytes asked for are as many as the length says.
LEMMA RangeCounts ==
  ASSUME FiniteLaws, NEW s \in ReadState, NEW a \in Asset, Fits(s, a)
  PROVE  Cardinality({x \in Byte : Within(s, x)}) = s.length
<1>1. /\ s.offset \in Nat /\ s.length \in Nat \ {0} /\ a.size \in Nat
      /\ s.offset + s.length <= a.size /\ Byte \subseteq Nat
  BY ReaderAssumption DEF ReadState, AssetType, Fits
<1>2. PICK low, high \in Int : low = s.offset /\ high = s.offset + s.length - 1
  BY <1>1
<1>3. \A x \in low .. high : x \in Byte
  <2>1. \A x \in low .. high : x \in 0 .. a.size - 1
    BY <1>1, <1>2
  <2> QED BY <2>1, CoverAssumption, Zenon
<1>4. \A x \in Byte : Within(s, x) <=> x \in low .. high
  BY <1>1, <1>2 DEF Within
<1>5. {x \in Byte : Within(s, x)} = low .. high
  BY <1>3, <1>4, Zenon
<1>6. Cardinality(low .. high) = IF low > high THEN 0 ELSE high - low + 1
  BY FiniteInterval, Zenon
<1>7. ~(low > high) /\ high - low + 1 = s.length
  BY <1>1, <1>2
<1> QED BY <1>5, <1>6, <1>7, Zenon

\* Once every block of the span is resolved, every byte of the range is written.
LEMMA ResolvedIsWritten ==
  ASSUME NEW s \in ReadState, NEW a \in Asset, Fits(s, a), BufferOK(s, a),
         Block \cap SpanOf(s) \subseteq s.resolved
  PROVE  /\ \A x \in Byte : Within(s, x) => s.dst[x] = a.rev
         /\ Written(s) = {x \in Byte : Within(s, x)}
<1>1. a.rev # NoRev
  BY ReaderAssumption, CacheAssumption, Zenon DEF AssetType
<1>2. ASSUME NEW x \in Byte, Within(s, x) PROVE s.dst[x] = a.rev
  <2>1. PICK b \in Block \cap SpanOf(s) : x \in Overlap(s, a, b)
    BY <1>2, SpanReaches, Zenon
  <2> QED BY <2>1, Zenon DEF BufferOK
<1> QED BY <1>1, <1>2, Zenon DEF BufferOK, Written

LEMMA FallbackEndGood ==
  ASSUME FiniteLaws, IInv, IInv', Good, NEW t \in Thread, FallbackEnd(t)
  PROVE  Good' /\ Moves(t)
<1>1. PICK s, a, c : s = read[t] /\ a = AssetOf(t) /\ c = count[t]
  BY Zenon
<1>2. s \in ReadState /\ a \in Asset /\ s.pc = "fallback" /\ s.todo = {}
      /\ ReadGood(s, a, runs[t], c)
  BY <1>1, Local, Zenon DEF FallbackEnd
<1>3. Block \cap SpanOf(s) \subseteq s.resolved
  BY <1>2, Zenon DEF ReadGood, SetsOK
<1>4. /\ \A x \in Byte : Within(s, x) => s.dst[x] = a.rev
      /\ Written(s) = {x \in Byte : Within(s, x)}
  BY <1>2, <1>3, ResolvedIsWritten DEF ReadGood
<1>5. c.served = s.length
  BY <1>2, <1>4, RangeCounts, Zenon DEF ReadGood, CountOK
<1>6. s.resolved = SpanOf(s)
  BY <1>2, <1>3, SpanType, Zenon DEF ReadGood, SetsOK
<1>7. PICK n : n = [s EXCEPT !.pc = "return", !.result = "ok"]
  BY Zenon
<1>8. Becomes(t, n)
  BY <1>1, <1>5, <1>7, Zenon DEF FallbackEnd
<1>9. /\ n.pc = "return" /\ n.result = "ok" /\ Still(s, n)
      /\ n.todo = s.todo /\ n.owned = s.owned /\ n.busy = s.busy
  BY <1>2, <1>7, Zenon DEF ReadState, Still, Keeps
<1>10. /\ SpanOf(n) = SpanOf(s) /\ n.resolved = s.resolved /\ n.dst = s.dst
       /\ Written(n) = Written(s) /\ \A b : Overlap(n, a, b) = Overlap(s, a, b)
       /\ \A x : Within(n, x) <=> Within(s, x)
  BY <1>9, Zenon DEF SpanOf, Still, Keeps, Overlap, Within, Written
<1>11. Fits(n, a)
  BY <1>2, <1>9, Zenon DEF ReadGood, Fits, Still, Keeps
<1>12. SetsOK(n) /\ Planned(n, runs[t])
  BY <1>2, <1>9, <1>10, Zenon DEF ReadGood, SetsOK, Sifts, Planned
<1>13. BufferOK(n, a) /\ DoneOK(n, a)
  BY <1>2, <1>4, <1>6, <1>9, <1>10 DEF ReadGood, BufferOK, DoneOK
<1>14. CountOK(n, c)
  BY <1>2, <1>9, <1>10, Zenon DEF ReadGood, CountOK
<1>15. ReadGood(n, a, runs[t], c)
  BY <1>11, <1>12, <1>13, <1>14, Zenon DEF ReadGood
<1>16. a = reader[n.reader].asset /\ UNCHANGED reader /\ UNCHANGED runs /\ UNCHANGED count
  BY <1>1, <1>9, Zenon DEF Still, Keeps, AssetOf, FallbackEnd
<1>17. n.pc # "idle" /\ Goes(t, n)
  BY <1>1, <1>2, <1>9, Zenon DEF Goes, Still
<1> QED BY <1>1, <1>8, <1>15, <1>16, <1>17, OthersKept, Zenon

LEMMA BypassReadGood ==
  ASSUME IInv, IInv', Good, NEW t \in Thread, BypassRead(t)
  PROVE  Good' /\ Moves(t)
<1>1. PICK s, a, c : s = read[t] /\ a = AssetOf(t) /\ c = count[t]
  BY Zenon
<1>2. s \in ReadState /\ a \in Asset /\ s.pc = "bypass" /\ ReadGood(s, a, runs[t], c)
  BY <1>1, Local, Zenon DEF BypassRead
<1>3. s.resolved = {}
  BY <1>2, Zenon DEF ReadGood, SetsOK
<1> DEFINE whole == [x \in Byte |-> IF Within(s, x) THEN a.rev ELSE s.dst[x]]
<1>4. PICK n :
        /\ Becomes(t, n)
        /\ \/ n = [s EXCEPT !.pc = "return", !.result = "ok", !.dst = whole]
           \/ n = [s EXCEPT !.pc = "return", !.result = "error"]
  BY <1>1, Zenon DEF BypassRead, InRange, Within
<1>5. \A x \in Byte : whole[x] = IF Within(s, x) THEN a.rev ELSE s.dst[x]
  BY Zenon
<1> HIDE DEF whole
<1>6. /\ n.pc = "return" /\ Keeps(s, n) /\ n.resolved = {}
      /\ n.todo = s.todo /\ n.owned = s.owned /\ n.busy = s.busy
      /\ \/ n.result = "ok" /\ n.dst = whole
         \/ n.result = "error" /\ n.dst = s.dst
  BY <1>2, <1>3, <1>4, Zenon DEF ReadState, Keeps
<1>7. SpanOf(n) = SpanOf(s) /\ \A x : Within(n, x) <=> Within(s, x)
  BY <1>6, Zenon DEF SpanOf, Keeps, Within
<1>8. Fits(n, a)
  BY <1>2, <1>6, Zenon DEF ReadGood, Fits, Keeps
<1>9. SetsOK(n) /\ Planned(n, runs[t])
  BY <1>2, <1>6, <1>7, Zenon DEF ReadGood, SetsOK, Sifts, Planned
<1>10. BufferOK(n, a)
  BY <1>2, <1>5, <1>6, <1>7 DEF ReadGood, BufferOK, Written
<1>11. DoneOK(n, a)
  BY <1>5, <1>6, <1>7, Zenon DEF DoneOK
<1>12. CountOK(n, c)
  BY <1>2, <1>3, <1>6 DEF ReadGood, CountOK
<1>13. ReadGood(n, a, runs[t], c)
  BY <1>8, <1>9, <1>10, <1>11, <1>12, Zenon DEF ReadGood
<1>14. a = reader[n.reader].asset /\ UNCHANGED reader /\ UNCHANGED runs /\ UNCHANGED count
  BY <1>1, <1>6, Zenon DEF Keeps, AssetOf, BypassRead
<1>15. n.pc # "idle" /\ Goes(t, n)
  BY <1>1, <1>2, <1>6, Zenon DEF Goes
<1> QED BY <1>1, <1>4, <1>13, <1>14, <1>15, OthersKept

\* A call starts with the range clipped to the asset and nothing done.
LEMMA StartReadGood ==
  ASSUME FiniteLaws, IInv, IInv', Good, NEW t \in Thread, StartRead(t)
  PROVE  Good' /\ Moves(t)
<1>1. PICK r \in Reader, q \in Request :
        LET range == ResolveReadRange(q[1], q[2], reader[r].asset.size, MaxOffset)
            call  == [NoRead EXCEPT !.reader = r, !.offset = range.offset, !.length = range.length]
        IN  /\ range.outcome = "Transfer"
            /\ \/ Becomes(t, [call EXCEPT !.pc = "bypass"])
               \/ Becomes(t, [call EXCEPT
                    !.pc = "acquire",
                    !.todo = Block \cap CoveringBlocks(range.offset, range.length, BlockSize)])
  BY ZenonT(30) DEF StartRead
<1>2. PICK a, range : a = reader[r].asset /\ range = ResolveReadRange(q[1], q[2], a.size, MaxOffset)
  BY Zenon
<1>3. range.length > 0 /\ range.offset + range.length <= a.size
  <2>1. q[1] \in Nat /\ q[2] \in Nat /\ MaxOffset \in Nat /\ a.size \in Nat
    BY <1>2, ReaderAssumption DEF IInv, TypeOK, ReaderState, AssetType
  <2> QED BY <1>1, <1>2, <2>1 DEF ResolveReadRange
<1> DEFINE touched == Block \cap CoveringBlocks(range.offset, range.length, BlockSize)
           call == [NoRead EXCEPT !.reader = r, !.offset = range.offset, !.length = range.length]
<1>4. PICK n : /\ Becomes(t, n)
               /\ \/ n = [call EXCEPT !.pc = "bypass"]
                  \/ n = [call EXCEPT !.pc = "acquire", !.todo = touched]
  BY <1>1, <1>2, Zenon
<1> HIDE DEF touched
<1>5. /\ n.pc \in {"bypass", "acquire"} /\ n.reader = r
      /\ n.offset = range.offset /\ n.length = range.length
      /\ n.todo \in {{}, touched} /\ n.resolved = {} /\ n.owned = {} /\ n.busy = {}
      /\ n.dst = [x \in Byte |-> NoRev] /\ n.result = "none"
  <2>1. NoRead \in ReadState
    BY NoReadType, Zenon
  <2>2. /\ NoRead.todo = {} /\ NoRead.resolved = {} /\ NoRead.owned = {} /\ NoRead.busy = {}
        /\ NoRead.dst = [x \in Byte |-> NoRev] /\ NoRead.result = "none"
    BY Zenon DEF NoRead
  <2> QED BY <1>4, <2>1, <2>2, Zenon DEF ReadState
<1>6. Fits(n, a)
  BY <1>3, <1>5, Zenon DEF Fits
<1>7. touched \subseteq SpanOf(n)
  BY <1>5, Zenon DEF touched, SpanOf
<1>8. SetsOK(n) /\ Planned(n, runs[t])
  BY <1>5, <1>7, Zenon DEF SetsOK, Sifts, Planned
<1>9. Written(n) = {}
  BY <1>5, Zenon DEF Written
<1>10. BufferOK(n, a) /\ DoneOK(n, a)
  BY <1>5, <1>9, Zenon DEF BufferOK, DoneOK
<1>11. count[t] = NoCount
  BY Zenon DEF StartRead, Good, ThreadGood
<1>12. CountOK(n, count[t])
  BY <1>5, <1>9, <1>11, FiniteEmpty DEF CountOK, NoCount
<1>13. ReadGood(n, a, runs[t], count[t])
  BY <1>6, <1>8, <1>10, <1>12, Zenon DEF ReadGood
<1>14. a = reader[n.reader].asset /\ UNCHANGED reader /\ UNCHANGED runs /\ UNCHANGED count
  BY <1>2, <1>5, Zenon DEF StartRead
<1>15. n.pc # "idle" /\ Goes(t, n)
  BY <1>5, Zenon DEF Goes, StartRead
<1>16. PICK rs, c : rs = runs[t] /\ c = count[t]
  BY Zenon
<1> QED BY <1>4, <1>13, <1>14, <1>15, <1>16, OthersKept

LEMMA ReturnGood ==
  ASSUME IInv, IInv', Good, NEW t \in Thread, Return(t)
  PROVE  Good' /\ Moves(t)
<1>1. PICK n, c, rs : n = NoRead /\ c = NoCount /\ rs = <<>>
  BY Zenon
<1>2. n.pc = "idle" /\ Goes(t, n)
  BY <1>1, Zenon DEF NoRead, Goes, Return
<1> QED BY <1>1, <1>2, OthersKept, Zenon DEF Return

------------------------------------------------------------------------------
\* The whole is inductive.

\* A read keeps its reader's asset under every step of the others.
LEMMA StillGood ==
  ASSUME IInv, Good, UNCHANGED <<read, runs, count>>,
         \A r \in Reader : reader'[r].asset = reader[r].asset
  PROVE  Good'
<1>1. ASSUME NEW t \in Thread, read[t].pc # "idle" PROVE AssetOf(t)' = AssetOf(t)
  BY <1>1, ReadingThread, Zenon DEF AssetOf
<1>2. ASSUME NEW t \in Thread PROVE ThreadGood(t)'
  BY <1>1, Zenon DEF Good, ThreadGood
<1> QED BY <1>2, Zenon DEF Good

LEMMA StepGood ==
  ASSUME FiniteLaws, PlanLaw, IInv, IInv', Shares, Faithful, Good, NEW t \in Thread, Step(t)
  PROVE  Good' /\ (Moves(t) \/ UNCHANGED <<read, reader>>)
<1>1. CASE BypassRead(t) \/ AcquireOne(t) \/ HitOne(t) \/ HitMismatch(t) \/ ReadDirect(t)
             \/ AcquireEnd(t) \/ LoadOne(t) \/ LoadEnd(t)
  BY <1>1, BypassReadGood, AcquireOneGood, HitsGood, AbandonThenGood, ReadDirectGood,
     AcquireEndGood, LoadOneGood, LoadEndGood
<1>2. CASE FetchOne(t) \/ FetchEnd(t) \/ PublishOne(t) \/ PublishEnd(t) \/ Throws(t) \/ AwaitHit(t)
             \/ AwaitMiss(t) \/ AwaitEnd(t)
  BY <1>2, FetchOneGood, FetchEndGood, PublishOneGood, PublishEndGood, ThrowsGood, HitsGood,
     AwaitMissGood, AbandonThenGood, Zenon
<1>3. CASE AwaitPending(t)
  BY <1>3, StillGood, Zenon DEF AwaitPending
<1>4. CASE AbandonOne(t) \/ AbandonEnd(t) \/ FallbackEnd(t) \/ Return(t)
  BY <1>4, AbandonOneGood, AbandonEndGood, FallbackEndGood, ReturnGood, Zenon
<1> QED BY <1>1, <1>2, <1>3, <1>4, Zenon DEF Step

LEMMA GoodNext == FiniteLaws /\ PlanLaw /\ IInv /\ Shares /\ Faithful /\ Good /\ [Next]_vars => Good'
<1> SUFFICES ASSUME FiniteLaws, PlanLaw, IInv, Shares, Faithful, Good, [Next]_vars PROVE Good'
  BY Zenon
<1>1. IInv'
  BY NextInv, Zenon
<1>2. ASSUME NEW r \in Reader, Open(r) \/ Close(r) \/ ClosePurge(r) \/ CloseUnbind(r) PROVE Good'
  <2>1. UNCHANGED <<read, runs, count>>
    BY <1>2, Zenon DEF Open, Close, ClosePurge, CloseUnbind
  <2>2. \A q \in Reader : reader'[q].asset = reader[q].asset
    BY <1>2 DEF Open, Close, ClosePurge, CloseUnbind, IInv, TypeOK, ReaderState
  <2> QED BY <2>1, <2>2, StillGood, Zenon
<1>3. ASSUME NEW t \in Thread, StartRead(t) \/ Step(t) \/ SpuriousWake(t) PROVE Good'
  <2>1. CASE SpuriousWake(t)
    BY <2>1, StillGood, Zenon DEF SpuriousWake
  <2> QED BY <1>1, <1>3, <2>1, StartReadGood, StepGood, Zenon
<1>4. CASE Configure \/ UNCHANGED vars
  BY <1>4, StillGood, Zenon DEF Configure, vars
<1> QED BY <1>2, <1>3, <1>4, Zenon DEF Next, Finished

\* What a thread publishes is of its reader's revision.
LEMMA FaithfulNext == IInv /\ Faithful /\ Good /\ [Next]_vars => Faithful'
<1> SUFFICES ASSUME IInv, Faithful, Good, [Next]_vars, NEW k \in Key, entries'[k].state = "resident"
             PROVE  \E q \in Reader : /\ Bound(q)' /\ reader'[q].id = k[1]
                                      /\ entries'[k].rev = reader'[q].asset.rev
  BY Zenon DEF Faithful
<1>1. EntryStep(k)
  BY EntriesStep, Zenon
<1>2. SUFFICES \E q \in Reader : /\ Bound(q) /\ reader[q].id = k[1]
                                 /\ entries'[k].rev = reader[q].asset.rev
  BY BoundKept, Zenon
<1>3. CASE entries'[k] = entries[k]
  BY <1>3, Zenon DEF Faithful
<1>4. ASSUME NEW t \in Thread, NEW b \in Block, Writes(t, b, k)
      PROVE  \E q \in Reader : /\ Bound(q) /\ reader[q].id = k[1]
                               /\ entries'[k].rev = reader[q].asset.rev
  <2>1. read[t].pc # "idle" /\ k = KeyOf(t, b) /\ Fills(t, b, k)
    BY <1>4, Zenon DEF Writes, Claims
  <2>2. read[t].reader \in Reader /\ Bound(read[t].reader) /\ reader[read[t].reader].id = k[1]
    BY <2>1, ReadingThread, Zenon DEF Bound, KeyOf
  <2>3. read[t] \in ReadState /\ Planned(read[t], runs[t])
    BY <2>1, Local, Zenon DEF ReadGood
  <2>4. entries'[k].rev = AssetOf(t).rev
    <3>1. CASE read[t].pc = "load"
      BY <2>1, <3>1, Zenon DEF Fills
    <3>2. CASE read[t].pc = "publish"
      <4>1. PICK s, rs : s = read[t] /\ rs = runs[t]
        BY Zenon
      <4>2. b \in s.owned /\ \E c \in s.fetched : b <= c
        BY <2>1, <3>2, <4>1, Zenon DEF Fills
      <4>3. b \in s.fetched
        BY <2>3, <3>2, <4>1, <4>2, PublishesFetched, Zenon
      <4> QED BY <2>1, <3>2, <4>1, <4>3, Zenon DEF Fills
    <3> QED BY <2>1, <3>1, <3>2, Zenon DEF Fills
  <2> QED BY <2>2, <2>4, Zenon DEF AssetOf
<1> QED BY <1>1, <1>3, <1>4, Zenon DEF EntryStep

LEMMA InitFull == FiniteLaws /\ Init => FInv
<1> SUFFICES ASSUME FiniteLaws, Init PROVE FInv
  BY Zenon
<1>1. IInv
  BY InitInv, Zenon
<1>2. \A r \in Reader : ~Bound(r)
  BY Zenon DEF Init, Bound
<1>3. Shares
  BY <1>2, Zenon DEF Init, CacheInit, Shares, OneRevision, Interned
<1>4. Faithful
  BY Zenon DEF Init, CacheInit, Faithful, Absent
<1>5. Good
  BY Zenon DEF Init, Good, ThreadGood, NoRead
<1> QED BY <1>1, <1>3, <1>4, <1>5, Zenon DEF FInv

LEMMA NextFull == FiniteLaws /\ PlanLaw /\ FInv /\ [Next]_vars => FInv'
  BY NextInv, SharesNext, FaithfulNext, GoodNext, Zenon DEF FInv

------------------------------------------------------------------------------
\* Reads through the cache keep the contract.

NoCall == [pc |-> "idle", rev |-> NoRev, asked |-> <<0, 0>>, status |-> "none", given |-> {}]

\* A read as the contract sees it, apart from whose read it is.
Seen(s, a) ==
  IF s.pc = "idle" THEN NoCall
  ELSE LET success == s.pc = "return" /\ s.result = "ok"
       IN  [pc     |-> IF s.pc = "return" THEN "returned" ELSE "reading",
            rev    |-> a.rev,
            asked  |-> <<s.offset, s.length>>,
            status |-> IF success THEN "Ok" ELSE IF s.pc = "return" THEN "Failed" ELSE "none",
            given  |-> IF success THEN {<<x, s.dst[x]>> : x \in Written(s)} ELSE {}]

LEMMA CallIsSeen ==
  ASSUME NEW t
  PROVE  CallOf(t) = Seen(read[t], AssetOf(t)) /\ CallOf(t)' = Seen(read'[t], AssetOf(t)')
<1>1. CallOf(t) = Seen(read[t], AssetOf(t))
  BY Zenon DEF CallOf, Seen, NoCall, Written
<1>2. CallOf(t)' = Seen(read'[t], AssetOf(t)')
  BY Zenon DEF CallOf, Seen, NoCall, Written
<1> QED BY <1>1, <1>2, Zenon

\* The step of the contract from what is seen before to what is seen after.
Told(s, n, a) == Seen(s, a).pc # Seen(n, a).pc /\ Contract!Step(Seen(s, a), Seen(n, a))

\* A read under way goes on unseen, or returns with all of its range or a failure.
LEMMA GoesOn ==
  ASSUME NEW s \in ReadState, NEW n \in ReadState, NEW a \in Asset,
         s.pc \notin {"idle", "return"}, n.pc # "idle", Keeps(s, n),
         BufferOK(n, a), DoneOK(n, a)
  PROVE  Seen(n, a) = Seen(s, a) \/ Told(s, n, a)
<1>1. PICK me : me = [pc |-> "reading", rev |-> a.rev, asked |-> <<s.offset, s.length>>,
                      status |-> "none", given |-> {}]
  BY Zenon
<1>2. Seen(s, a) = me /\ me.pc = "reading" /\ me.rev = a.rev /\ me.asked = <<s.offset, s.length>>
  BY <1>1, Zenon DEF Seen
<1>3. n.offset = s.offset /\ n.length = s.length
  BY Zenon DEF Keeps
<1>4. CASE n.pc # "return"
  BY <1>1, <1>2, <1>3, <1>4, Zenon DEF Seen
<1>5. CASE n.pc = "return" /\ n.result = "ok"
  <2>1. a.rev # NoRev
    BY ReaderAssumption, CacheAssumption, Zenon DEF AssetType
  <2>2. /\ \A x \in Byte : Within(n, x) <=> x \in Written(n)
        /\ \A x \in Written(n) : n.dst[x] = a.rev /\ x \in Byte
    BY <1>5, <2>1, Zenon DEF BufferOK, DoneOK, Written
  <2>3. Contract!Whole(me) = {x \in Byte : Within(n, x)} \X {a.rev}
    BY <1>2, <1>3 DEF Contract!Whole, Within
  <2>4. PICK given : given = {<<x, n.dst[x]>> : x \in Written(n)}
    BY Zenon
  <2>5. given = Contract!Whole(me)
    <3>1. ASSUME NEW y \in given PROVE y \in {x \in Byte : Within(n, x)} \X {a.rev}
      BY <2>2, <2>4, <3>1
    <3>2. ASSUME NEW y \in {x \in Byte : Within(n, x)} \X {a.rev} PROVE y \in given
      <4>1. PICK x \in Byte : Within(n, x) /\ y = <<x, a.rev>>
        BY <3>2
      <4>2. x \in Written(n) /\ n.dst[x] = a.rev
        BY <2>2, <4>1, Zenon
      <4> QED BY <2>4, <4>1, <4>2, Zenon
    <3> QED BY <2>3, <3>1, <3>2, Zenon
  <2>6. Seen(n, a) = [pc |-> "returned", rev |-> a.rev, asked |-> <<s.offset, s.length>>,
                      status |-> "Ok", given |-> given]
    BY <1>3, <1>5, <2>4, Zenon DEF Seen
  <2>7. Contract!Succeed(me, Seen(n, a))
    BY <1>2, <2>5, <2>6, Zenon DEF Contract!Succeed, Contract!Returned
  <2> QED BY <1>2, <2>6, <2>7 DEF Told, Contract!Step
<1>6. CASE n.pc = "return" /\ n.result # "ok"
  <2>1. PICK next : next = [pc |-> "returned", rev |-> a.rev, asked |-> <<s.offset, s.length>>,
                            status |-> "Failed", given |-> {}]
    BY Zenon
  <2>2. Seen(n, a) = next /\ next.pc = "returned" /\ next.given = {}
    BY <1>3, <1>6, <2>1, Zenon DEF Seen
  <2>3. Contract!Fail(me, next)
    BY <1>2, <2>1, <2>2, Zenon DEF Contract!Fail, Contract!Returned
  <2> QED BY <1>2, <2>2, <2>3, Zenon DEF Told, Contract!Step
<1> QED BY <1>4, <1>5, <1>6, Zenon

\* The first step of a read, and the last.
LEMMA BeginsAndLeaves ==
  ASSUME NEW n \in ReadState, NEW a \in Asset
  PROVE  /\ n.pc \notin {"idle", "return"} => Told(NoRead, n, a)
         /\ n.pc = "return" => Told(n, NoRead, a)
<1>1. Seen(NoRead, a) = NoCall /\ NoCall.pc = "idle"
  BY Zenon DEF Seen, NoRead, NoCall
<1>2. ASSUME n.pc \notin {"idle", "return"} PROVE Told(NoRead, n, a)
  <2>1. PICK next : next = [pc |-> "reading", rev |-> a.rev, asked |-> <<n.offset, n.length>>,
                            status |-> "none", given |-> {}]
    BY Zenon
  <2>2. /\ Seen(n, a) = next /\ next.pc = "reading" /\ next.rev = a.rev
        /\ next.asked = <<n.offset, n.length>>
    BY <1>2, <2>1, Zenon DEF Seen
  <2>3. a.rev \in Rev /\ next.asked \in Nat \X Nat
    BY <2>2, ReaderAssumption DEF AssetType, ReadState
  <2>4. Contract!Begin(NoCall, next)
    BY <1>1, <2>1, <2>2, <2>3, Zenon DEF Contract!Begin, Contract!Reading
  <2> QED BY <1>1, <2>2, <2>4, Zenon DEF Told, Contract!Step
<1>3. ASSUME n.pc = "return" PROVE Told(n, NoRead, a)
  <2>1. Seen(n, a).pc = "returned"
    BY <1>3, Zenon DEF Seen
  <2>2. Contract!Leave(Seen(n, a), NoCall)
    BY <2>1, Zenon DEF Contract!Leave, Contract!Idle, NoCall
  <2> QED BY <1>1, <2>1, <2>2, Zenon DEF Told, Contract!Step
<1> QED BY <1>2, <1>3, Zenon

\* A thread's move is a step of its call, or none.
LEMMA MoveIsTold ==
  ASSUME FInv, FInv', NEW t \in Thread, Moves(t)
  PROVE  CallOf(t)' = CallOf(t)
           \/ (CallOf(t).pc # CallOf(t)'.pc /\ Contract!Step(CallOf(t), CallOf(t)'))
<1>1. PICK s, n : s = read[t] /\ n = read'[t]
  BY Zenon
<1>2. s \in ReadState /\ n \in ReadState /\ Goes(t, n)
  BY <1>1, Zenon DEF FInv, IInv, TypeOK, Moves
<1>3. CASE s.pc = "idle" /\ n.pc \notin {"idle", "return"} /\ n.reader \in Reader
  <2>1. PICK a : a = reader[n.reader].asset
    BY Zenon
  <2>2. a \in Asset
    BY <1>3, <2>1, Zenon DEF FInv, IInv, TypeOK, ReaderState
  <2>3. s = NoRead
    BY <1>1, <1>3, Zenon DEF FInv, Good, ThreadGood
  <2>4. AssetOf(t)' = a
    BY <1>1, <2>1, Zenon DEF AssetOf, Moves
  <2>5. CallOf(t)' = Seen(n, a)
    BY <1>1, <2>4, CallIsSeen
  <2>6. CallOf(t) = Seen(s, a)
    BY <1>1, <1>3, CallIsSeen, Zenon DEF Seen
  <2>7. Told(s, n, a)
    BY <1>2, <1>3, <2>2, <2>3, BeginsAndLeaves, Zenon
  <2> QED BY <2>5, <2>6, <2>7, Zenon DEF Told
<1>4. CASE s.pc \notin {"idle", "return"} /\ n.pc # "idle" /\ Keeps(s, n)
  <2>1. PICK a : a = AssetOf(t)
    OBVIOUS
  <2>2. a \in Asset
    BY <1>1, <1>4, <2>1, Local, Zenon DEF FInv
  <2>3. AssetOf(t)' = a
    BY <1>1, <1>4, <2>1, Zenon DEF AssetOf, Moves, Keeps
  <2>4. CallOf(t) = Seen(s, a) /\ CallOf(t)' = Seen(n, a)
    BY <1>1, <2>1, <2>3, CallIsSeen, Zenon
  <2>5. BufferOK(n, a) /\ DoneOK(n, a)
    <3>1. ThreadGood(t)'
      BY Zenon DEF FInv, Good
    <3> QED BY <1>1, <1>4, <2>3, <3>1, Zenon DEF ThreadGood, ReadGood
  <2>6. Seen(n, a) = Seen(s, a) \/ Told(s, n, a)
    BY <1>2, <1>4, <2>2, <2>5, GoesOn
  <2> QED BY <2>4, <2>6, Zenon DEF Told
<1>5. CASE s.pc = "return" /\ n = NoRead
  <2>1. PICK a : a = AssetOf(t)
    BY Zenon
  <2>2. a \in Asset
    BY <1>1, <1>5, <2>1, Local DEF FInv
  <2>3. CallOf(t) = Seen(s, a)
    BY <1>1, <2>1, CallIsSeen, Zenon
  <2>4. CallOf(t)' = Seen(n, a)
    <3>1. n.pc = "idle"
      BY <1>5, Zenon DEF NoRead
    <3>2. CallOf(t)' = Seen(n, AssetOf(t)')
      BY <1>1, CallIsSeen, Zenon
    <3> QED BY <3>1, <3>2, Zenon DEF Seen
  <2>5. Told(s, n, a)
    BY <1>2, <1>5, <2>2, BeginsAndLeaves, Zenon
  <2> QED BY <2>3, <2>4, <2>5, Zenon DEF Told
<1> QED BY <1>1, <1>2, <1>3, <1>4, <1>5 DEF Goes

\* A read that does not move, under a reader that keeps its asset, looks the same.
LEMMA SameCall ==
  ASSUME IInv, NEW u \in Thread, read'[u] = read[u],
         \A r \in Reader : reader'[r].asset = reader[r].asset
  PROVE  CallOf(u)' = CallOf(u)
<1>1. PICK s : s = read[u]
  BY Zenon
<1>2. CallOf(u) = Seen(s, AssetOf(u)) /\ CallOf(u)' = Seen(s, AssetOf(u)')
  BY <1>1, CallIsSeen, Zenon
<1>3. CASE s.pc = "idle"
  BY <1>2, <1>3, Zenon DEF Seen
<1>4. CASE s.pc # "idle"
  <2>1. s.reader \in Reader
    BY <1>1, <1>4, ReadingThread, Zenon
  <2>2. PICK a : a = AssetOf(u)
    BY Zenon
  <2>3. AssetOf(u)'.rev = a.rev
    BY <1>1, <2>1, <2>2 DEF AssetOf
  <2> QED BY <1>2, <2>2, <2>3 DEF Seen
<1> QED BY <1>3, <1>4, Zenon

\* A step of the cache is a step of the contract, or is not seen.
LEMMA ContractStep ==
  FiniteLaws /\ PlanLaw /\ FInv /\ FInv' /\ [Next]_vars
    => [Contract!Next]_[t \in Thread |-> CallOf(t)]
<1> DEFINE call == [t \in Thread |-> CallOf(t)]
<1> SUFFICES ASSUME FiniteLaws, PlanLaw, FInv, FInv', [Next]_vars
             PROVE  [Contract!Next]_call
  BY Zenon
<1>1. IInv /\ \A r \in Reader : reader'[r].asset = reader[r].asset
  BY BoundKept, Zenon DEF FInv
<1>2. CASE \A u \in Thread : CallOf(u)' = CallOf(u)
  BY <1>2, Zenon
<1>3. CASE UNCHANGED read
  BY <1>1, <1>2, <1>3, SameCall, Zenon
<1>4. ASSUME NEW t \in Thread, Moves(t) PROVE [Contract!Next]_call
  <2>1. \A u \in Thread : u # t => CallOf(u)' = CallOf(u)
    BY <1>1, <1>4, SameCall, Zenon DEF Moves
  <2>2. CASE CallOf(t)' = CallOf(t)
    BY <1>2, <2>1, <2>2
  <2>3. CASE CallOf(t).pc # CallOf(t)'.pc /\ Contract!Step(CallOf(t), CallOf(t)')
    <3>1. call[t].pc # call'[t].pc /\ Contract!Step(call[t], call'[t])
      BY <2>3, Zenon
    <3>2. call' = [call EXCEPT ![t] = call'[t]]
      BY <2>1, Zenon
    <3> QED BY <3>1, <3>2, Zenon DEF Contract!Next
  <2> QED BY <1>4, <2>2, <2>3, MoveIsTold
<1>5. ASSUME NEW r \in Reader, Open(r) \/ Close(r) \/ ClosePurge(r) \/ CloseUnbind(r)
      PROVE  UNCHANGED read
  BY <1>5 DEF Open, Close, ClosePurge, CloseUnbind
<1>6. ASSUME NEW t \in Thread, StartRead(t) \/ Step(t) \/ SpuriousWake(t)
      PROVE  Moves(t) \/ UNCHANGED read
  <2>1. CASE SpuriousWake(t)
    BY <2>1, Zenon DEF SpuriousWake
  <2> QED BY <1>6, <2>1, StartReadGood, StepGood, Zenon DEF FInv
<1>7. CASE Configure \/ UNCHANGED vars
  BY <1>3, <1>7, Zenon DEF Configure, vars
<1> QED BY <1>3, <1>4, <1>5, <1>6, <1>7, Zenon DEF Next, Finished

------------------------------------------------------------------------------
INSTANCE DataTheorems

LEMMA Plans == PlanLaw
BY PlanCoversOnce, Zenon DEF PlanLaw

LEMMA Inductive == Spec => []IInv
  BY InitInv, NextInv, FiniteSetsObey, PTL DEF Spec

\* The state of readers and of reads in progress stays well formed; among other
\* things no read takes more than kMaxCooperativePasses passes and no identity
\* number is handed out past its bound.
THEOREM TypeCorrect == Spec => []TypeOK
<1>1. IInv => TypeOK
  BY Zenon DEF IInv
<1> QED BY <1>1, Inductive, PTL

\* Single flight: Acquire never makes two threads the owner of one block.
THEOREM SingleFlight == Spec => []SingleOwner
<1>1. IInv => SingleOwner
  BY Zenon DEF IInv, Ownership
<1> QED BY <1>1, Inductive, PTL

\* A pending block always has a thread that will publish or abandon it, on
\* every path out of ReadCached, errors and exceptions included.
THEOREM NothingLeftPending == Spec => []PendingHasOwner
<1>1. IInv => PendingHasOwner
  BY Zenon DEF IInv, Ownership
<1> QED BY <1>1, Inductive, PTL

\* ConfigureProcess never rebuilds the stripes under a reader that is open or
\* still in its destructor.
THEOREM NoRebuildUnderReaders == Spec => RebuildOnlyUnbound
<1>1. FiniteLaws /\ IInv /\ ConfigureProcess => \A r \in Reader : reader[r].life \in {"new", "closed"}
  BY UnboundMeansUnread, Zenon DEF ConfigureProcess
<1> QED BY <1>1, Inductive, FiniteSetsObey, PTL DEF RebuildOnlyUnbound

\* Once a reader of a private identity is closed, no block of its number is in
\* the store, claimed or resident: its destructor has been through every stripe,
\* and nobody else works under that number.
THEOREM PrivateBlocksGone == Spec => []PrivateBlocksDieWithReader
<1>1. Init => Purged
  BY Zenon DEF Init, Purged, Gone
<1>2. Purged => PrivateBlocksDieWithReader
  BY Zenon DEF Purged, Gone, PrivateBlocksDieWithReader
<1> QED BY <1>1, <1>2, PurgedNext, Inductive, PTL DEF Spec

LEMMA Sums == FiniteSums
BY SumsObey, Zenon DEF FiniteSums

\* Every stripe's account of itself is right, for any number of stripes, blocks
\* and threads: its counter is the bytes of its resident blocks and the process
\* counter the sum of those, its LRU list holds these blocks in one order, and
\* whatever Publish evicts and ~Binding purges, a stripe is over budget only
\* with a single block (BlockCache::EvictLocked).
THEOREM StripeAccounts == Spec => []StripesAreSound
  BY StripesInit, StripesNext, StripesSound, Inductive, FiniteSetsObey, Sums, PTL DEF Spec

LEMMA FullInductive == Spec => []FInv
  BY InitFull, NextFull, FiniteSetsObey, Plans, PTL DEF Spec

\* A thread owns nothing while it waits for another, for any number of threads,
\* readers and blocks: the plan of the owned blocks leaves none out, and every
\* request of it has been issued and published before the first Await
\* (CachedAssetReader::ReadCached).
THEOREM NothingHeldWhileAwaiting == Spec => []HoldNothingWhileAwaiting
<1>1. FInv => HoldNothingWhileAwaiting
  BY Local DEF FInv, ReadGood, Planned, HoldNothingWhileAwaiting
<1> QED BY <1>1, FullInductive, PTL

\* The check at the end of ReadCached is unreachable, as its comment says: the
\* overlaps of distinct blocks with the range are disjoint and together the
\* range; and hits and misses add up to the blocks of the span.
THEOREM BlocksCountedOnce == Spec => []EveryBlockCountedOnce
<1>1. ASSUME FInv, NEW t \in Thread
      PROVE  /\ read[t].result # "short"
             /\ (read[t].pc = "return" /\ read[t].result = "ok" /\ read[t].resolved # {})
                  => count[t].hits + count[t].misses = Cardinality(Span(t))
  <2>1. CASE read[t].pc = "idle"
    BY <1>1, <2>1 DEF FInv, Good, ThreadGood, NoRead
  <2>2. CASE read[t].pc # "idle"
    <3>1. DoneOK(read[t], AssetOf(t)) /\ CountOK(read[t], count[t])
      BY <1>1, <2>2, Local, Zenon DEF FInv, ReadGood
    <3> QED BY <3>1, Zenon DEF DoneOK, CountOK, Span, SpanOf
  <2> QED BY <2>1, <2>2, Zenon
<1>2. FInv => EveryBlockCountedOnce
  BY <1>1, Zenon DEF EveryBlockCountedOnce
<1> QED BY <1>2, FullInductive, PTL

\* Reads through the cache keep the contract of the reader inside it, for every
\* number of threads and readers, every plan and every eviction: a success gives
\* all the bytes of the clipped range and no other, each of the revision that
\* this reader opened, whoever fetched the block (CachedAssetReader::Read).
THEOREM CachedReadsKeepTheContract == Spec => ImplementsContract
<1>1. Init => Contract!Init
  <2>1. Init => \A t \in Thread : CallOf(t) = NoCall
    BY DEF Init, CallOf, NoRead, NoCall
  <2> QED BY <2>1, Zenon DEF Contract!Init, Contract!Idle, NoCall
<1> QED BY <1>1, FullInductive, FiniteSetsObey, Plans, ContractStep, PTL DEF Spec, ImplementsContract, Contract!Spec
==============================================================================

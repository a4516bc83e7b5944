------------------------ MODULE LocalAssetReaderProofs ------------------------
(***************************************************************************)
(* Proofs that readers of local files keep the contract of AssetReader     *)
(* whoever writes to the files, and that their counters are folded once,   *)
(* for any number of readers, threads, files and writes.                   *)
(***************************************************************************)
EXTENDS LocalAssetReader, DataLaws, TLAPS

Metric == [assetSize : Nat, bytesRequested : Nat, bytesTransferred : Nat,
           requestCount : Nat, metadataRequestCount : Nat]

FileType == [modifiedTicks : 0 .. MaxTicks, bytes : Seq(Nat)]

ReaderType ==
  [life : {"new", "open", "closing", "closed"}, stack : {"bare", "cached"}, path : Path,
   reads : Nat, modifiedTicks : 0 .. MaxTicks, bytes : Seq(Nat), layers : SUBSET Layer,
   metrics : [Layer -> Metric]]

ReadType ==
  [pc : {"idle", "copy", "check", "returned"}, reader : Reader \cup {NoReader},
   offset : Nat, length : Nat, dst : Seq(Nat), transport : {"Ok", "NetworkError"},
   status : {"none", "Ok", "InvalidArgument", "AssetChanged", "NetworkError", "InvalidResponse"},
   bytesRead : Nat]

\* A reader that was never opened has no path of its own.
TypeOK ==
  /\ file \in [Path -> FileType]
  /\ \A p \in Path : Len(file[p].bytes) <= MaxSize
  /\ DOMAIN reader = Reader
  /\ \A r \in Reader : reader[r] = NotOpened \/ (reader[r] \in ReaderType /\ reader[r].life # "new")
  /\ read \in [Thread -> ReadType]

\* What the open captured is what the file was, and still is unless its time
\* moved.
Captured ==
  \A r \in Reader : reader[r].life # "new" =>
    LET f == file[reader[r].path]
    IN  /\ reader[r].modifiedTicks <= f.modifiedTicks
        /\ reader[r].modifiedTicks = f.modifiedTicks => reader[r].bytes = f.bytes
        /\ Len(reader[r].bytes) <= MaxSize

\* The first n bytes of t's buffer are those its reader was opened on.
AsCaptured(t, n) ==
  \A i \in 1 .. n : read[t].dst[i] = reader[read[t].reader].bytes[read[t].offset + i]

\* A read copies within the size captured, and while the file's time has not
\* moved it has copied what was captured; one that returned has counted only
\* that.
ReadOK(t) ==
  LET me == read[t]
      r  == reader[me.reader]
  IN  \/ me = NoRead
      \/ /\ me.pc # "idle" /\ me.reader \in Reader /\ r.life = "open"
         /\ me.length > 0 => me.offset + me.length <= Len(r.bytes)
         /\ Len(me.dst) <= me.length
         /\ \/ /\ me.pc \in {"copy", "check"} /\ me.length > 0
               /\ file[r.path].modifiedTicks = r.modifiedTicks => AsCaptured(t, Len(me.dst))
            \/ /\ me.pc = "returned"
               /\ me.bytesRead <= Len(me.dst) /\ AsCaptured(t, me.bytesRead)
               /\ me.status = "Ok" => me.bytesRead = me.length
               /\ me.status = "AssetChanged" => me.bytesRead = 0

ReadsOK == \A t \in Thread : ReadOK(t)

\* The part of the invariant that is about bytes.
IInv == TypeOK /\ Captured /\ ReadsOK

-------------------------------------------------------------------------------
\* What the proofs use of finite sets and of sums over readers.
Laws == FiniteLaws /\ \A S \in SUBSET Reader : SumLaws(S)

LEMMA FiniteEmpty ==
  ASSUME Laws
  PROVE  IsFiniteSet({}) /\ Cardinality({}) = 0
BY Zenon DEF Laws, FiniteLaws, EmptyLaw

LEMMA FiniteCount ==
  ASSUME Laws, NEW S, IsFiniteSet(S)
  PROVE  Cardinality(S) \in Nat
BY Zenon DEF Laws, FiniteLaws, EmptyLaw

LEMMA FiniteSubset ==
  ASSUME Laws, NEW S, IsFiniteSet(S), NEW T \in SUBSET S
  PROVE  IsFiniteSet(T)
BY Zenon DEF Laws, FiniteLaws, SubsetLaw

LEMMA FiniteAdd ==
  ASSUME Laws, NEW S, NEW x, IsFiniteSet(S)
  PROVE  /\ IsFiniteSet(S \cup {x})
         /\ Cardinality(S \cup {x}) = IF x \in S THEN Cardinality(S) ELSE Cardinality(S) + 1
BY Zenon DEF Laws, FiniteLaws, AddLaw

LEMMA FiniteInterval ==
  ASSUME Laws, NEW a \in Int, NEW b \in Int
  PROVE  IsFiniteSet(a .. b)
BY Zenon DEF Laws, FiniteLaws, IntervalLaw

\* A sum depends on the terms alone.
LEMMA TotalSame ==
  ASSUME Laws, NEW S \in SUBSET Reader, NEW f, NEW g, \A x \in S : f[x] \in Int /\ g[x] = f[x]
  PROVE  SumFunctionOnSet(g, S) = SumFunctionOnSet(f, S)
<1>1. SumsExtend(S)
  BY Zenon DEF Laws, SumLaws
<1> QED BY <1>1, Zenon DEF SumsExtend

\* An element that joins the set adds its own value.
JoinsSum(g, f, S, x) ==
  x \notin S /\ g[x] \in Int /\ \A y \in S : f[y] \in Int /\ g[y] = f[y]
GrowsSum(g, f, S, x) == SumFunctionOnSet(g, S \cup {x}) = SumFunctionOnSet(f, S) + g[x]

LEMMA TotalAdd ==
  ASSUME Laws, NEW S \in SUBSET Reader, NEW f, NEW g, NEW x, JoinsSum(g, f, S, x)
  PROVE  GrowsSum(g, f, S, x)
<1>1. SumsAdd(S)
  BY Zenon DEF Laws, SumLaws
<1> QED BY <1>1, Zenon DEF SumsAdd, JoinsSum, GrowsSum

\* A finite set of integers has a largest.
LEMMA MaxOfFinite ==
  ASSUME Laws, NEW S \in SUBSET Int, IsFiniteSet(S), S # {}
  PROVE  Max(S) \in S /\ \A x \in S : x <= Max(S)
<1>1. \E m \in S : \A x \in S : m >= x
  <2>1. PICK m \in S : \A x \in S : x <= m
    BY Zenon DEF Laws, FiniteLaws, LargestLaw
  <2> QED BY <2>1, Zenon
<1> DEFINE m == CHOOSE y \in S : \A x \in S : y >= x
<1>2. m \in S /\ \A x \in S : m >= x
  BY <1>1, Zenon
<1>3. Max(S) = m
  BY Zenon DEF Max
<1> HIDE DEF m
<1>4. Max(S) \in S /\ \A x \in S : Max(S) >= x
  BY <1>2, <1>3, Zenon
<1> QED BY <1>4, Zenon

\* The larger of two.
LEMMA MaxOfTwo ==
  ASSUME Laws, NEW a \in Nat, NEW b \in Nat
  PROVE  Max({a, b}) = IF a < b THEN b ELSE a
<1>1. {a, b} \in SUBSET Int /\ {a, b} # {}
  OBVIOUS
<1>2. IsFiniteSet({a, b})
  <2>1. {a, b} = {a} \cup {b} /\ IsFiniteSet({a})
    <3>1. {a} = {} \cup {a} /\ {a, b} = {a} \cup {b}
      BY Zenon
    <3>2. IsFiniteSet({} \cup {a})
      BY FiniteEmpty, FiniteAdd, Zenon
    <3> QED BY <3>1, <3>2, Zenon
  <2>2. IsFiniteSet({a} \cup {b})
    BY <2>1, FiniteAdd, Zenon
  <2> QED BY <2>1, <2>2, Zenon
<1>3. Max({a, b}) \in {a, b} /\ \A x \in {a, b} : x <= Max({a, b})
  BY <1>1, <1>2, MaxOfFinite, Zenon
<1>4. PICK m : m = Max({a, b})
  BY Zenon
<1>5. (m = a \/ m = b) /\ a <= m /\ b <= m
  BY <1>3, <1>4, Zenon
<1>6. m = IF a < b THEN b ELSE a
  BY <1>5
<1> QED BY <1>4, <1>6, Zenon

\* A write comes after every write before it.
LEMMA TimeMoves ==
  ASSUME Laws, TypeOK, NEW p \in Path
  PROVE  LET now == 1 + Max({file[other].modifiedTicks : other \in Path})
         IN  now \in Nat /\ \A q \in Path : file[q].modifiedTicks < now
<1> DEFINE S == {file[other].modifiedTicks : other \in Path}
<1>1. S \in SUBSET (0 .. MaxTicks) /\ file[p].modifiedTicks \in S
  BY Zenon DEF TypeOK, FileType
<1>2. MaxTicks \in Nat
  BY LocalAssumption, Zenon
<1>3. IsFiniteSet(S)
  <2>1. IsFiniteSet(0 .. MaxTicks)
    BY <1>2, FiniteInterval
  <2> HIDE DEF S
  <2> QED BY <1>1, <2>1, FiniteSubset, Zenon
<1>4. Max(S) \in S /\ \A x \in S : x <= Max(S)
  <2> HIDE DEF S
  <2>1. S \in SUBSET Int /\ S # {}
    BY <1>1
  <2> QED BY <1>3, <2>1, MaxOfFinite, Zenon
<1>5. PICK m : m = Max(S)
  BY Zenon
<1>6. m \in Nat /\ \A q \in Path : file[q].modifiedTicks <= m /\ file[q].modifiedTicks \in Nat
  BY <1>1, <1>4, <1>5
<1>7. 1 + m \in Nat /\ \A q \in Path : file[q].modifiedTicks < 1 + m
  BY <1>6
<1> QED BY <1>5, <1>7, Zenon

-------------------------------------------------------------------------------
\* Counting keeps a reader's counters what they are.
LEMMA CountsTyped ==
  ASSUME NEW m \in Metric, NEW n \in Nat
  PROVE  /\ AddRequest(m) \in Metric /\ AddMetadataRequest(m) \in Metric
         /\ AddBytesRequested(m, n) \in Metric /\ AddBytesTransferred(m, n) \in Metric
<1>1. AddRequest(m) \in Metric
  BY DEF AddRequest, Metric
<1>2. AddMetadataRequest(m) \in Metric
  <2>1. \A k \in Metric : [k EXCEPT !.metadataRequestCount = @ + 1] \in Metric
    BY DEF Metric
  <2> QED BY <1>1, <2>1, Zenon DEF AddMetadataRequest
<1>3. AddBytesRequested(m, n) \in Metric
  BY DEF AddBytesRequested, Metric
<1>4. AddBytesTransferred(m, n) \in Metric
  BY DEF AddBytesTransferred, Metric
<1> QED BY <1>1, <1>2, <1>3, <1>4, Zenon

\* The records the model starts from have their types.
LEMMA Records ==
  /\ NoMetrics \in Metric
  /\ NoRead \in ReadType
  /\ \A n \in Nat : [NoMetrics EXCEPT !.assetSize = n] \in Metric
BY DEF NoMetrics, Metric, NoRead, ReadType

\* Init establishes the types.
LEMMA TypedInit == Init => TypeOK
<1> SUFFICES ASSUME Init
             PROVE  TypeOK
  BY Zenon
<1> DEFINE zeros == [i \in 1 .. FirstSize |-> 0]
<1>1. FirstSize \in Nat /\ MaxSize \in Nat /\ MaxTicks \in Nat /\ FirstSize <= MaxSize
  BY LocalAssumption, Zenon
<1>2. zeros \in Seq(Nat) /\ Len(zeros) = FirstSize
  BY <1>1
<1>3. [modifiedTicks |-> 0, bytes |-> zeros] \in FileType
  BY <1>1, <1>2 DEF FileType
<1> HIDE DEF zeros
<1>4. file = [p \in Path |-> [modifiedTicks |-> 0, bytes |-> zeros]]
  BY Zenon DEF Init, zeros
<1>5. \A p \in Path : Len(file[p].bytes) <= MaxSize
  BY <1>1, <1>2, <1>4, Zenon
<1>6. read \in [Thread -> ReadType]
  BY Records, Zenon DEF Init
<1> QED BY <1>3, <1>4, <1>5, <1>6, Zenon DEF TypeOK, Init

\* A call that goes on in a record of its type leaves the calls typed.
LEMMA GoesTyped ==
  ASSUME TypeOK, NEW t \in Thread, NEW o \in ReadType, Goes(t, o)
  PROVE  /\ read' \in [Thread -> ReadType] /\ read'[t] = o
         /\ \A u \in Thread : u # t => read'[u] = read[u]
BY Zenon DEF TypeOK, Goes

\* A reader that counts stays the reader it is.
LEMMA CountsKeeps ==
  ASSUME TypeOK, ReadsOK, NEW t \in Thread, read[t].pc # "idle", NEW m \in Metric, Counts(t, m)
  PROVE  /\ DOMAIN reader' = Reader
         /\ read[t].reader \in Reader
         /\ reader[read[t].reader] \in ReaderType
         /\ reader'[read[t].reader] \in ReaderType
         /\ reader'[read[t].reader].metrics = [reader[read[t].reader].metrics EXCEPT !["inner"] = m]
         /\ \A r \in Reader :
              /\ r # read[t].reader => reader'[r] = reader[r]
              /\ reader'[r].life = reader[r].life /\ reader'[r].stack = reader[r].stack
              /\ reader'[r].path = reader[r].path /\ reader'[r].layers = reader[r].layers
              /\ reader'[r].modifiedTicks = reader[r].modifiedTicks
              /\ reader'[r].bytes = reader[r].bytes
<1>1. PICK x \in Reader : x = read[t].reader
  BY DEF ReadsOK, ReadOK, NoRead
<1>2. reader[x].life = "open"
  BY <1>1 DEF ReadsOK, ReadOK, NoRead
<1>3. reader[x] \in ReaderType
  BY <1>2 DEF TypeOK, NotOpened
<1>4. reader' = [reader EXCEPT ![x].metrics.inner = m]
  BY <1>1, Zenon DEF Counts
<1>5. reader'[x] = [reader[x] EXCEPT !.metrics.inner = m] /\ DOMAIN reader' = Reader
      /\ \A r \in Reader : r # x => reader'[r] = reader[r]
  BY <1>4, Zenon DEF TypeOK
<1>6. PICK w \in ReaderType : w = reader[x]
  BY <1>3, Zenon
<1>7. reader'[x] = [w EXCEPT !.metrics = [w.metrics EXCEPT !["inner"] = m]]
  BY <1>5, <1>6, Zenon
<1>8. [w.metrics EXCEPT !["inner"] = m] \in [Layer -> Metric]
  BY Zenon DEF ReaderType, Layer
<1>9. PICK k \in [Layer -> Metric] : k = [w.metrics EXCEPT !["inner"] = m]
  BY <1>8, Zenon
<1>10. reader'[x] = [w EXCEPT !.metrics = k]
  BY <1>7, <1>9, Zenon
<1>11. /\ reader'[x] \in ReaderType /\ reader'[x].metrics = k
       /\ reader'[x].life = w.life /\ reader'[x].stack = w.stack
       /\ reader'[x].path = w.path /\ reader'[x].layers = w.layers
       /\ reader'[x].modifiedTicks = w.modifiedTicks /\ reader'[x].bytes = w.bytes
  BY <1>10, Zenon DEF ReaderType
<1> QED BY <1>1, <1>3, <1>5, <1>6, <1>9, <1>11, Zenon

\* What the open captured stays, and the reader's life goes on.
Stands(r) ==
  /\ reader'[r].life = reader[r].life /\ reader'[r].path = reader[r].path
  /\ reader'[r].modifiedTicks = reader[r].modifiedTicks /\ reader'[r].bytes = reader[r].bytes

\* A read that does not move, of a reader that stands, is as it was.
LEMMA OthersOK ==
  ASSUME NEW u \in Thread, ReadOK(u), read'[u] = read[u], file' = file,
         read[u] = NoRead \/ Stands(read[u].reader)
  PROVE  ReadOK(u)'
<1>1. CASE read[u] = NoRead
  BY <1>1, Zenon DEF ReadOK
<1>2. CASE read[u] # NoRead
  <2>1. \A n : AsCaptured(u, n)' <=> AsCaptured(u, n)
    BY <1>2, Zenon DEF AsCaptured, Stands
  <2> QED BY <1>2, <2>1, Zenon DEF ReadOK, Stands
<1> QED BY <1>1, <1>2, Zenon

\* A write moves the time of the file, past everything captured of it.
LEMMA WriteKeeps ==
  ASSUME Laws, IInv, NEW p \in Path, Write(p)
  PROVE  IInv'
<1> DEFINE now == 1 + Max({file[other].modifiedTicks : other \in Path})
<1>1. now \in Nat /\ \A q \in Path : file[q].modifiedTicks < now
  BY TimeMoves, Zenon DEF IInv
<1>2. now <= MaxTicks /\ reader' = reader /\ read' = read
  BY Zenon DEF Write
<1> DEFINE was == file[p].bytes
<1>3. PICK bytes \in {[was EXCEPT ![i] = now] : i \in DOMAIN was}
                       \cup (IF was # <<>> THEN {SubSeq(was, 1, Len(was) - 1)} ELSE {})
                       \cup (IF Len(was) < MaxSize THEN {Append(was, now)} ELSE {}) :
        file' = [file EXCEPT ![p] = [modifiedTicks |-> now, bytes |-> bytes]]
  BY Zenon DEF Write
<1> HIDE DEF now
<1>4. was \in Seq(Nat) /\ Len(was) <= MaxSize /\ MaxSize \in Nat /\ MaxTicks \in Nat
  BY LocalAssumption, Zenon DEF IInv, TypeOK, FileType
<1>5. bytes \in Seq(Nat) /\ Len(bytes) <= MaxSize
  <2> HIDE DEF was
  <2>1. ASSUME NEW i \in DOMAIN was, bytes = [was EXCEPT ![i] = now]
        PROVE  bytes \in Seq(Nat) /\ Len(bytes) <= MaxSize
    BY <1>1, <1>4, <2>1
  <2>2. CASE was # <<>> /\ bytes = SubSeq(was, 1, Len(was) - 1)
    BY <1>4, <2>2
  <2>3. CASE Len(was) < MaxSize /\ bytes = Append(was, now)
    BY <1>1, <1>4, <2>3
  <2> QED BY <1>3, <2>1, <2>2, <2>3, Zenon
<1>6. [modifiedTicks |-> now, bytes |-> bytes] \in FileType
  BY <1>1, <1>2, <1>4, <1>5 DEF FileType
<1>7. file \in [Path -> FileType]
  BY Zenon DEF IInv, TypeOK
<1>8. file' \in [Path -> FileType] /\ \A q \in Path : Len(file'[q].bytes) <= MaxSize
  BY <1>3, <1>5, <1>6, <1>7, Zenon DEF IInv, TypeOK
<1>9. TypeOK'
  BY <1>2, <1>8, Zenon DEF IInv, TypeOK
<1>10. file'[p].modifiedTicks = now /\ \A q \in Path : q # p => file'[q] = file[q]
  BY <1>3, <1>7, Zenon
<1>11. \A q \in Path : file[q].modifiedTicks \in Nat
  BY <1>4, <1>7 DEF FileType
<1>12. ASSUME NEW r \in Reader, reader[r].life # "new"
       PROVE  /\ reader[r].path \in Path /\ reader[r].modifiedTicks \in Nat
              /\ reader[r].modifiedTicks <= file[reader[r].path].modifiedTicks
              /\ reader[r].modifiedTicks <= file'[reader[r].path].modifiedTicks
              /\ reader[r].path = p => reader[r].modifiedTicks < file'[p].modifiedTicks
  <2>1. reader[r] \in ReaderType
    BY <1>12 DEF IInv, TypeOK, NotOpened
  <2>2. reader[r].path \in Path /\ reader[r].modifiedTicks \in Nat
    BY <1>4, <2>1 DEF ReaderType
  <2>3. reader[r].modifiedTicks <= file[reader[r].path].modifiedTicks
    BY <1>12, Zenon DEF IInv, Captured
  <2> QED BY <1>1, <1>10, <1>11, <2>2, <2>3
<1>13. Captured'
  <2> SUFFICES ASSUME NEW r \in Reader, reader[r].life # "new"
               PROVE  LET f == file'[reader[r].path]
                      IN  /\ reader[r].modifiedTicks <= f.modifiedTicks
                          /\ reader[r].modifiedTicks = f.modifiedTicks => reader[r].bytes = f.bytes
                          /\ Len(reader[r].bytes) <= MaxSize
    BY <1>2, Zenon DEF Captured
  <2>1. CASE reader[r].path = p
    BY <1>1, <1>10, <1>12, <2>1 DEF IInv, Captured
  <2>2. CASE reader[r].path # p
    BY <1>10, <1>12, <2>2, Zenon DEF IInv, Captured
  <2> QED BY <2>1, <2>2, Zenon
<1>14. ReadsOK'
  <2> SUFFICES ASSUME NEW t \in Thread, read[t] # NoRead
               PROVE  ReadOK(t)'
    BY <1>2, Zenon DEF ReadsOK, ReadOK
  <2>1. ReadOK(t) /\ \A n : AsCaptured(t, n)' <=> AsCaptured(t, n)
    BY <1>2, Zenon DEF IInv, ReadsOK, AsCaptured
  <2>2. PICK r \in Reader : r = read[t].reader /\ reader[r].life = "open"
    BY <2>1, Zenon DEF ReadOK
  <2>3. \/ reader[r].path = p /\ file'[reader[r].path].modifiedTicks # reader[r].modifiedTicks
        \/ file'[reader[r].path] = file[reader[r].path]
    BY <1>1, <1>10, <1>12, <2>2
  <2> QED BY <1>2, <2>1, <2>2, <2>3, Zenon DEF ReadOK
<1> QED BY <1>9, <1>13, <1>14, Zenon DEF IInv

\* What a decorating reader absorbs: the transport's counters, beside its own.
LEMMA Absorbed ==
  ASSUME Laws, NEW m \in Metric, NEW k \in Metric
  PROVE  /\ AbsorbTransport(m, k) \in Metric
         /\ AbsorbTransport(m, k).assetSize = IF m.assetSize < k.assetSize THEN k.assetSize ELSE m.assetSize
         /\ AbsorbTransport(m, k).bytesRequested = m.bytesRequested
         /\ AbsorbTransport(m, k).bytesTransferred = m.bytesTransferred + k.bytesTransferred
         /\ AbsorbTransport(m, k).requestCount = m.requestCount + k.requestCount
         /\ AbsorbTransport(m, k).metadataRequestCount = m.metadataRequestCount + k.metadataRequestCount
<1>1. m.assetSize \in Nat /\ k.assetSize \in Nat
  BY Zenon DEF Metric
<1>2. PICK n \in Nat : n = Max({m.assetSize, k.assetSize})
                       /\ n = IF m.assetSize < k.assetSize THEN k.assetSize ELSE m.assetSize
  BY <1>1, MaxOfTwo, Zenon
<1>3. PICK a \in Nat, b \in Nat, c \in Nat :
        /\ a = m.bytesTransferred + k.bytesTransferred
        /\ b = m.requestCount + k.requestCount
        /\ c = m.metadataRequestCount + k.metadataRequestCount
  BY DEF Metric
<1>4. AbsorbTransport(m, k) =
        [m EXCEPT !.assetSize = n, !.bytesTransferred = a, !.requestCount = b,
                  !.metadataRequestCount = c]
  BY <1>2, <1>3, Zenon DEF AbsorbTransport
<1>5. PICK x : x = AbsorbTransport(m, k)
  BY Zenon
<1>6. /\ x \in Metric /\ x.assetSize = n /\ x.bytesRequested = m.bytesRequested
      /\ x.bytesTransferred = a /\ x.requestCount = b /\ x.metadataRequestCount = c
  BY <1>4, <1>5, Zenon DEF Metric
<1> QED BY <1>2, <1>3, <1>5, <1>6, Zenon

\* The reader that Open makes.
Opened(p, stack) ==
  LET sized == [NoMetrics EXCEPT !.assetSize = Len(file[p].bytes)]
  IN  [life |-> "open", stack |-> stack, path |-> p, reads |-> 0,
       modifiedTicks |-> file[p].modifiedTicks, bytes |-> file[p].bytes,
       layers |-> IF stack = "bare" THEN {"inner"} ELSE Layer,
       metrics |-> [inner |-> AddMetadataRequest(sized), outer |-> sized]]

\* Open makes it, and nothing else.
LEMMA OpenMakes ==
  ASSUME TypeOK, NEW r \in Reader, NEW p \in Path, NEW stack \in {"bare", "cached"}, Open(r, p, stack)
  PROVE  /\ reader' = [reader EXCEPT ![r] = Opened(p, stack)]
         /\ Opened(p, stack) \in ReaderType
         /\ file' = file /\ read' = read /\ registry' = registry /\ reader[r].life = "new"
<1>1. reader' = [reader EXCEPT ![r] = Opened(p, stack)]
  <2> DEFINE size == [NoMetrics EXCEPT !.assetSize = Len(file[p].bytes)]
             made == [NotOpened EXCEPT
                        !.life = "open", !.stack = stack, !.path = p,
                        !.modifiedTicks = file[p].modifiedTicks, !.bytes = file[p].bytes,
                        !.layers = IF stack = "bare" THEN {"inner"} ELSE Layer,
                        !.metrics = [inner |-> AddMetadataRequest(size), outer |-> size]]
  <2>1. PICK any, none, empty, no : NotOpened =
          [life |-> "new", stack |-> "bare", path |-> any, reads |-> 0,
           modifiedTicks |-> 0, bytes |-> empty, layers |-> no, metrics |-> none]
    BY Zenon DEF NotOpened
  <2>2. made = Opened(p, stack)
    <3> HIDE DEF size
    <3>1. Opened(p, stack) =
            [life |-> "open", stack |-> stack, path |-> p, reads |-> 0,
             modifiedTicks |-> file[p].modifiedTicks, bytes |-> file[p].bytes,
             layers |-> IF stack = "bare" THEN {"inner"} ELSE Layer,
             metrics |-> [inner |-> AddMetadataRequest(size), outer |-> size]]
      BY Zenon DEF Opened, size
    <3>2. PICK ls, ms : /\ ls = IF stack = "bare" THEN {"inner"} ELSE Layer
                        /\ ms = [inner |-> AddMetadataRequest(size), outer |-> size]
      BY Zenon
    <3>3. made = [[life |-> "new", stack |-> "bare", path |-> any, reads |-> 0,
                   modifiedTicks |-> 0, bytes |-> empty, layers |-> no, metrics |-> none] EXCEPT
                     !.life = "open", !.stack = stack, !.path = p,
                     !.modifiedTicks = file[p].modifiedTicks, !.bytes = file[p].bytes,
                     !.layers = ls, !.metrics = ms]
      BY <2>1, <3>2, Zenon
    <3> HIDE DEF made
    <3>4. PICK ticks, bytes : ticks = file[p].modifiedTicks /\ bytes = file[p].bytes
      BY Zenon
    <3>5. made = [life |-> "open", stack |-> stack, path |-> p, reads |-> 0, modifiedTicks |-> ticks,
                  bytes |-> bytes, layers |-> ls, metrics |-> ms]
      BY <3>3, <3>4, Zenon
    <3> QED BY <3>1, <3>2, <3>4, <3>5, Zenon
  <2>3. reader' = [reader EXCEPT ![r] = made]
    BY Zenon DEF Open
  <2> QED BY <2>2, <2>3, Zenon
<1>2. file[p] \in FileType
  BY Zenon DEF TypeOK
<1> DEFINE sized == [NoMetrics EXCEPT !.assetSize = Len(file[p].bytes)]
<1>3. sized \in Metric
  BY <1>2, Records DEF FileType
<1>4. AddMetadataRequest(sized) \in Metric
  BY <1>3, CountsTyped, Zenon
<1>5. PICK a \in Metric, b \in Metric : a = AddMetadataRequest(sized) /\ b = sized
  BY <1>3, <1>4, Zenon
<1>6. [inner |-> a, outer |-> b] \in [Layer -> Metric]
  BY DEF Layer
<1>7. PICK ms \in [Layer -> Metric] : ms = [inner |-> AddMetadataRequest(sized), outer |-> sized]
  BY <1>5, <1>6, Zenon
<1> HIDE DEF sized
<1>8. PICK ls \in SUBSET Layer : ls = IF stack = "bare" THEN {"inner"} ELSE Layer
  BY Zenon DEF Layer
<1>9. Opened(p, stack) = [life |-> "open", stack |-> stack, path |-> p, reads |-> 0,
       modifiedTicks |-> file[p].modifiedTicks, bytes |-> file[p].bytes, layers |-> ls, metrics |-> ms]
  BY <1>7, <1>8, Zenon DEF Opened, sized
<1>10. Opened(p, stack) \in ReaderType
  BY <1>2, <1>9 DEF ReaderType, FileType
<1> QED BY <1>1, <1>10, Zenon DEF Open

\* A reader's own fields change, with what the open captured left as it is.
LEMMA ReaderKeeps ==
  ASSUME IInv, NEW r \in Reader, NEW w \in ReaderType, w.life # "new",
         reader' = [reader EXCEPT ![r] = w], file' = file, reader[r].life # "new",
         w.path = reader[r].path, w.modifiedTicks = reader[r].modifiedTicks, w.bytes = reader[r].bytes
  PROVE  /\ DOMAIN reader' = Reader /\ reader'[r] = w
         /\ \A x \in Reader : x # r => reader'[x] = reader[x]
         /\ \A x \in Reader : reader'[x] = NotOpened \/ (reader'[x] \in ReaderType /\ reader'[x].life # "new")
         /\ Captured'
<1>1. DOMAIN reader' = Reader /\ reader'[r] = w /\ \A x \in Reader : x # r => reader'[x] = reader[x]
  BY Zenon DEF IInv, TypeOK
<1>2. \A x \in Reader : reader'[x] = NotOpened \/ (reader'[x] \in ReaderType /\ reader'[x].life # "new")
  BY <1>1, Zenon DEF IInv, TypeOK
<1>3. Captured'
  BY <1>1 DEF IInv, Captured
<1> QED BY <1>1, <1>2, <1>3, Zenon

\* The reader that Close leaves: its outer counters take over the inner ones of
\* a stack.
LEMMA CloseMakes ==
  ASSUME Laws, NEW r \in Reader, reader[r] \in ReaderType, Close(r)
  PROVE  \E k \in Metric, ms \in [Layer -> Metric] :
           /\ k = IF reader[r].stack = "cached"
                  THEN AbsorbTransport(reader[r].metrics.outer, reader[r].metrics.inner)
                  ELSE reader[r].metrics.outer
           /\ ms = [reader[r].metrics EXCEPT !.outer = k]
           /\ reader' = [reader EXCEPT ![r] = [reader[r] EXCEPT !.life = "closing", !.metrics = ms]]
<1>1. reader[r].metrics \in [Layer -> Metric]
  BY Zenon DEF ReaderType
<1>2. PICK k \in Metric : k = IF reader[r].stack = "cached"
                              THEN AbsorbTransport(reader[r].metrics.outer, reader[r].metrics.inner)
                              ELSE reader[r].metrics.outer
  BY <1>1, Absorbed, Zenon DEF Layer
<1>3. PICK ms \in [Layer -> Metric] : ms = [reader[r].metrics EXCEPT !.outer = k]
  BY <1>1, Zenon DEF Layer
<1>4. reader' = [reader EXCEPT ![r].life = "closing", ![r].metrics.outer = k]
  BY <1>2, Zenon DEF Close
<1>5. reader' = [reader EXCEPT ![r] = [reader[r] EXCEPT !.life = "closing", !.metrics = ms]]
  BY <1>3, <1>4, Zenon
<1> QED BY <1>2, <1>3, <1>5, Zenon

\* Opening and destroying keep the invariant.
LEMMA LifeKeeps ==
  ASSUME Laws, IInv, NEW r \in Reader,
         \/ \E p \in Path, stack \in {"bare", "cached"} : Open(r, p, stack)
         \/ Close(r)
         \/ \E layer \in Layer : DestroyMetrics(r, layer)
  PROVE  IInv'
<1>1. ASSUME NEW p \in Path, NEW stack \in {"bare", "cached"}, Open(r, p, stack)
      PROVE  IInv'
  <2>1. /\ reader' = [reader EXCEPT ![r] = Opened(p, stack)]
        /\ Opened(p, stack) \in ReaderType
        /\ file' = file /\ read' = read /\ reader[r].life = "new"
    BY <1>1, OpenMakes, Zenon DEF IInv
  <2>2. reader'[r] = Opened(p, stack) /\ \A x \in Reader : x # r => reader'[x] = reader[x]
    BY <2>1, Zenon DEF IInv, TypeOK
  <2>3. TypeOK'
    BY <2>1, <2>2, Zenon DEF IInv, TypeOK, Opened
  <2>4. Captured'
    <3>1. /\ reader'[r].path = p /\ reader'[r].modifiedTicks = file[p].modifiedTicks
          /\ reader'[r].bytes = file[p].bytes
      BY <2>2 DEF Opened
    <3>2. file[p].modifiedTicks <= file[p].modifiedTicks /\ Len(file[p].bytes) <= MaxSize
      BY LocalAssumption DEF IInv, TypeOK, FileType
    <3> QED BY <2>1, <2>2, <3>1, <3>2, Zenon DEF IInv, Captured
  <2>5. ReadsOK'
    <3> SUFFICES ASSUME NEW u \in Thread
                 PROVE  ReadOK(u)'
      BY Zenon DEF ReadsOK
    <3>1. ReadOK(u)
      BY Zenon DEF IInv, ReadsOK
    <3>2. read[u] = NoRead \/ (read[u].reader \in Reader /\ read[u].reader # r)
      BY <2>1, <3>1, Zenon DEF ReadOK
    <3>3. read[u] = NoRead \/ Stands(read[u].reader)
      BY <2>2, <3>2, Zenon DEF Stands
    <3> QED BY <2>1, <3>1, <3>3, OthersOK, Zenon
  <2> QED BY <2>3, <2>4, <2>5, Zenon DEF IInv
<1>2. CASE Close(r) \/ \E layer \in Layer : DestroyMetrics(r, layer)
  <2>1. reader[r] \in ReaderType /\ read' = read /\ file' = file
    <3>1. reader[r].life # "new" /\ read' = read /\ file' = file
      BY <1>2, Zenon DEF Close, DestroyMetrics
    <3>2. NotOpened.life = "new"
      BY Zenon DEF NotOpened
    <3> QED BY <3>1, <3>2, Zenon DEF IInv, TypeOK
  <2>2. \A u \in Thread : read[u].reader # r
    <3>1. CASE Close(r)
      BY <3>1, Zenon DEF Close
    <3>2. CASE reader[r].life = "closing"
      BY <3>2, LocalAssumption DEF IInv, ReadsOK, ReadOK, NoRead
    <3> QED BY <1>2, <3>1, <3>2, Zenon DEF DestroyMetrics
  <2>3. PICK w \in ReaderType :
          /\ reader' = [reader EXCEPT ![r] = w] /\ w.life # "new"
          /\ w.path = reader[r].path /\ w.modifiedTicks = reader[r].modifiedTicks
          /\ w.bytes = reader[r].bytes
    <3>1. CASE Close(r)
      <4>4. PICK ms \in [Layer -> Metric] :
              reader' = [reader EXCEPT ![r] = [reader[r] EXCEPT !.life = "closing", !.metrics = ms]]
        BY <2>1, <3>1, CloseMakes, Zenon
      <4>5. PICK w : w = [reader[r] EXCEPT !.life = "closing", !.metrics = ms]
        BY Zenon
      <4>6. /\ w \in ReaderType /\ w.life = "closing" /\ w.path = reader[r].path
            /\ w.modifiedTicks = reader[r].modifiedTicks /\ w.bytes = reader[r].bytes
        BY <2>1, <4>5, Zenon DEF ReaderType
      <4> QED BY <4>4, <4>5, <4>6, Zenon
    <3>2. ASSUME NEW layer \in Layer, DestroyMetrics(r, layer)
          PROVE  \E w \in ReaderType :
                   /\ reader' = [reader EXCEPT ![r] = w] /\ w.life # "new"
                   /\ w.path = reader[r].path /\ w.modifiedTicks = reader[r].modifiedTicks
                   /\ w.bytes = reader[r].bytes
      <4>1. PICK w : w = [reader[r] EXCEPT !.layers = @ \ {layer},
                                           !.life = IF layer = "inner" THEN "closed" ELSE @]
        BY Zenon
      <4>2. reader' = [reader EXCEPT ![r] = w]
        BY <3>2, <4>1, Zenon DEF DestroyMetrics
      <4>3. /\ w \in ReaderType /\ w.life # "new" /\ w.path = reader[r].path
            /\ w.modifiedTicks = reader[r].modifiedTicks /\ w.bytes = reader[r].bytes
        BY <2>1, <3>2, <4>1, Zenon DEF ReaderType, DestroyMetrics
      <4> QED BY <4>2, <4>3, Zenon
    <3> QED BY <1>2, <3>1, <3>2, Zenon
  <2>4. /\ DOMAIN reader' = Reader
        /\ \A x \in Reader : x # r => reader'[x] = reader[x]
        /\ \A x \in Reader : reader'[x] = NotOpened \/ (reader'[x] \in ReaderType /\ reader'[x].life # "new")
        /\ Captured'
    <3>1. reader[r].life # "new"
      BY <1>2, Zenon DEF Close, DestroyMetrics
    <3> QED BY <2>1, <2>3, <3>1, ReaderKeeps, Zenon
  <2>5. TypeOK'
    BY <2>1, <2>4, Zenon DEF IInv, TypeOK
  <2>6. ReadsOK'
    <3> SUFFICES ASSUME NEW u \in Thread
                 PROVE  ReadOK(u)'
      BY Zenon DEF ReadsOK
    <3>1. ReadOK(u)
      BY Zenon DEF IInv, ReadsOK
    <3>2. read[u] = NoRead \/ Stands(read[u].reader)
      BY <2>2, <2>4, <3>1, Zenon DEF ReadOK, Stands
    <3> QED BY <2>1, <3>1, <3>2, OthersOK, Zenon
  <2> QED BY <2>4, <2>5, <2>6, Zenon DEF IInv
<1> QED BY <1>1, <1>2, Zenon

\* A range that is to be copied is not empty and lies within the asset.
LEMMA RangeFits ==
  ASSUME NEW offset \in Nat, NEW size \in Nat, NEW assetSize \in Nat,
         NEW range, range = ResolveReadRange(offset, size, assetSize, MaxOffset)
  PROVE  /\ range.offset = offset /\ range.length \in Nat
         /\ range.outcome = "Transfer" => range.length > 0 /\ offset + range.length <= assetSize
         /\ range.outcome # "Transfer" => range.length = 0
<1>1. MaxOffset \in Nat
  BY LocalAssumption, Zenon
<1> QED BY <1>1 DEF ResolveReadRange

\* A read that begins keeps the invariant.
LEMMA StartKeeps ==
  ASSUME IInv, NEW t \in Thread, NEW r \in Reader, NEW q \in Request, StartRead(t, r, q)
  PROVE  /\ IInv' /\ file' = file
         /\ \A x \in Reader : Stands(x)
         /\ read[t].pc = "idle" /\ \A u \in Thread : u # t => read'[u] = read[u]
         /\ \/ read'[t].length = 0
            \/ /\ read'[t].length > 0 /\ read'[t].pc = "copy" /\ read'[t].reader = r
<1>1. q[1] \in Nat /\ q[2] \in Nat
  BY LocalAssumption, Zenon
<1>2. reader[r].life = "open" /\ read[t].pc = "idle" /\ file' = file
  BY Zenon DEF StartRead
<1>3. reader[r] \in ReaderType
  BY <1>2 DEF IInv, TypeOK, NotOpened
<1>4. Len(reader[r].bytes) \in Nat /\ reader[r].metrics \in [Layer -> Metric] /\ reader[r].reads \in Nat
  BY <1>3 DEF ReaderType
<1> DEFINE range == ResolveReadRange(q[1], q[2], Len(reader[r].bytes), MaxOffset)
           call  == [NoRead EXCEPT !.reader = r, !.offset = range.offset, !.length = range.length]
           next  == IF range.outcome = "Transfer"
                    THEN [call EXCEPT !.pc = "copy"]
                    ELSE [call EXCEPT !.pc = "returned",
                                      !.status = IF range.outcome = "Empty" THEN "Ok"
                                                 ELSE "InvalidArgument"]
<1>5. /\ range.offset \in Nat /\ range.length \in Nat
      /\ range.outcome = "Transfer" => range.length > 0 /\ range.offset + range.length <= Len(reader[r].bytes)
      /\ range.outcome # "Transfer" => range.length = 0
  <2>1. PICK a \in Nat, b \in Nat, n \in Nat : a = q[1] /\ b = q[2] /\ n = Len(reader[r].bytes)
    BY <1>1, <1>4, Zenon
  <2>2. range = ResolveReadRange(a, b, n, MaxOffset)
    BY <2>1, Zenon
  <2>3. /\ range.offset = a /\ range.length \in Nat
        /\ range.outcome = "Transfer" => range.length > 0 /\ a + range.length <= n
        /\ range.outcome # "Transfer" => range.length = 0
    <3> HIDE DEF range
    <3> QED BY <2>2, RangeFits
  <2> HIDE DEF range
  <2> QED BY <2>1, <2>3, Zenon
<1>6. Goes(t, next)
  BY Zenon DEF StartRead
<1> HIDE DEF range
<1>7. /\ next \in ReadType /\ next.reader = r /\ next.offset = range.offset /\ next.length = range.length
      /\ next.dst = <<>> /\ next.bytesRead = 0
      /\ range.outcome = "Transfer" => next.pc = "copy"
      /\ range.outcome # "Transfer" => next.pc = "returned" /\ next.status \in {"Ok", "InvalidArgument"}
  <2>1. PICK a \in Nat, b \in Nat : a = range.offset /\ b = range.length
    BY <1>5, Zenon
  <2>2. PICK c \in ReadType : c = call /\ c.reader = r /\ c.offset = a /\ c.length = b
                              /\ c.dst = <<>> /\ c.bytesRead = 0
    <3>1. PICK c : c = [NoRead EXCEPT !.reader = r, !.offset = a, !.length = b]
      BY Zenon
    <3>2. c \in ReadType /\ c.reader = r /\ c.offset = a /\ c.length = b
          /\ c.dst = NoRead.dst /\ c.bytesRead = NoRead.bytesRead
      BY <3>1, Records, Zenon DEF ReadType
    <3>3. NoRead.dst = <<>> /\ NoRead.bytesRead = 0
      BY Zenon DEF NoRead
    <3> QED BY <2>1, <3>1, <3>2, <3>3, Zenon
  <2>3. CASE range.outcome = "Transfer"
    <3>1. next = [c EXCEPT !.pc = "copy"]
      BY <2>2, <2>3, Zenon
    <3> HIDE DEF next
    <3> QED BY <2>1, <2>2, <2>3, <3>1, Zenon DEF ReadType
  <2>4. CASE range.outcome # "Transfer"
    <3>1. PICK s \in {"Ok", "InvalidArgument"} :
            next = [c EXCEPT !.pc = "returned", !.status = s]
      BY <2>2, <2>4, Zenon
    <3> HIDE DEF next
    <3> QED BY <2>1, <2>2, <2>4, <3>1, Zenon DEF ReadType
  <2> QED BY <2>3, <2>4, Zenon
<1> HIDE DEF next
<1>8. read' \in [Thread -> ReadType] /\ read'[t] = next /\ \A u \in Thread : u # t => read'[u] = read[u]
  BY <1>6, <1>7, GoesTyped, Zenon DEF IInv
<1>9. PICK ms : ms = [l \in Layer |-> IF l \in reader[r].layers
                                      THEN AddBytesRequested(reader[r].metrics[l], q[2])
                                      ELSE reader[r].metrics[l]]
  BY Zenon
<1>10. ms \in [Layer -> Metric]
  <2>1. \A l \in Layer : reader[r].metrics[l] \in Metric
    BY <1>4, Zenon
  <2>2. \A l \in Layer : AddBytesRequested(reader[r].metrics[l], q[2]) \in Metric
    BY <1>1, <2>1, CountsTyped, Zenon
  <2> QED BY <1>9, <2>1, <2>2, Zenon
<1>11. PICK w : w = [reader[r] EXCEPT !.reads = @ + 1, !.metrics = ms]
  BY Zenon
<1>12. reader' = [reader EXCEPT ![r] = w]
  BY <1>9, <1>11, Zenon DEF StartRead
<1>13. /\ w \in ReaderType /\ w.life = "open" /\ w.path = reader[r].path
       /\ w.modifiedTicks = reader[r].modifiedTicks /\ w.bytes = reader[r].bytes
  <2>1. PICK n \in Nat : n = reader[r].reads + 1
    BY <1>4
  <2>2. w = [reader[r] EXCEPT !.reads = n, !.metrics = ms]
    BY <1>11, <2>1, Zenon
  <2> QED BY <1>2, <1>3, <1>10, <2>2, Zenon DEF ReaderType
<1>14. /\ DOMAIN reader' = Reader /\ reader'[r] = w
       /\ \A x \in Reader : x # r => reader'[x] = reader[x]
       /\ \A x \in Reader : reader'[x] = NotOpened \/ (reader'[x] \in ReaderType /\ reader'[x].life # "new")
       /\ Captured'
  BY <1>2, <1>12, <1>13, ReaderKeeps, Zenon
<1>15. TypeOK'
  BY <1>2, <1>8, <1>14, Zenon DEF IInv, TypeOK
<1>16. \A x \in Reader : Stands(x)
  BY <1>2, <1>13, <1>14, Zenon DEF Stands
<1>17. ReadOK(t)'
  <2>1. Len(next.dst) = 0 /\ next.bytesRead = 0 /\ next # NoRead
    BY <1>7 DEF NoRead
  <2>2. AsCaptured(t, 0)'
    BY DEF AsCaptured
  <2> QED BY <1>5, <1>7, <1>8, <1>13, <1>14, <2>1, <2>2 DEF ReadOK
<1>18. ASSUME NEW u \in Thread, u # t
       PROVE  ReadOK(u)'
  <2>1. ReadOK(u)
    BY Zenon DEF IInv, ReadsOK
  <2>2. read[u] = NoRead \/ Stands(read[u].reader)
    BY <1>16, <2>1, Zenon DEF ReadOK
  <2> QED BY <1>2, <1>8, <1>18, <2>1, <2>2, OthersOK, Zenon
<1>19. IInv'
  BY <1>14, <1>15, <1>17, <1>18, Zenon DEF IInv, ReadsOK
<1> QED BY <1>2, <1>5, <1>7, <1>8, <1>16, <1>19, Zenon

\* Every reader stands, and only t's read moves.
OnlyMoves(t) ==
  /\ file' = file
  /\ \A x \in Reader : Stands(x)
  /\ \A u \in Thread : u # t => read'[u] = read[u]

\* When only t's read moves, the invariant holds on if it does of that read.
LEMMA MovesKeeps ==
  ASSUME IInv, TypeOK', NEW t \in Thread, OnlyMoves(t), ReadOK(t)'
  PROVE  IInv'
<1>1. Captured'
  BY Zenon DEF OnlyMoves, Stands, IInv, Captured
<1>2. ASSUME NEW u \in Thread, u # t
      PROVE  ReadOK(u)'
  <2>1. ReadOK(u)
    BY Zenon DEF IInv, ReadsOK
  <2>2. read[u] = NoRead \/ Stands(read[u].reader)
    BY <2>1, Zenon DEF ReadOK, OnlyMoves
  <2> QED BY <1>2, <2>1, <2>2, OthersOK, Zenon DEF OnlyMoves
<1> QED BY <1>1, <1>2, Zenon DEF IInv, ReadsOK

\* A read that goes on and counts: the types, and what stands.
LEMMA CountedMove ==
  ASSUME IInv, NEW t \in Thread, read[t].pc # "idle", NEW o \in ReadType, Goes(t, o),
         NEW m \in Metric, Counts(t, m), file' = file
  PROVE  TypeOK' /\ OnlyMoves(t) /\ read'[t] = o
<1>1. /\ read' \in [Thread -> ReadType] /\ read'[t] = o
      /\ \A u \in Thread : u # t => read'[u] = read[u]
  BY GoesTyped, Zenon DEF IInv
<1>2. /\ DOMAIN reader' = Reader
      /\ read[t].reader \in Reader
      /\ reader'[read[t].reader] \in ReaderType
      /\ \A r \in Reader :
           /\ r # read[t].reader => reader'[r] = reader[r]
           /\ reader'[r].life = reader[r].life /\ reader'[r].path = reader[r].path
           /\ reader'[r].modifiedTicks = reader[r].modifiedTicks
           /\ reader'[r].bytes = reader[r].bytes
  BY CountsKeeps, Zenon DEF IInv
<1>3. OnlyMoves(t)
  BY <1>1, <1>2, Zenon DEF OnlyMoves, Stands
<1>4. reader'[read[t].reader].life # "new"
  <2>1. ReadOK(t) /\ NoRead.pc = "idle"
    BY Zenon DEF IInv, ReadsOK, NoRead
  <2>2. reader[read[t].reader].life = "open"
    BY <2>1, Zenon DEF ReadOK
  <2> QED BY <1>2, <2>2, Zenon
<1>5. TypeOK'
  BY <1>1, <1>2, <1>4 DEF IInv, TypeOK
<1> QED BY <1>1, <1>3, <1>5, Zenon

\* What the invariant says of a read in flight.
LEMMA InFlight ==
  ASSUME IInv, NEW t \in Thread, read[t].pc # "idle"
  PROVE  /\ ReadOK(t) /\ read[t] # NoRead /\ read[t] \in ReadType
         /\ read[t].reader \in Reader /\ Of(t) \in ReaderType /\ Of(t).life = "open"
         /\ Of(t).metrics.inner \in Metric
         /\ file[Of(t).path] \in FileType
<1>1. ReadOK(t) /\ NoRead.pc = "idle" /\ read[t] \in ReadType
  BY Zenon DEF IInv, ReadsOK, NoRead, TypeOK
<1>2. read[t].reader \in Reader /\ reader[read[t].reader].life = "open"
  BY <1>1, Zenon DEF ReadOK
<1>3. reader[read[t].reader] \in ReaderType
  BY <1>2 DEF IInv, TypeOK, NotOpened
<1>4. reader[read[t].reader].metrics.inner \in Metric /\ reader[read[t].reader].path \in Path
  BY <1>3, Zenon DEF ReaderType, Layer
<1> QED BY <1>1, <1>2, <1>3, <1>4, Zenon DEF Of, IInv, TypeOK

\* Some bytes after others.
LEMMA Joined ==
  ASSUME NEW s \in Seq(Nat), NEW tail \in Seq(Nat)
  PROVE  /\ s \o tail \in Seq(Nat) /\ Len(s \o tail) = Len(s) + Len(tail)
         /\ \A i \in 1 .. Len(s) + Len(tail) :
              (s \o tail)[i] = IF i <= Len(s) THEN s[i] ELSE tail[i - Len(s)]
OBVIOUS

\* Some bytes of a sequence, from a position on.
Cuts(tail, s, first, n) ==
  /\ s \in Seq(Nat) /\ first \in Nat /\ n \in Nat /\ n > 0 /\ first + n <= Len(s)
  /\ tail = SubSeq(s, first + 1, first + n)

IsPiece(tail, s, first, n) ==
  tail \in Seq(Nat) /\ Len(tail) = n /\ \A j \in 1 .. n : tail[j] = s[first + j]

LEMMA Piece ==
  ASSUME NEW tail, NEW s, NEW first, NEW n, Cuts(tail, s, first, n)
  PROVE  IsPiece(tail, s, first, n)
<1>1. /\ s \in Seq(Nat) /\ first \in Nat /\ n \in Nat /\ n > 0 /\ first + n <= Len(s)
  BY Zenon DEF Cuts
<1>2. \A j \in 1 .. n : s[first + j] \in Nat
  BY <1>1
<1>3. PICK a \in Nat, b \in Nat : a = first + 1 /\ b = first + n
  BY <1>1
<1>4. tail = SubSeq(s, a, b)
  BY <1>3, Zenon DEF Cuts
<1>5. a \in 1 .. Len(s) /\ b \in a .. Len(s) /\ b - a + 1 = n
  BY <1>1, <1>3
<1>6. tail = [j \in 1 .. n |-> s[first + j]]
  <2>1. tail = [j \in 1 .. b - a + 1 |-> s[a + j - 1]]
    BY <1>1, <1>4, <1>5
  <2>2. \A j \in 1 .. n : a + j - 1 = first + j
    BY <1>1, <1>3
  <2> QED BY <1>5, <2>1, <2>2, Zenon
<1>7. n \in Nat
  BY <1>1, Zenon
<1>8. tail \in Seq(Nat) /\ Len(tail) = n
  BY <1>2, <1>6, <1>7
<1>9. \A j \in 1 .. n : tail[j] = s[first + j]
  BY <1>6, Zenon
<1> QED BY <1>8, <1>9, Zenon DEF IsPiece

\* A copy keeps the invariant: the bytes come from the file as it is, which is
\* as it was captured if its time is.
LEMMA CopyKeeps ==
  ASSUME IInv, NEW t \in Thread, PositionalRead(t)
  PROVE  /\ IInv' /\ OnlyMoves(t) /\ read[t].pc = "copy" /\ read'[t].pc \in {"copy", "check"}
         /\ read'[t].reader = read[t].reader /\ read'[t].offset = read[t].offset
         /\ read'[t].length = read[t].length
<1>1. read[t].pc = "copy" /\ file' = file
  BY Zenon DEF PositionalRead
<1>2. PICK me \in ReadType : me = read[t]
  BY <1>1, InFlight, Zenon
<1>3. PICK r \in Reader : r = me.reader
  BY <1>1, <1>2, InFlight, Zenon
<1>4. PICK w \in ReaderType : w = reader[r] /\ w = Of(t) /\ w.life = "open"
  BY <1>1, <1>2, <1>3, InFlight, Zenon DEF Of
<1>5. PICK f \in FileType : f = file[w.path]
  BY <1>1, <1>4, InFlight, Zenon
<1>6. /\ me.length > 0 /\ me.offset + me.length <= Len(w.bytes) /\ Len(me.dst) <= me.length
      /\ f.modifiedTicks = w.modifiedTicks =>
           \A i \in 1 .. Len(me.dst) : me.dst[i] = w.bytes[me.offset + i]
  <2>1. ReadOK(t) /\ read[t] # NoRead
    BY <1>1, InFlight, Zenon
  <2> QED BY <1>1, <1>2, <1>3, <1>4, <1>5, <2>1, Zenon DEF ReadOK, AsCaptured
<1>7. f.modifiedTicks = w.modifiedTicks => f.bytes = w.bytes
  BY <1>3, <1>4, <1>5, Zenon DEF IInv, Captured
<1>8. /\ me.offset \in Nat /\ me.length \in Nat /\ me.dst \in Seq(Nat) /\ f.bytes \in Seq(Nat)
      /\ w.bytes \in Seq(Nat) /\ w.metrics.inner \in Metric
  BY <1>1, <1>4, InFlight, Zenon DEF ReadType, FileType, ReaderType
<1>9. PICK o \in ReadType, m \in Metric :
        /\ Goes(t, o) /\ Counts(t, m)
        /\ o.pc \in {"copy", "check"} /\ o.reader = r /\ o.offset = me.offset /\ o.length = me.length
        /\ Len(o.dst) <= me.length
        /\ f.modifiedTicks = w.modifiedTicks =>
             \A i \in 1 .. Len(o.dst) : o.dst[i] = w.bytes[me.offset + i]
  <2> DEFINE first == me.offset + Len(me.dst)
  <2>1. ASSUME NEW n \in 1 .. me.length - Len(me.dst), first + n <= Len(f.bytes),
               Goes(t, [me EXCEPT !.dst = @ \o SubSeq(f.bytes, first + 1, first + n),
                                  !.pc = IF Len(me.dst) + n = me.length THEN "check" ELSE @]),
               Counts(t, AddBytesTransferred(AddRequest(w.metrics.inner), n))
        PROVE  \E o \in ReadType, m \in Metric :
                 /\ Goes(t, o) /\ Counts(t, m)
                 /\ o.pc \in {"copy", "check"} /\ o.reader = r /\ o.offset = me.offset
                 /\ o.length = me.length
                 /\ Len(o.dst) <= me.length
                 /\ f.modifiedTicks = w.modifiedTicks =>
                      \A i \in 1 .. Len(o.dst) : o.dst[i] = w.bytes[me.offset + i]
    <3>1. n \in Nat /\ Len(me.dst) \in Nat /\ Len(f.bytes) \in Nat
      BY <1>8, <2>1
    <3>2. PICK tail : tail = SubSeq(f.bytes, first + 1, first + n)
      BY Zenon
    <3>3. tail \in Seq(Nat) /\ Len(tail) = n /\ \A j \in 1 .. n : tail[j] = f.bytes[first + j]
      <4>1. first \in Nat /\ n > 0
        BY <1>8, <2>1, <3>1
      <4>2. PICK s \in Seq(Nat), k \in Nat : s = f.bytes /\ k = first
        BY <1>8, <4>1, Zenon
      <4>3. k + n <= Len(s) /\ tail = SubSeq(s, k + 1, k + n)
        BY <2>1, <3>2, <4>2, Zenon
      <4>4. tail \in Seq(Nat) /\ Len(tail) = n /\ \A j \in 1 .. n : tail[j] = s[k + j]
        <5>1. Cuts(tail, s, k, n)
          BY <3>1, <4>1, <4>3, Zenon DEF Cuts
        <5>2. IsPiece(tail, s, k, n)
          BY <5>1, Piece, Zenon
        <5> QED BY <5>2, Zenon DEF IsPiece
      <4> QED BY <4>2, <4>4, Zenon
    <3>4. PICK d : d = me.dst \o tail
      BY Zenon
    <3>5. /\ d \in Seq(Nat) /\ Len(d) = Len(me.dst) + n
          /\ \A i \in 1 .. Len(d) : d[i] = IF i <= Len(me.dst) THEN me.dst[i] ELSE tail[i - Len(me.dst)]
      <4>1. PICK s \in Seq(Nat) : s = me.dst
        BY <1>8, Zenon
      <4>2. /\ s \o tail \in Seq(Nat) /\ Len(s \o tail) = Len(s) + Len(tail)
            /\ \A i \in 1 .. Len(s) + Len(tail) :
                 (s \o tail)[i] = IF i <= Len(s) THEN s[i] ELSE tail[i - Len(s)]
        BY <3>3, Joined, Zenon
      <4>3. d = s \o tail
        BY <3>4, <4>1, Zenon
      <4> QED BY <3>3, <4>1, <4>2, <4>3, Zenon
    <3>6. PICK pc \in {"copy", "check"} : pc = IF Len(me.dst) + n = me.length THEN "check" ELSE me.pc
      BY <1>1, <1>2, Zenon
    <3>7. PICK o \in ReadType : o = [me EXCEPT !.dst = d, !.pc = pc] /\ o.dst = d /\ o.pc = pc
              /\ o.reader = me.reader /\ o.offset = me.offset /\ o.length = me.length
      <4>1. PICK o : o = [me EXCEPT !.dst = d, !.pc = pc]
        BY Zenon
      <4>2. o \in ReadType
        BY <3>5, <4>1, Zenon DEF ReadType
      <4>3. /\ o.dst = d /\ o.pc = pc
            /\ o.reader = me.reader /\ o.offset = me.offset /\ o.length = me.length
        BY <4>1, Zenon DEF ReadType
      <4> QED BY <4>1, <4>2, <4>3, Zenon
    <3>8. Goes(t, o)
      BY <2>1, <3>2, <3>4, <3>6, <3>7, Zenon
    <3>9. AddBytesTransferred(AddRequest(w.metrics.inner), n) \in Metric
      BY <1>8, <3>1, CountsTyped, Zenon
    <3>10. Len(d) <= me.length
      <4>1. n <= me.length - Len(me.dst)
        BY <1>8, <2>1, <3>1
      <4> QED BY <1>8, <3>1, <3>5, <4>1
    <3>11. ASSUME f.modifiedTicks = w.modifiedTicks, NEW i \in 1 .. Len(d)
           PROVE  d[i] = w.bytes[me.offset + i]
      <4>1. CASE i <= Len(me.dst)
        BY <1>6, <1>8, <3>1, <3>5, <3>11, <4>1
      <4>2. CASE ~(i <= Len(me.dst))
        <5>1. i - Len(me.dst) \in 1 .. n /\ first + (i - Len(me.dst)) = me.offset + i
          BY <1>8, <3>1, <3>5, <4>2
        <5>2. tail[i - Len(me.dst)] = f.bytes[me.offset + i]
          BY <3>3, <5>1, Zenon
        <5> QED BY <1>7, <3>5, <3>11, <4>2, <5>2, Zenon
      <4> QED BY <4>1, <4>2, Zenon
    <3> QED BY <1>3, <2>1, <3>7, <3>8, <3>9, <3>10, <3>11, Zenon
  <2>2. ASSUME \/ Goes(t, [me EXCEPT !.pc = "check"])
               \/ Goes(t, [me EXCEPT !.pc = "check", !.transport = "NetworkError"]),
               Counts(t, AddRequest(w.metrics.inner))
        PROVE  \E o \in ReadType, m \in Metric :
                 /\ Goes(t, o) /\ Counts(t, m)
                 /\ o.pc \in {"copy", "check"} /\ o.reader = r /\ o.offset = me.offset
                 /\ o.length = me.length
                 /\ Len(o.dst) <= me.length
                 /\ f.modifiedTicks = w.modifiedTicks =>
                      \A i \in 1 .. Len(o.dst) : o.dst[i] = w.bytes[me.offset + i]
    <3>1. AddRequest(w.metrics.inner) \in Metric
      BY <1>8, CountsTyped, Zenon
    <3>2. PICK o \in ReadType : Goes(t, o) /\ o.pc = "check" /\ o.dst = me.dst
              /\ o.reader = me.reader /\ o.offset = me.offset /\ o.length = me.length
      <4>1. PICK o : /\ Goes(t, o)
                     /\ \/ o = [me EXCEPT !.pc = "check"]
                        \/ o = [me EXCEPT !.pc = "check", !.transport = "NetworkError"]
        BY <2>2, Zenon
      <4>2. CASE o = [me EXCEPT !.pc = "check"]
        BY <4>1, <4>2 DEF ReadType
      <4>3. CASE o = [me EXCEPT !.pc = "check", !.transport = "NetworkError"]
        <5>1. o \in ReadType
          BY <4>3, Zenon DEF ReadType
        <5>2. o.pc = "check" /\ o.dst = me.dst /\ o.reader = me.reader /\ o.offset = me.offset
              /\ o.length = me.length
          BY <4>3, Zenon DEF ReadType
        <5> QED BY <4>1, <5>1, <5>2, Zenon
      <4> QED BY <4>1, <4>2, <4>3, Zenon
    <3> QED BY <1>3, <1>6, <2>2, <3>1, <3>2, Zenon
  <2> QED BY <1>2, <1>4, <1>5, <2>1, <2>2, Zenon DEF PositionalRead, Done
<1>10. TypeOK' /\ OnlyMoves(t) /\ read'[t] = o
  BY <1>1, <1>9, CountedMove, Zenon
<1>11. ReadOK(t)'
  <2>1. /\ reader'[r].life = "open" /\ reader'[r].bytes = w.bytes /\ reader'[r].path = w.path
        /\ reader'[r].modifiedTicks = w.modifiedTicks /\ file'[w.path] = f
    BY <1>1, <1>4, <1>5, <1>10, Zenon DEF OnlyMoves, Stands
  <2>2. f.modifiedTicks = w.modifiedTicks => AsCaptured(t, Len(o.dst))'
    BY <1>9, <1>10, <2>1, Zenon DEF AsCaptured
  <2> QED BY <1>6, <1>9, <1>10, <2>1, <2>2, Zenon DEF ReadOK
<1>12. IInv'
  BY <1>10, <1>11, MovesKeeps, Zenon
<1> QED BY <1>1, <1>2, <1>3, <1>9, <1>10, <1>12, Zenon

\* What a copied read that ends reports: all of it, some of it, or nothing, and
\* only bytes that are as they were captured.
LEMMA RevalidateKeeps ==
  ASSUME IInv, NEW t \in Thread, Revalidate(t)
  PROVE  /\ IInv' /\ OnlyMoves(t) /\ read[t].pc = "check" /\ read'[t].pc = "returned"
         /\ read'[t].reader = read[t].reader /\ read'[t].offset = read[t].offset
         /\ read'[t].length = read[t].length
<1>1. read[t].pc = "check"
  BY Zenon DEF Revalidate
<1>2. PICK me \in ReadType : me = read[t]
  BY <1>1, InFlight, Zenon
<1>3. PICK r \in Reader : r = me.reader
  BY <1>1, <1>2, InFlight, Zenon
<1>4. PICK w \in ReaderType : w = reader[r] /\ w = Of(t) /\ w.life = "open"
  BY <1>1, <1>2, <1>3, InFlight, Zenon DEF Of
<1>5. /\ me.length > 0 /\ me.offset + me.length <= Len(w.bytes) /\ Len(me.dst) <= me.length
      /\ file[w.path].modifiedTicks = w.modifiedTicks =>
           \A i \in 1 .. Len(me.dst) : me.dst[i] = w.bytes[me.offset + i]
  <2>1. ReadOK(t) /\ read[t] # NoRead
    BY <1>1, InFlight, Zenon
  <2> QED BY <1>1, <1>2, <1>3, <1>4, <2>1, Zenon DEF ReadOK, AsCaptured
<1>6. /\ me.offset \in Nat /\ me.length \in Nat /\ me.dst \in Seq(Nat) /\ Len(me.dst) \in Nat
      /\ w.bytes \in Seq(Nat) /\ me.transport \in {"Ok", "NetworkError"}
  BY DEF ReadType, ReaderType
<1>7. PICK status \in {"Ok", "AssetChanged", "NetworkError", "InvalidResponse"}, n \in Nat :
        /\ Returns(t, status, n)
        /\ n <= Len(me.dst)
        /\ \A i \in 1 .. n : me.dst[i] = w.bytes[me.offset + i]
        /\ status = "Ok" => n = me.length
        /\ status = "AssetChanged" => n = 0
  <2>1. CASE IdentityMoved(t)
    <3>1. Returns(t, "AssetChanged", 0)
      BY <2>1, Zenon DEF Revalidate
    <3>2. 0 \in Nat /\ 0 <= Len(me.dst) /\ \A i \in 1 .. 0 : FALSE
      BY <1>6
    <3> QED BY <3>1, <3>2, Zenon
  <2>2. CASE ~IdentityMoved(t)
    <3>1. Unchanged(t)
      BY <2>2, Zenon DEF Revalidate
    <3>2. PICK s \in {"Ok", "NetworkError", "InvalidResponse"} :
            s = IF me.transport # "Ok" THEN me.transport
                ELSE IF Len(me.dst) < me.length THEN "InvalidResponse" ELSE "Ok"
      BY <1>6, Zenon
    <3>3. Returns(t, s, Len(me.dst))
      BY <1>2, <3>1, <3>2, Zenon DEF Unchanged, Done
    <3>4. s = "Ok" => Len(me.dst) = me.length
      BY <1>5, <1>6, <3>2
    <3>5. file[w.path].modifiedTicks = w.modifiedTicks
      BY <1>4, <2>2, Zenon DEF IdentityMoved
    <3>6. PICK k \in Nat : k = Len(me.dst)
      BY <1>6, Zenon
    <3>7. /\ Returns(t, s, k) /\ k <= Len(me.dst) /\ (s = "Ok" => k = me.length) /\ s # "AssetChanged"
          /\ \A i \in 1 .. k : me.dst[i] = w.bytes[me.offset + i]
      BY <1>5, <3>3, <3>4, <3>5, <3>6
    <3> QED BY <3>7, Zenon
  <2> QED BY <2>1, <2>2, Zenon
<1>8. PICK o : o = [me EXCEPT !.pc = "returned", !.status = status, !.bytesRead = n]
  BY Zenon
<1>9. o \in ReadType
  BY <1>8, Zenon DEF ReadType
<1>10. /\ o.pc = "returned" /\ o.status = status /\ o.bytesRead = n /\ o.reader = me.reader
       /\ o.offset = me.offset /\ o.length = me.length /\ o.dst = me.dst
  BY <1>8, Zenon DEF ReadType
<1>11. PICK m \in Metric : Counts(t, m)
  <2>1. AddMetadataRequest(Of(t).metrics.inner) \in Metric
    BY <1>1, InFlight, CountsTyped, Zenon
  <2> QED BY <1>7, <2>1, Zenon DEF Returns
<1>12. Goes(t, o) /\ file' = file
  BY <1>2, <1>7, <1>8, Zenon DEF Returns
<1>13. TypeOK' /\ OnlyMoves(t) /\ read'[t] = o
  BY <1>1, <1>9, <1>11, <1>12, CountedMove, Zenon
<1>14. ReadOK(t)'
  <2>1. reader'[r].life = "open" /\ reader'[r].bytes = w.bytes
    BY <1>4, <1>13, Zenon DEF OnlyMoves, Stands
  <2>2. AsCaptured(t, n)'
    BY <1>3, <1>7, <1>10, <1>13, <2>1, Zenon DEF AsCaptured
  <2> QED BY <1>3, <1>5, <1>7, <1>10, <1>13, <2>1, <2>2, Zenon DEF ReadOK
<1>15. IInv'
  BY <1>13, <1>14, MovesKeeps, Zenon
<1> QED BY <1>1, <1>2, <1>10, <1>13, <1>15, Zenon

\* A call that returned leaves.
LEMMA ReturnKeeps ==
  ASSUME IInv, NEW t \in Thread, Return(t)
  PROVE  /\ IInv' /\ OnlyMoves(t) /\ read[t].pc = "returned" /\ read'[t] = NoRead
<1>1. read[t].pc = "returned" /\ file' = file /\ reader' = reader /\ Goes(t, NoRead)
  BY Zenon DEF Return
<1>2. read' \in [Thread -> ReadType] /\ read'[t] = NoRead /\ \A u \in Thread : u # t => read'[u] = read[u]
  BY <1>1, Records, GoesTyped, Zenon DEF IInv
<1>3. TypeOK' /\ OnlyMoves(t)
  BY <1>1, <1>2, Zenon DEF IInv, TypeOK, OnlyMoves, Stands
<1>4. ReadOK(t)'
  BY <1>2, Zenon DEF ReadOK
<1>5. IInv'
  BY <1>3, <1>4, MovesKeeps, Zenon
<1> QED BY <1>1, <1>2, <1>3, <1>5, Zenon

\* Every step keeps the invariant.
LEMMA IInvNext ==
  ASSUME Laws, IInv, [Next]_localVars
  PROVE  IInv'
<1>1. CASE UNCHANGED localVars
  BY <1>1, Zenon DEF localVars, IInv, TypeOK, Captured, ReadsOK, ReadOK, AsCaptured
<1> QED BY <1>1, WriteKeeps, LifeKeeps, StartKeeps, CopyKeeps, RevalidateKeeps, ReturnKeeps, Zenon
        DEF Next, Finished

-------------------------------------------------------------------------------
\* A read that does not move, of a reader that stands, is the same call.
LEMMA SameCall ==
  ASSUME NEW u \in Thread, read'[u] = read[u], read[u] = NoRead \/ Stands(read[u].reader)
  PROVE  CallOf(u)' = CallOf(u)
<1>1. CASE read[u] = NoRead
  BY <1>1, SMTT(30) DEF CallOf, NoRead
<1>2. CASE Stands(read[u].reader)
  <2>1. Of(u)'.modifiedTicks = Of(u).modifiedTicks /\ Of(u)'.bytes = Of(u).bytes
    BY <1>2, Zenon DEF Of, Stands
  <2> QED BY <2>1, Zenon DEF CallOf
<1> QED BY <1>1, <1>2, Zenon

\* The steps of the contract that t may take.
Steps(t) == CallOf(t).pc # CallOf(t)'.pc /\ Contract!Step(CallOf(t), CallOf(t)')

\* The other calls are the same when only t's moves.
LEMMA OtherCalls ==
  ASSUME IInv, NEW t \in Thread, OnlyMoves(t), NEW u \in Thread, u # t
  PROVE  CallOf(u)' = CallOf(u)
<1>1. ReadOK(u)
  BY Zenon DEF IInv, ReadsOK
<1>2. read[u] = NoRead \/ Stands(read[u].reader)
  BY <1>1, Zenon DEF ReadOK, OnlyMoves
<1> QED BY <1>2, SameCall, Zenon DEF OnlyMoves

\* The caller that is in no call.
NoCall == [pc |-> "idle", rev |-> -1, asked |-> <<0, 0>>, status |-> "none", given |-> {}]

\* How a read looks to whoever knows the contract.
LEMMA CallShape ==
  ASSUME NEW t \in Thread
  PROVE  /\ read[t].pc = "idle" \/ read[t].length = 0 => CallOf(t) = NoCall
         /\ read[t].pc \in {"copy", "check"} /\ read[t].length # 0 =>
              CallOf(t) = [pc |-> "reading", rev |-> Of(t).modifiedTicks,
                           asked |-> <<read[t].offset, read[t].length>>,
                           status |-> "none", given |-> {}]
BY Zenon DEF CallOf, NoCall

\* The same after a step.
LEMMA CallShapeAfter ==
  ASSUME NEW t \in Thread
  PROVE  /\ read'[t].pc = "idle" \/ read'[t].length = 0 => CallOf(t)' = NoCall
         /\ read'[t].pc \in {"copy", "check"} /\ read'[t].length # 0 =>
              CallOf(t)' = [pc |-> "reading", rev |-> Of(t)'.modifiedTicks,
                            asked |-> <<read'[t].offset, read'[t].length>>,
                            status |-> "none", given |-> {}]
BY Zenon DEF CallOf, NoCall

\* A read that copies something begins a call; the others begin none.
LEMMA CallBegins ==
  ASSUME IInv, NEW t \in Thread, NEW r \in Reader, NEW q \in Request, StartRead(t, r, q)
  PROVE  OnlyMoves(t) /\ (CallOf(t)' = CallOf(t) \/ Steps(t))
<1>1. /\ IInv' /\ OnlyMoves(t) /\ read[t].pc = "idle"
      /\ \/ read'[t].length = 0
         \/ /\ read'[t].length > 0 /\ read'[t].pc = "copy" /\ read'[t].reader = r
  BY StartKeeps, Zenon DEF OnlyMoves
<1>2. CallOf(t) = NoCall
  BY <1>1, CallShape, Zenon
<1>3. CASE read'[t].length = 0
  BY <1>1, <1>2, <1>3, CallShapeAfter, Zenon
<1>4. CASE read'[t].length > 0 /\ read'[t].pc = "copy" /\ read'[t].reader = r
  <2>1. read'[t].offset \in Nat /\ read'[t].length \in Nat /\ read'[t].length # 0
    BY <1>1, <1>4, SMTT(30) DEF IInv, TypeOK, ReadType
  <2>2. Of(t)'.modifiedTicks \in 0 .. MaxTicks
    <3>1. reader'[r].life = "open"
      BY <1>1, Zenon DEF OnlyMoves, Stands, StartRead
    <3>2. reader'[r] \in ReaderType
      BY <1>1, <3>1, SMTT(30) DEF IInv, TypeOK, NotOpened
    <3> QED BY <1>4, <3>2, Zenon DEF Of, ReaderType
  <2>3. PICK rev \in 0 .. MaxTicks, a \in Nat, n \in Nat :
          CallOf(t)' = [pc |-> "reading", rev |-> rev, asked |-> <<a, n>>, status |-> "none", given |-> {}]
    BY <1>4, <2>1, <2>2, CallShapeAfter, Zenon
  <2>4. PICK next : /\ next = CallOf(t)'
                    /\ next = [pc |-> "reading", rev |-> rev, asked |-> <<a, n>>,
                               status |-> "none", given |-> {}]
    BY <2>3, Zenon
  <2>5. next.pc = "reading" /\ next.rev \in 0 .. MaxTicks /\ next.asked \in Nat \X Nat
    BY <2>4
  <2>6. next = Contract!Reading(next.rev, next.asked)
    BY <2>4 DEF Contract!Reading
  <2>7. Contract!Begin(NoCall, next) /\ NoCall.pc = "idle"
    BY <2>5, <2>6, Zenon DEF Contract!Begin, NoCall
  <2> QED BY <1>1, <1>2, <2>4, <2>5, <2>7, Zenon DEF Steps, Contract!Step
<1> QED BY <1>1, <1>3, <1>4, Zenon

\* A copy is no step of the contract.
LEMMA CallCopies ==
  ASSUME IInv, NEW t \in Thread, PositionalRead(t)
  PROVE  OnlyMoves(t) /\ CallOf(t)' = CallOf(t)
<1>1. /\ OnlyMoves(t) /\ read[t].pc = "copy" /\ read'[t].pc \in {"copy", "check"}
      /\ read'[t].reader = read[t].reader /\ read'[t].offset = read[t].offset
      /\ read'[t].length = read[t].length
  BY CopyKeeps, Zenon
<1>2. Of(t)'.modifiedTicks = Of(t).modifiedTicks
  BY <1>1, InFlight, Zenon DEF OnlyMoves, Stands, Of
<1>3. CASE read[t].length = 0
  BY <1>1, <1>3, CallShape, CallShapeAfter, Zenon
<1>4. CASE read[t].length # 0
  BY <1>1, <1>2, <1>4, CallShape, CallShapeAfter, Zenon
<1> QED BY <1>1, <1>3, <1>4, Zenon

\* The offsets of a range, and of its first bytes.
LEMMA RangeOffsets ==
  ASSUME NEW a \in Nat, NEW n \in Nat, NEW k \in Nat, NEW max \in Nat, a + n <= max, k <= n
  PROVE  /\ {x \in 0 .. max : a <= x /\ x < a + n} = a .. a + n - 1
         /\ a .. a + k - 1 \subseteq a .. a + n - 1
OBVIOUS

\* A read that ends has all of the range, some of it, or the news of a change.
LEMMA CallEnds ==
  ASSUME IInv, NEW t \in Thread, Revalidate(t)
  PROVE  OnlyMoves(t) /\ Steps(t)
<1>1. /\ IInv' /\ OnlyMoves(t) /\ read[t].pc = "check" /\ read'[t].pc = "returned"
      /\ read'[t].reader = read[t].reader /\ read'[t].offset = read[t].offset
      /\ read'[t].length = read[t].length
  BY RevalidateKeeps, Zenon
<1>2. PICK o \in ReadType : o = read'[t]
  BY <1>1, Zenon DEF IInv, TypeOK
<1>3. PICK r \in Reader : r = read[t].reader
  BY <1>1, InFlight, Zenon
<1>4. PICK w \in ReaderType : w = reader'[r]
  BY <1>1, <1>2, <1>3, SMTT(30) DEF IInv, ReadsOK, ReadOK, TypeOK, NotOpened, NoRead
<1>5. Of(t)' = w /\ Of(t).modifiedTicks = w.modifiedTicks /\ Of(t).bytes = w.bytes
  BY <1>1, <1>3, <1>4, Zenon DEF Of, OnlyMoves, Stands
<1>6. /\ o.offset + o.length <= Len(w.bytes) /\ Len(o.dst) <= o.length /\ o.length > 0
      /\ o.bytesRead <= Len(o.dst)
      /\ \A i \in 1 .. o.bytesRead : o.dst[i] = w.bytes[o.offset + i]
      /\ o.status = "Ok" => o.bytesRead = o.length
      /\ o.status = "AssetChanged" => o.bytesRead = 0
  <2>1. ReadOK(t)' /\ read'[t] # NoRead
    <3>1. read'[t].pc = "returned" /\ NoRead.pc = "idle"
      BY <1>1, Zenon DEF NoRead
    <3>2. read'[t] # NoRead
      BY <3>1, Zenon
    <3> QED BY <1>1, <3>2, Zenon DEF IInv, ReadsOK
  <2>2. ReadOK(t) /\ read[t] # NoRead
    BY <1>1, InFlight, Zenon
  <2>3. o.length > 0
    BY <1>1, <1>2, <2>2, Zenon DEF ReadOK
  <2> QED BY <1>1, <1>2, <1>3, <1>4, <2>1, <2>3, Zenon DEF ReadOK, AsCaptured
<1>7. /\ o.offset \in Nat /\ o.length \in Nat /\ o.bytesRead \in Nat /\ Len(o.dst) \in Nat
      /\ Len(w.bytes) \in Nat /\ Len(w.bytes) <= MaxSize /\ MaxSize \in Nat
  <2>1. w.life # "new"
    BY <1>1, <1>2, <1>3, <1>4, SMTT(30) DEF IInv, ReadsOK, ReadOK, NoRead
  <2>2. Len(w.bytes) <= MaxSize
    BY <1>1, <1>4, <2>1, Zenon DEF IInv, Captured
  <2> QED BY <2>2, LocalAssumption DEF ReadType, ReaderType
<1>8. PICK rev : rev = w.modifiedTicks
  BY Zenon
<1>9. PICK me : /\ me = CallOf(t)
                /\ me = [pc |-> "reading", rev |-> rev, asked |-> <<o.offset, o.length>>,
                         status |-> "none", given |-> {}]
  BY <1>1, <1>2, <1>5, <1>6, <1>7, <1>8, CallShape, SMTT(30)
<1>10. PICK given : given = {<<x, IF o.dst[x - o.offset + 1] = w.bytes[x + 1] THEN rev ELSE -1>> :
                               x \in o.offset .. o.offset + o.bytesRead - 1}
  BY Zenon
<1>11. CallOf(t)' = [pc |-> "returned", rev |-> rev, asked |-> <<o.offset, o.length>>,
                     status |-> IF o.status \in {"Ok", "AssetChanged"} THEN o.status ELSE "Failed",
                     given |-> given]
  <2>1. o.pc = "returned" /\ o.length # 0
    BY <1>1, <1>2, <1>6, <1>7
  <2> QED BY <1>2, <1>5, <1>8, <1>10, <2>1, Zenon DEF CallOf
<1>12. given = (o.offset .. o.offset + o.bytesRead - 1) \X {rev}
  <2>1. ASSUME NEW x \in o.offset .. o.offset + o.bytesRead - 1
        PROVE  o.dst[x - o.offset + 1] = w.bytes[x + 1]
    <3>1. PICK a \in Nat, n \in Nat : a = o.offset /\ n = o.bytesRead
      BY <1>7, Zenon
    <3>2. x - a + 1 \in 1 .. n /\ a + (x - a + 1) = x + 1
      BY <3>1
    <3>3. PICK i \in 1 .. n : i = x - a + 1 /\ a + i = x + 1
      BY <3>2, Zenon
    <3>4. o.dst[i] = w.bytes[a + i]
      BY <1>6, <3>1, Zenon
    <3> QED BY <3>1, <3>3, <3>4, Zenon
  <2>2. given = {<<x, rev>> : x \in o.offset .. o.offset + o.bytesRead - 1}
    BY <1>10, <2>1
  <2> QED BY <2>2
<1>13. Contract!Whole(me) = (o.offset .. o.offset + o.length - 1) \X {rev}
  <2>1. me.asked[1] = o.offset /\ me.asked[2] = o.length /\ me.rev = rev
    BY <1>9
  <2>2. {x \in 0 .. MaxSize : o.offset <= x /\ x < o.offset + o.length}
          = o.offset .. o.offset + o.length - 1
    <3>1. o.offset + o.length <= MaxSize /\ o.bytesRead <= o.length
      BY <1>6, <1>7
    <3> QED BY <1>7, <3>1, RangeOffsets, Zenon
  <2> QED BY <2>1, <2>2, Zenon DEF Contract!Whole
<1>14. CASE o.status = "Ok"
  <2>1. given = Contract!Whole(me)
    BY <1>6, <1>12, <1>13, <1>14, Zenon
  <2>2. Contract!Succeed(me, CallOf(t)')
    BY <1>9, <1>11, <1>14, <2>1 DEF Contract!Succeed, Contract!Returned
  <2> QED BY <1>1, <1>9, <1>11, <2>2 DEF Steps, Contract!Step
<1>15. CASE o.status = "AssetChanged"
  <2>1. given = {}
    BY <1>6, <1>7, <1>12, <1>15
  <2>2. Contract!AssetChanged(me, CallOf(t)')
    BY <1>9, <1>11, <1>15, <2>1 DEF Contract!AssetChanged, Contract!Returned
  <2> QED BY <1>1, <1>9, <1>11, <2>2 DEF Steps, Contract!Step
<1>16. CASE o.status \notin {"Ok", "AssetChanged"}
  <2>1. given \subseteq Contract!Whole(me)
    <3>1. o.offset + o.length <= MaxSize /\ o.bytesRead <= o.length
      BY <1>6, <1>7
    <3>2. o.offset .. o.offset + o.bytesRead - 1 \subseteq o.offset .. o.offset + o.length - 1
      BY <1>7, <3>1, RangeOffsets, Zenon
    <3> QED BY <1>12, <1>13, <3>2, Zenon
  <2>2. Contract!Fail(me, CallOf(t)')
    BY <1>9, <1>11, <1>16, <2>1 DEF Contract!Fail, Contract!Returned
  <2> QED BY <1>1, <1>9, <1>11, <2>2 DEF Steps, Contract!Step
<1> QED BY <1>14, <1>15, <1>16, Zenon

\* A call that returned leaves.
LEMMA CallLeaves ==
  ASSUME IInv, NEW t \in Thread, Return(t)
  PROVE  OnlyMoves(t) /\ (CallOf(t)' = CallOf(t) \/ Steps(t))
<1>1. OnlyMoves(t) /\ read[t].pc = "returned" /\ read'[t] = NoRead
  BY ReturnKeeps, Zenon
<1>2. CallOf(t)' = NoCall
  BY <1>1, CallShapeAfter DEF NoRead
<1>3. CASE read[t].length = 0
  BY <1>1, <1>2, <1>3, CallShape, Zenon
<1>4. CASE read[t].length # 0
  <2>1. CallOf(t).pc = "returned"
    BY <1>1, <1>4, Zenon DEF CallOf
  <2>2. Contract!Leave(CallOf(t), NoCall) /\ NoCall.pc = "idle"
    BY <2>1, Zenon DEF Contract!Leave, Contract!Idle, NoCall
  <2> QED BY <1>1, <1>2, <2>1, <2>2, Zenon DEF Steps, Contract!Step
<1> QED BY <1>1, <1>3, <1>4, Zenon

\* Every step is one of the contract's for one call, or none.
LEMMA CallSteps ==
  ASSUME IInv, [Next]_localVars
  PROVE  \/ \A u \in Thread : CallOf(u)' = CallOf(u)
         \/ \E t \in Thread : Steps(t) /\ \A u \in Thread : u # t => CallOf(u)' = CallOf(u)
<1>1. ASSUME NEW t \in Thread, OnlyMoves(t), CallOf(t)' = CallOf(t) \/ Steps(t)
      PROVE  \/ \A u \in Thread : CallOf(u)' = CallOf(u)
             \/ \E s \in Thread : Steps(s) /\ \A u \in Thread : u # s => CallOf(u)' = CallOf(u)
  BY <1>1, OtherCalls, Zenon
<1>2. ASSUME \/ \E p \in Path : Write(p)
             \/ UNCHANGED localVars
      PROVE  \A u \in Thread : CallOf(u)' = CallOf(u)
  <2>1. reader' = reader /\ read' = read
    BY <1>2, Zenon DEF Write, localVars
  <2> QED BY <2>1, SameCall, Zenon DEF Stands
<1>3. ASSUME NEW r \in Reader,
             \/ \E p \in Path, stack \in {"bare", "cached"} : Open(r, p, stack)
             \/ Close(r)
             \/ \E layer \in Layer : DestroyMetrics(r, layer),
             NEW u \in Thread
      PROVE  CallOf(u)' = CallOf(u)
  <2>1. read' = read /\ (reader[r].life # "open" \/ \A t \in Thread : read[t].reader # r)
    BY <1>3, Zenon DEF Open, Close, DestroyMetrics
  <2>2. ReadOK(u)
    BY Zenon DEF IInv, ReadsOK
  <2>3. read[u] = NoRead \/ (read[u].reader \in Reader /\ read[u].reader # r)
    BY <2>1, <2>2, Zenon DEF ReadOK
  <2>4. \A x \in Reader : x # r => reader'[x] = reader[x]
    BY <1>3, Zenon DEF IInv, TypeOK, Open, Close, DestroyMetrics
  <2> QED BY <2>1, <2>3, <2>4, SameCall, Zenon DEF Stands
<1>4. CASE \E t \in Thread : \/ \E r \in Reader, q \in Request : StartRead(t, r, q)
                             \/ PositionalRead(t) \/ Revalidate(t) \/ Return(t)
  BY <1>1, <1>4, CallBegins, CallCopies, CallEnds, CallLeaves, Zenon
<1> QED BY <1>2, <1>3, <1>4, Zenon DEF Next, Finished

-------------------------------------------------------------------------------
(***************************************************************************)
(* The counters.                                                           *)
(***************************************************************************)

TransportField == {"bytesTransferred", "requestCount", "metadataRequestCount"}

\* The layer that is folded is there until it is; a decorating reader counts no
\* transfer of its own before it absorbs those inside it, and has them all then.
BooksOK(r) ==
  LET w == reader[r]
  IN  /\ w.stack = "bare" => "outer" \notin w.layers
      /\ w.life = "open" => Face[r] \in w.layers
      /\ \A l \in Layer : w.metrics[l].assetSize = Len(w.bytes)
      /\ w.stack = "cached" =>
           \A f \in TransportField :
             w.metrics["outer"][f] = IF w.life = "open" THEN 0 ELSE w.metrics["inner"][f]

\* The table has an entry for a folded reader's asset, if it ever had room.
RegistryOK ==
  /\ registry.aggregate \in Metric
  /\ IsFiniteSet(DOMAIN registry.perAsset)
  /\ \A p \in DOMAIN registry.perAsset :
       registry.perAsset[p] \in Metric /\ \E r \in Folded : reader[r].path = p
  /\ Cardinality(DOMAIN registry.perAsset) < MaxTracked =>
       \A r \in Folded : reader[r].path \in DOMAIN registry.perAsset

Books ==
  /\ \A r \in Reader : reader[r].life # "new" => BooksOK(r)
  /\ RegistryOK
  /\ EveryTransferFoldedOnce

\* What a reader counted in one of its layers is a number.
LEMMA Numbers ==
  ASSUME NEW r \in Reader, reader[r] \in ReaderType
  PROVE  /\ Face[r] \in Layer /\ Inner[r] \in Layer
         /\ \A l \in Layer : reader[r].metrics[l] \in Metric
         /\ \A l \in Layer, f \in {"bytesRequested"} \cup TransportField :
              reader[r].metrics[l][f] \in Int
<1>1. Face[r] \in Layer /\ Inner[r] \in Layer
  BY Zenon DEF Face, Inner, Layer
<1>2. \A l \in Layer : reader[r].metrics[l] \in Metric
  BY Zenon DEF ReaderType
<1>3. \A m \in Metric, f \in {"bytesRequested"} \cup TransportField : m[f] \in Int
  BY DEF Metric, TransportField
<1> QED BY <1>1, <1>2, <1>3, Zenon

\* Sums over readers whose counters stand do not move.
LEMMA SumsKeep ==
  ASSUME Laws, NEW m, NEW of \in SUBSET Reader, SumsOf(m, of),
         \A r \in of : /\ reader[r] \in ReaderType
                       /\ reader'[r].metrics = reader[r].metrics
                       /\ reader'[r].stack = reader[r].stack
  PROVE  SumsOf(m, of)'
<1>1. IsFiniteSet(of)
  BY LocalAssumption, FiniteSubset, Zenon
<1>2. ASSUME NEW field \in {"bytesRequested"} \cup TransportField
      PROVE  Total(field, of, Face)' = Total(field, of, Face)
             /\ Total(field, of, Inner)' = Total(field, of, Inner)
  <2>1. PICK f, h : /\ f = [r \in Reader |-> reader[r].metrics[Face[r]][field]]
                    /\ h = [r \in Reader |-> reader[r].metrics[Inner[r]][field]]
    BY Zenon
  <2>2. PICK g, k : /\ g = [r \in Reader |-> reader'[r].metrics[Face'[r]][field]]
                    /\ k = [r \in Reader |-> reader'[r].metrics[Inner'[r]][field]]
    BY Zenon
  <2>3. \A r \in of : f[r] \in Int /\ h[r] \in Int
    BY <2>1, Numbers, Zenon
  <2>4. \A r \in of : g[r] = f[r] /\ k[r] = h[r]
    BY <2>1, <2>2, Zenon DEF Face, Inner
  <2>5. SumFunctionOnSet(g, of) = SumFunctionOnSet(f, of)
    BY <1>1, <2>3, <2>4, TotalSame, Zenon
  <2>6. SumFunctionOnSet(k, of) = SumFunctionOnSet(h, of)
    BY <1>1, <2>3, <2>4, TotalSame, Zenon
  <2> QED BY <2>1, <2>2, <2>5, <2>6, Zenon DEF Total
<1> QED BY <1>2, Zenon DEF SumsOf, TransportField

\* A reader that joins adds what it was asked for and what its transport did.
LEMMA SumsGrow ==
  ASSUME Laws, NEW m, NEW of \in SUBSET Reader, SumsOf(m, of),
         NEW x \in Reader, x \notin of, NEW n,
         \A r \in of \cup {x} : /\ reader[r] \in ReaderType
                                /\ reader'[r].metrics = reader[r].metrics
                                /\ reader'[r].stack = reader[r].stack,
         n.bytesRequested = m.bytesRequested + reader[x].metrics[Face[x]].bytesRequested,
         \A f \in TransportField : n[f] = m[f] + reader[x].metrics["inner"][f]
  PROVE  SumsOf(n, of \cup {x})'
<1>1. IsFiniteSet(of)
  BY LocalAssumption, FiniteSubset, Zenon
<1>2. ASSUME NEW field \in {"bytesRequested"} \cup TransportField
      PROVE  /\ Total(field, of \cup {x}, Face)' =
                  Total(field, of, Face) + reader[x].metrics[Face[x]][field]
             /\ Total(field, of \cup {x}, Inner)' =
                  Total(field, of, Inner) + reader[x].metrics["inner"][field]
  <2>1. PICK f, h : /\ f = [r \in Reader |-> reader[r].metrics[Face[r]][field]]
                    /\ h = [r \in Reader |-> reader[r].metrics[Inner[r]][field]]
    BY Zenon
  <2>2. PICK g, k : /\ g = [r \in Reader |-> reader'[r].metrics[Face'[r]][field]]
                    /\ k = [r \in Reader |-> reader'[r].metrics[Inner'[r]][field]]
    BY Zenon
  <2>3. \A r \in of \cup {x} : f[r] \in Int /\ h[r] \in Int
    BY <2>1, Numbers, Zenon
  <2>4. \A r \in of \cup {x} : g[r] = f[r] /\ k[r] = h[r]
    BY <2>1, <2>2, Zenon DEF Face, Inner
  <2>5. GrowsSum(g, f, of, x)
    <3>1. JoinsSum(g, f, of, x)
      BY <2>3, <2>4, Zenon DEF JoinsSum
    <3> QED BY <3>1, TotalAdd, Zenon
  <2>6. GrowsSum(k, h, of, x)
    <3>1. JoinsSum(k, h, of, x)
      BY <2>3, <2>4, Zenon DEF JoinsSum
    <3> QED BY <3>1, TotalAdd, Zenon
  <2>7. g[x] = reader[x].metrics[Face[x]][field] /\ k[x] = reader[x].metrics["inner"][field]
    BY <2>1, <2>4, Zenon DEF Inner
  <2> QED BY <2>1, <2>2, <2>5, <2>6, <2>7, Zenon DEF Total, GrowsSum
<1>3. n.bytesRequested = Total("bytesRequested", of \cup {x}, Face)'
  BY <1>2, Zenon DEF SumsOf
<1>4. \A f \in TransportField : n[f] = Total(f, of \cup {x}, Inner)'
  BY <1>2, Zenon DEF SumsOf, TransportField
<1> QED BY <1>3, <1>4, Zenon DEF SumsOf, TransportField

\* Nothing sums to nothing.
LEMMA SumsOfNone ==
  ASSUME Laws
  PROVE  SumsOf(NoMetrics, {})
<1>1. \A f : SumFunctionOnSet(f, {}) = 0
  <2>1. {} \in SUBSET Reader
    BY Zenon
  <2>2. SumsVanish({})
    BY <2>1, Zenon DEF Laws, SumLaws
  <2> QED BY <2>2, Zenon DEF SumsVanish
<1>2. /\ NoMetrics.bytesRequested = 0
      /\ \A f \in {"bytesTransferred", "requestCount", "metadataRequestCount"} : NoMetrics[f] = 0
  BY DEF NoMetrics
<1> QED BY <1>1, <1>2, Zenon DEF SumsOf, Total

\* A reader whose counters were folded was opened.
LEMMA FoldedOpened ==
  ASSUME TypeOK, NEW r \in Folded
  PROVE  r \in Reader /\ reader[r] \in ReaderType /\ reader[r].life # "new"
BY DEF TypeOK, Folded, NotOpened

\* A step that changes one reader whose counters are not folded, and stay so, or
\* that leaves them standing, leaves the sums as they are.
LEMMA BooksOne ==
  ASSUME Laws, TypeOK, Books, NEW x \in Reader, registry' = registry,
         \A r \in Reader : r # x => reader'[r] = reader[r],
         \/ x \notin Folded /\ x \notin Folded'
         \/ /\ x \in Folded /\ x \in Folded'
            /\ reader'[x].metrics = reader[x].metrics /\ reader'[x].stack = reader[x].stack
            /\ reader'[x].path = reader[x].path /\ reader'[x].bytes = reader[x].bytes,
         reader'[x].life # "new" => BooksOK(x)'
  PROVE  Books'
<1>1. Folded' = Folded
  BY Zenon DEF Folded, Face
<1>2. \A r \in Folded : /\ reader[r] \in ReaderType /\ r \in Reader
                        /\ reader'[r].metrics = reader[r].metrics
                        /\ reader'[r].stack = reader[r].stack
                        /\ reader'[r].path = reader[r].path
                        /\ reader'[r].bytes = reader[r].bytes
  BY FoldedOpened, Zenon
<1>3. ASSUME NEW r \in Reader, reader'[r].life # "new"
      PROVE  BooksOK(r)'
  <2>1. CASE r = x
    BY <1>3, <2>1, Zenon
  <2>2. CASE r # x
    <3>1. reader'[r] = reader[r] /\ BooksOK(r)
      BY <1>3, <2>2, Zenon DEF Books
    <3> QED BY <3>1, Zenon DEF BooksOK, Face
  <2> QED BY <2>1, <2>2, Zenon
<1>4. RegistryOK'
  <2>1. \A r \in Folded : reader'[r].path = reader[r].path
    BY <1>2, Zenon
  <2> QED BY <1>1, <2>1 DEF Books, RegistryOK
<1>5. PICK a : a = registry.aggregate
  BY Zenon
<1>6. SumsOf(a, Folded)'
  <2>1. PICK of \in SUBSET Reader : of = Folded
    BY Zenon DEF Folded
  <2>2. SumsOf(a, of)
    BY <1>5, <2>1, Zenon DEF Books, EveryTransferFoldedOnce
  <2>3. SumsOf(a, of)'
    BY <1>2, <2>1, <2>2, SumsKeep, Zenon
  <2> QED BY <1>1, <2>1, <2>3, Zenon
<1>7. ASSUME NEW p \in DOMAIN registry.perAsset
      PROVE  (LET of == {r \in Folded : reader[r].path = p}
              IN  /\ SumsOf(registry.perAsset[p], of)
                  /\ registry.perAsset[p].assetSize = Max({Len(reader[r].bytes) : r \in of}))'
  <2>1. PICK of \in SUBSET Reader : of = {r \in Folded : reader[r].path = p}
    BY Zenon DEF Folded
  <2>2. of = {r \in Folded' : reader'[r].path = p}
    BY <1>1, <1>2, <2>1, Zenon
  <2>3. PICK e : e = registry.perAsset[p]
    BY Zenon
  <2>4. SumsOf(e, of) /\ e.assetSize = Max({Len(reader[r].bytes) : r \in of})
    BY <2>1, <2>3, Zenon DEF Books, EveryTransferFoldedOnce
  <2>5. \A r \in of : /\ reader[r] \in ReaderType /\ reader'[r].metrics = reader[r].metrics
                      /\ reader'[r].stack = reader[r].stack /\ reader'[r].bytes = reader[r].bytes
    BY <1>2, <2>1, Zenon
  <2>6. SumsOf(e, of)'
    BY <2>4, <2>5, SumsKeep, Zenon
  <2>7. {Len(reader'[r].bytes) : r \in of} = {Len(reader[r].bytes) : r \in of}
    BY <2>5, Zenon
  <2> QED BY <2>2, <2>3, <2>4, <2>6, <2>7, Zenon
<1>8. EveryTransferFoldedOnce'
  <2>1. registry'.aggregate = a
    BY <1>5, Zenon
  <2>2. SumsOf(registry.aggregate, Folded)'
    BY <1>6, <2>1, Zenon
  <2>3. Cardinality(DOMAIN registry'.perAsset) <= MaxTracked
    BY Zenon DEF Books, EveryTransferFoldedOnce
  <2> QED BY <1>7, <2>2, <2>3, Zenon DEF EveryTransferFoldedOnce
<1> QED BY <1>3, <1>4, <1>8, Zenon DEF Books

\* One more size.
LEMMA MaxGrows ==
  ASSUME Laws, NEW S \in SUBSET Nat, IsFiniteSet(S), S # {}, NEW a \in Nat
  PROVE  Max(S) \in Nat /\ Max(S \cup {a}) = Max({Max(S), a})
<1>1. PICK T : T = S \cup {a}
  BY Zenon
<1>2. T \in SUBSET Int /\ T # {} /\ IsFiniteSet(T)
  BY <1>1, FiniteAdd
<1>3. S \in SUBSET Int
  OBVIOUS
<1>4. PICK m : m = Max(S)
  BY Zenon
<1>5. m \in S /\ \A y \in S : y <= m
  BY <1>3, <1>4, MaxOfFinite, Zenon
<1>6. PICK n : n = Max(T)
  BY Zenon
<1>7. n \in T /\ \A y \in T : y <= n
  BY <1>2, <1>6, MaxOfFinite, Zenon
<1>8. m \in Nat
  BY <1>5, Zenon
<1>9. n = IF m < a THEN a ELSE m
  BY <1>1, <1>5, <1>7, <1>8
<1>10. Max({m, a}) = IF m < a THEN a ELSE m
  BY <1>8, MaxOfTwo, Zenon
<1> QED BY <1>1, <1>4, <1>6, <1>8, <1>9, <1>10, Zenon

\* What adding counters does to each.
LEMMA Adds ==
  ASSUME Laws, NEW m \in Metric, NEW s \in Metric
  PROVE  /\ Add(m, s) \in Metric /\ AddForAsset(m, s) \in Metric
         /\ \A f \in {"bytesRequested"} \cup TransportField :
              Add(m, s)[f] = m[f] + s[f] /\ AddForAsset(m, s)[f] = m[f] + s[f]
         /\ AddForAsset(m, s).assetSize = Max({m.assetSize, s.assetSize})
<1>1. /\ DOMAIN m = {"assetSize", "bytesRequested", "bytesTransferred", "requestCount",
                     "metadataRequestCount"}
      /\ \A f \in DOMAIN m : m[f] \in Nat /\ s[f] \in Nat
  BY Zenon DEF Metric
<1>2. PICK a : a = Add(m, s)
  BY Zenon
<1>3. a = [f \in DOMAIN m |-> m[f] + s[f]]
  BY <1>2, Zenon DEF Add
<1>4. a \in Metric
  <2>1. a = [assetSize |-> a.assetSize, bytesRequested |-> a.bytesRequested,
             bytesTransferred |-> a.bytesTransferred, requestCount |-> a.requestCount,
             metadataRequestCount |-> a.metadataRequestCount]
    BY <1>1, <1>3, Zenon
  <2>2. \A f \in DOMAIN m : a[f] \in Nat
    BY <1>1, <1>3
  <2> QED BY <1>1, <2>1, <2>2, Zenon DEF Metric
<1>5. \A f \in {"bytesRequested"} \cup TransportField : a[f] = m[f] + s[f]
  BY <1>1, <1>3, Zenon DEF TransportField
<1>6. PICK n \in Nat : n = Max({m.assetSize, s.assetSize})
  BY <1>1, MaxOfTwo, Zenon
<1>7. AddForAsset(m, s) = [a EXCEPT !.assetSize = n]
  BY <1>2, <1>6, Zenon DEF AddForAsset
<1>8. PICK e : e = [a EXCEPT !.assetSize = n]
  BY Zenon
<1>9. e \in Metric /\ e.assetSize = n
      /\ \A f \in {"bytesRequested"} \cup TransportField : e[f] = a[f]
  BY <1>4, <1>8, Zenon DEF Metric, TransportField
<1> QED BY <1>2, <1>4, <1>5, <1>6, <1>7, <1>8, <1>9, Zenon

\* The folded readers of an asset.
FoldedOf(q) == {r \in Folded : reader[r].path = q}

\* An entry of the table has all of them.
EntryOf(q, e) ==
  /\ FoldedOf(q) # {} /\ e \in Metric /\ SumsOf(e, FoldedOf(q))
  /\ e.assetSize = Max({Len(reader[r].bytes) : r \in FoldedOf(q)})

\* The registry, entry by entry.
LEMMA ByEntry ==
  (RegistryOK /\ EveryTransferFoldedOnce)
    <=> /\ registry.aggregate \in Metric /\ SumsOf(registry.aggregate, Folded)
        /\ IsFiniteSet(DOMAIN registry.perAsset)
        /\ Cardinality(DOMAIN registry.perAsset) <= MaxTracked
        /\ Cardinality(DOMAIN registry.perAsset) < MaxTracked =>
             \A r \in Folded : reader[r].path \in DOMAIN registry.perAsset
        /\ \A q \in DOMAIN registry.perAsset : EntryOf(q, registry.perAsset[q])
<1>1. \A q : FoldedOf(q) # {} <=> \E r \in Folded : reader[r].path = q
  BY Zenon DEF FoldedOf
<1> QED BY <1>1, Zenon DEF RegistryOK, EveryTransferFoldedOnce, EntryOf, FoldedOf

\* What a reader's counters become when they are folded: they stand, and the
\* reader is among the folded ones.
LEMMA JoinsFolded ==
  ASSUME IInv, Books, NEW x \in Reader, DestroyMetrics(x, Face[x])
  PROVE  /\ reader[x] \in ReaderType /\ x \notin Folded /\ Folded' = Folded \cup {x}
         /\ \A r \in Reader : r # x => reader'[r] = reader[r]
         /\ \A r \in Reader : /\ reader'[r].metrics = reader[r].metrics
                              /\ reader'[r].stack = reader[r].stack
                              /\ reader'[r].path = reader[r].path
                              /\ reader'[r].bytes = reader[r].bytes
         /\ reader'[x].life # "new" /\ BooksOK(x)'
         /\ Fold(reader[x].metrics[Face[x]], reader[x].path)
         /\ BooksOK(x)
<1>1. reader[x].life = "closing" /\ Face[x] \in reader[x].layers
  BY Zenon DEF DestroyMetrics
<1>2. reader[x] \in ReaderType
  BY <1>1, SMTT(30) DEF IInv, TypeOK, NotOpened
<1>3. BooksOK(x)
  BY <1>1, Zenon DEF Books
<1>4. ~IsDetached(x, Face[x])
  BY Zenon DEF IsDetached, Face
<1>5. Fold(reader[x].metrics[Face[x]], reader[x].path)
  BY <1>4, Zenon DEF DestroyMetrics
<1>6. PICK w \in ReaderType : w = reader[x]
  BY <1>2, Zenon
<1>7. PICK l \in Layer : l = Face[x]
  BY <1>1, <1>2, Zenon DEF ReaderType
<1>8. PICK k : k = IF l = "inner" THEN "closed" ELSE "closing"
  BY Zenon
<1>9. reader' = [reader EXCEPT ![x] = [w EXCEPT !.layers = w.layers \ {l}, !.life = k]]
  BY <1>1, <1>6, <1>7, <1>8, Zenon DEF DestroyMetrics, IInv, TypeOK
<1>10. PICK v : v = [w EXCEPT !.layers = w.layers \ {l}, !.life = k]
  BY Zenon
<1>11. /\ v.metrics = w.metrics /\ v.stack = w.stack /\ v.path = w.path /\ v.bytes = w.bytes
       /\ v.layers = w.layers \ {l} /\ v.life = k
  BY <1>10, Zenon DEF ReaderType
<1>12. reader'[x] = v /\ \A r \in Reader : r # x => reader'[r] = reader[r]
  BY <1>9, <1>10, Zenon DEF IInv, TypeOK
<1>13. x \notin Folded
  BY <1>1, Zenon DEF Folded
<1>14. Face'[x] = l
  BY <1>6, <1>7, <1>11, <1>12, Zenon DEF Face
<1>15. x \in Folded'
  BY <1>8, <1>11, <1>12, <1>14, Zenon DEF Folded
<1>16. \A r \in Reader : r # x => (r \in Folded' <=> r \in Folded)
  BY <1>12, Zenon DEF Folded, Face
<1>17. Folded' = Folded \cup {x}
  BY <1>13, <1>15, <1>16, Zenon DEF Folded
<1>18. reader'[x].life # "new" /\ reader'[x].life # "open"
  BY <1>8, <1>11, <1>12, Zenon
<1>19. BooksOK(x)'
  BY <1>1, <1>3, <1>6, <1>11, <1>12, <1>18, Zenon DEF BooksOK
<1>20. \A r \in Reader : /\ reader'[r].metrics = reader[r].metrics
                         /\ reader'[r].stack = reader[r].stack
                         /\ reader'[r].path = reader[r].path
                         /\ reader'[r].bytes = reader[r].bytes
  BY <1>6, <1>11, <1>12, Zenon
<1> QED BY <1>2, <1>3, <1>5, <1>12, <1>13, <1>17, <1>18, <1>19, <1>20, Zenon

\* Sizes of folded readers are bounded, so there is a largest.
LEMMA SizesOf ==
  ASSUME Laws, IInv, NEW of \in SUBSET Folded
  PROVE  LET S == {Len(reader[r].bytes) : r \in of}
         IN  S \in SUBSET Nat /\ IsFiniteSet(S)
<1>1. MaxSize \in Nat
  BY LocalAssumption, Zenon
<1>2. \A r \in of : Len(reader[r].bytes) \in 0 .. MaxSize
  <2> SUFFICES ASSUME NEW r \in of
               PROVE  Len(reader[r].bytes) \in 0 .. MaxSize
    BY Zenon
  <2>1. r \in Reader /\ reader[r] \in ReaderType /\ reader[r].life # "new"
    BY FoldedOpened, Zenon DEF IInv
  <2>2. reader[r].bytes \in Seq(Nat)
    BY <2>1, Zenon DEF ReaderType
  <2>3. Len(reader[r].bytes) <= MaxSize
    BY <2>1, Zenon DEF IInv, Captured
  <2> QED BY <1>1, <2>2, <2>3
<1> DEFINE S == {Len(reader[r].bytes) : r \in of}
<1>3. S \subseteq 0 .. MaxSize
  BY <1>2, Zenon
<1> HIDE DEF S
<1>4. S \in SUBSET Nat /\ IsFiniteSet(S)
  <2>1. IsFiniteSet(0 .. MaxSize)
    BY <1>1, FiniteInterval
  <2>2. S \in SUBSET (0 .. MaxSize) /\ S \in SUBSET Nat
    BY <1>1, <1>3
  <2>3. IsFiniteSet(S)
    BY <2>1, <2>2, FiniteSubset, Zenon
  <2> QED BY <2>2, <2>3, Zenon
<1> QED BY <1>4, Zenon DEF S

\* A fold leaves the entries of the other assets alone, and adds to its own.
LEMMA EntryKeeps ==
  ASSUME Laws, IInv, Books, NEW x \in Reader, DestroyMetrics(x, Face[x]),
         NEW q, q # reader[x].path, NEW e, EntryOf(q, e)
  PROVE  EntryOf(q, e)'
<1>1. FoldedOf(q)' = FoldedOf(q)
  BY JoinsFolded DEF FoldedOf, Folded
<1>2. PICK of \in SUBSET Reader : of = FoldedOf(q)
  BY Zenon DEF FoldedOf, Folded
<1>3. \A r \in of : /\ reader[r] \in ReaderType /\ reader'[r].metrics = reader[r].metrics
                    /\ reader'[r].stack = reader[r].stack /\ reader'[r].bytes = reader[r].bytes
  BY <1>2, JoinsFolded, FoldedOpened, Zenon DEF FoldedOf, IInv
<1>4. SumsOf(e, of)'
  <2>1. SumsOf(e, of)
    BY <1>2, Zenon DEF EntryOf
  <2> QED BY <1>3, <2>1, SumsKeep, Zenon
<1>5. {Len(reader'[r].bytes) : r \in of} = {Len(reader[r].bytes) : r \in of}
  BY <1>3, Zenon
<1> QED BY <1>1, <1>2, <1>4, <1>5, Zenon DEF EntryOf

\* ... what the reader that goes had counted.
LEMMA EntryGrows ==
  ASSUME Laws, IInv, Books, NEW x \in Reader, DestroyMetrics(x, Face[x]),
         NEW s \in Metric, s = reader[x].metrics[Face[x]], NEW q, q = reader[x].path
  PROVE  /\ \A f \in TransportField : s[f] = reader[x].metrics["inner"][f]
         /\ \A e : EntryOf(q, e) => EntryOf(q, AddForAsset(e, s))'
         /\ FoldedOf(q) = {} => EntryOf(q, s)'
<1>1. \A f \in TransportField : s[f] = reader[x].metrics["inner"][f]
  <2>1. BooksOK(x) /\ reader[x].life = "closing" /\ reader[x] \in ReaderType
    BY JoinsFolded, Zenon DEF DestroyMetrics
  <2>2. CASE reader[x].stack = "cached"
    BY <2>1, <2>2, Zenon DEF BooksOK, Face
  <2>3. CASE reader[x].stack # "cached"
    BY <2>3, Zenon DEF Face
  <2> QED BY <2>2, <2>3, Zenon
<1>2. PICK of \in SUBSET Reader : of = FoldedOf(q)
  BY Zenon DEF FoldedOf, Folded
<1>3. x \notin of /\ FoldedOf(q)' = of \cup {x}
  BY <1>2, JoinsFolded DEF FoldedOf, Folded
<1>4. \A r \in of \cup {x} :
        /\ reader[r] \in ReaderType /\ reader'[r].metrics = reader[r].metrics
        /\ reader'[r].stack = reader[r].stack /\ reader'[r].bytes = reader[r].bytes
  BY <1>2, JoinsFolded, FoldedOpened, Zenon DEF FoldedOf, IInv
<1>5. PICK size : size = Len(reader[x].bytes)
  BY Zenon
<1>6. s.assetSize = size /\ size \in Nat
  <2>1. BooksOK(x) /\ Face[x] \in Layer
    BY JoinsFolded, Numbers, Zenon
  <2>2. s.assetSize \in Nat
    BY Zenon DEF Metric
  <2> QED BY <1>5, <2>1, <2>2, Zenon DEF BooksOK
<1>7. PICK S : S = {Len(reader[r].bytes) : r \in of}
  BY Zenon
<1>8. {Len(reader'[r].bytes) : r \in of \cup {x}} = S \cup {size}
  BY <1>4, <1>5, <1>7, Zenon
<1>9. S \in SUBSET Nat /\ IsFiniteSet(S)
  <2>1. of \in SUBSET Folded
    BY <1>2, Zenon DEF FoldedOf
  <2> QED BY <1>7, <2>1, SizesOf, Zenon
<1>10. ASSUME NEW m, NEW e, SumsOf(m, of), e \in Metric,
              \A f \in {"bytesRequested"} \cup TransportField : e[f] = m[f] + s[f],
              e.assetSize = Max(S \cup {size})
       PROVE  EntryOf(q, e)'
  <2>1. SumsOf(e, of \cup {x})'
    <3>1. e.bytesRequested = m.bytesRequested + reader[x].metrics[Face[x]].bytesRequested
      BY <1>10, Zenon
    <3>2. \A f \in TransportField : e[f] = m[f] + reader[x].metrics["inner"][f]
      BY <1>1, <1>10, Zenon
    <3> QED BY <1>3, <1>4, <1>10, <3>1, <3>2, SumsGrow, Zenon
  <2> QED BY <1>3, <1>8, <1>10, <2>1, Zenon DEF EntryOf
<1>11. ASSUME NEW e, EntryOf(q, e)
       PROVE  EntryOf(q, AddForAsset(e, s))'
  <2>1. e \in Metric /\ SumsOf(e, of) /\ of # {} /\ e.assetSize = Max(S)
    BY <1>2, <1>7, <1>11, Zenon DEF EntryOf
  <2>2. S # {}
    BY <1>7, <2>1, Zenon
  <2>3. Max(S \cup {size}) = Max({Max(S), size})
    BY <1>6, <1>9, <2>2, MaxGrows, Zenon
  <2>4. PICK n : n = AddForAsset(e, s)
    BY Zenon
  <2>5. n \in Metric /\ n.assetSize = Max({e.assetSize, s.assetSize})
        /\ \A f \in {"bytesRequested"} \cup TransportField : n[f] = e[f] + s[f]
    BY <2>1, <2>4, Adds, Zenon
  <2>6. n.assetSize = Max(S \cup {size})
    BY <1>6, <2>1, <2>3, <2>5, Zenon
  <2>7. EntryOf(q, n)'
    BY <1>10, <2>1, <2>5, <2>6, Zenon
  <2> QED BY <2>4, <2>7, Zenon
<1>12. ASSUME FoldedOf(q) = {}
       PROVE  EntryOf(q, s)'
  <2>1. of = {} /\ S = {} /\ SumsOf(NoMetrics, of)
    BY <1>2, <1>7, <1>12, SumsOfNone, Zenon
  <2>2. \A f \in {"bytesRequested"} \cup TransportField : s[f] = NoMetrics[f] + s[f]
    BY DEF Metric, NoMetrics, TransportField
  <2>3. s.assetSize = Max(S \cup {size})
    <3>1. S \cup {size} = {size, size}
      BY <2>1, Zenon
    <3>2. Max({size, size}) = size
      BY <1>6, MaxOfTwo, Zenon
    <3> QED BY <1>6, <3>1, <3>2, Zenon
  <2> QED BY <1>10, <2>1, <2>2, <2>3, Zenon
<1> QED BY <1>1, <1>11, <1>12, Zenon

\* The counters that a stack is known by are folded: into the aggregate, and
\* into the entry of their asset if it has one or there is room for it.
LEMMA BooksFold ==
  ASSUME Laws, IInv, Books, NEW x \in Reader, DestroyMetrics(x, Face[x])
  PROVE  Books'
<1>1. \A r \in Reader : reader'[r].life # "new" => BooksOK(r)'
  <2> SUFFICES ASSUME NEW r \in Reader, reader'[r].life # "new"
               PROVE  BooksOK(r)'
    BY Zenon
  <2>1. CASE r = x
    BY <2>1, JoinsFolded, Zenon
  <2>2. CASE r # x
    <3>1. reader'[r] = reader[r]
      BY <2>2, JoinsFolded, Zenon
    <3>2. BooksOK(r)
      BY <3>1, Zenon DEF Books
    <3> QED BY <3>1, <3>2, Zenon DEF BooksOK, Face
  <2> QED BY <2>1, <2>2, Zenon
<1>2. PICK s \in Metric : s = reader[x].metrics[Face[x]]
  BY JoinsFolded, Numbers, Zenon
<1>3. PICK p : p = reader[x].path
  BY Zenon
<1>4. PICK a \in Metric : a = registry.aggregate
  BY Zenon DEF Books, RegistryOK
<1>5. PICK tab : tab = registry.perAsset
  BY Zenon
<1>6. /\ SumsOf(a, Folded) /\ IsFiniteSet(DOMAIN tab) /\ Cardinality(DOMAIN tab) <= MaxTracked
      /\ Cardinality(DOMAIN tab) < MaxTracked => \A r \in Folded : reader[r].path \in DOMAIN tab
      /\ \A q \in DOMAIN tab : EntryOf(q, tab[q])
  BY <1>4, <1>5, ByEntry, Zenon DEF Books
<1>7. PICK new : new = IF p \in DOMAIN tab
                       THEN [tab EXCEPT ![p] = AddForAsset(tab[p], s)]
                       ELSE IF Cardinality(DOMAIN tab) < MaxTracked
                       THEN [i \in DOMAIN tab \cup {p} |-> IF i = p THEN s ELSE tab[i]]
                       ELSE tab
  BY Zenon
<1>8. registry'.aggregate = Add(a, s) /\ registry'.perAsset = new
  <2>1. Fold(s, p)
    BY <1>2, <1>3, JoinsFolded, Zenon
  <2> QED BY <1>4, <1>5, <1>7, <2>1, Zenon DEF Fold
<1>9. /\ x \notin Folded /\ Folded' = Folded \cup {x}
      /\ \A r \in Reader : reader'[r].path = reader[r].path
  BY JoinsFolded, Zenon
<1>10. Add(a, s) \in Metric /\ SumsOf(Add(a, s), Folded)'
  <2>1. PICK of \in SUBSET Reader : of = Folded
    BY Zenon DEF Folded
  <2>2. PICK n : n = Add(a, s)
    BY Zenon
  <2>3. n \in Metric /\ \A f \in {"bytesRequested"} \cup TransportField : n[f] = a[f] + s[f]
    BY <2>2, Adds, Zenon
  <2>4. \A f \in TransportField : s[f] = reader[x].metrics["inner"][f]
    BY <1>2, <1>3, EntryGrows, Zenon
  <2>5. \A r \in of \cup {x} : /\ reader[r] \in ReaderType
                               /\ reader'[r].metrics = reader[r].metrics
                               /\ reader'[r].stack = reader[r].stack
    BY <2>1, JoinsFolded, FoldedOpened, Zenon DEF IInv
  <2>6. n.bytesRequested = a.bytesRequested + reader[x].metrics[Face[x]].bytesRequested
        /\ \A f \in TransportField : n[f] = a[f] + reader[x].metrics["inner"][f]
    BY <1>2, <2>3, <2>4, Zenon
  <2>7. SumsOf(a, of) /\ x \notin of
    BY <1>6, <1>9, <2>1, Zenon
  <2>8. SumsOf(n, of \cup {x})'
    BY <2>5, <2>6, <2>7, SumsGrow, Zenon
  <2> QED BY <1>9, <2>1, <2>2, <2>3, <2>8, Zenon
<1>11. \A q \in DOMAIN tab : q # p => EntryOf(q, tab[q])'
  <2> SUFFICES ASSUME NEW q \in DOMAIN tab, q # p
               PROVE  EntryOf(q, tab[q])'
    BY Zenon
  <2> QED BY <1>3, <1>6, EntryKeeps, Zenon
<1>12. /\ IsFiniteSet(DOMAIN new) /\ Cardinality(DOMAIN new) <= MaxTracked
       /\ Cardinality(DOMAIN new) < MaxTracked => \A r \in Folded' : reader'[r].path \in DOMAIN new
       /\ \A q \in DOMAIN new : EntryOf(q, new[q])'
  <2>1. CASE p \in DOMAIN tab
    <3>1. DOMAIN new = DOMAIN tab /\ new[p] = AddForAsset(tab[p], s)
          /\ \A q \in DOMAIN tab : q # p => new[q] = tab[q]
      BY <1>7, <2>1, Zenon
    <3>2. EntryOf(p, AddForAsset(tab[p], s))'
      BY <1>2, <1>3, <1>6, <2>1, EntryGrows, SMTT(30)
    <3>3. \A q \in DOMAIN new : EntryOf(q, new[q])'
      BY <1>11, <3>1, <3>2, Zenon
    <3>4. \A r \in Folded' : reader'[r].path = reader[r].path /\ (r \in Folded \/ r = x)
      BY <1>9, Zenon DEF Folded
    <3> QED BY <1>3, <1>6, <2>1, <3>1, <3>3, <3>4, Zenon
  <2>2. CASE p \notin DOMAIN tab /\ Cardinality(DOMAIN tab) < MaxTracked
    <3>1. new = [i \in DOMAIN tab \cup {p} |-> IF i = p THEN s ELSE tab[i]]
      BY <1>7, <2>2, Zenon
    <3>2. FoldedOf(p) = {}
      BY <1>6, <2>2, Zenon DEF FoldedOf
    <3>3. EntryOf(p, s)'
      BY <1>2, <1>3, <3>2, EntryGrows, Zenon
    <3>4. \A q \in DOMAIN new : EntryOf(q, new[q])'
      BY <1>11, <3>1, <3>3, Zenon
    <3>5. \A r \in Folded' : reader'[r].path \in DOMAIN tab \cup {p}
      BY <1>3, <1>6, <1>9, <2>2, Zenon DEF Folded
    <3>6. IsFiniteSet(DOMAIN tab \cup {p})
          /\ Cardinality(DOMAIN tab \cup {p}) = Cardinality(DOMAIN tab) + 1
      BY <1>6, <2>2, FiniteAdd, Zenon
    <3>7. Cardinality(DOMAIN tab) \in Nat /\ MaxTracked \in Nat
      BY <1>6, FiniteCount, LocalAssumption, Zenon
    <3>8. Cardinality(DOMAIN tab) + 1 <= MaxTracked
      BY <2>2, <3>7
    <3>9. DOMAIN new = DOMAIN tab \cup {p}
      BY <3>1, Zenon
    <3> QED BY <3>4, <3>5, <3>6, <3>8, <3>9, Zenon
  <2>3. CASE p \notin DOMAIN tab /\ ~(Cardinality(DOMAIN tab) < MaxTracked)
    <3>1. new = tab
      BY <1>7, <2>3, Zenon
    <3> QED BY <1>6, <1>11, <2>3, <3>1, Zenon
  <2> QED BY <2>1, <2>2, <2>3, Zenon
<1>13. (RegistryOK /\ EveryTransferFoldedOnce)'
  <2>1. (/\ registry.aggregate \in Metric /\ SumsOf(registry.aggregate, Folded)
         /\ IsFiniteSet(DOMAIN registry.perAsset)
         /\ Cardinality(DOMAIN registry.perAsset) <= MaxTracked
         /\ Cardinality(DOMAIN registry.perAsset) < MaxTracked =>
              \A r \in Folded : reader[r].path \in DOMAIN registry.perAsset
         /\ \A q \in DOMAIN registry.perAsset : EntryOf(q, registry.perAsset[q]))'
    BY <1>8, <1>10, <1>12, Zenon
  <2> QED BY <2>1, ByEntry, PTL
<1> QED BY <1>1, <1>13, Zenon DEF Books

\* What counting leaves alone.
LEMMA CountsApart ==
  ASSUME NEW m \in Metric, NEW n \in Nat
  PROVE  /\ AddRequest(m).assetSize = m.assetSize
         /\ AddMetadataRequest(m).assetSize = m.assetSize
         /\ AddBytesTransferred(m, n).assetSize = m.assetSize
         /\ AddBytesRequested(m, n).assetSize = m.assetSize
         /\ \A f \in TransportField : AddBytesRequested(m, n)[f] = m[f]
BY Zenon DEF AddRequest, AddMetadataRequest, AddBytesTransferred, AddBytesRequested, Metric, TransportField

\* An open reader that counts is not folded, and its sizes stay.
LEMMA BooksCounts ==
  ASSUME Laws, IInv, Books, NEW t \in Thread, read[t].pc # "idle", NEW m \in Metric,
         m.assetSize = Of(t).metrics["inner"].assetSize, Counts(t, m), registry' = registry
  PROVE  Books'
<1>1. PICK x \in Reader : x = read[t].reader
  BY CountsKeeps, Zenon DEF IInv
<1>2. reader[x].life = "open"
  BY <1>1, InFlight, Zenon DEF Of
<1>3. /\ reader[x] \in ReaderType
      /\ reader'[x].metrics = [reader[x].metrics EXCEPT !["inner"] = m]
      /\ \A r \in Reader : r # x => reader'[r] = reader[r]
      /\ reader'[x].life = "open" /\ reader'[x].stack = reader[x].stack
      /\ reader'[x].layers = reader[x].layers /\ reader'[x].bytes = reader[x].bytes
  BY <1>1, <1>2, CountsKeeps, Zenon DEF IInv
<1>4. reader[x].metrics \in [Layer -> Metric]
  BY <1>3, Zenon DEF ReaderType
<1>5. reader'[x].metrics["inner"] = m /\ reader'[x].metrics["outer"] = reader[x].metrics["outer"]
  BY <1>3, <1>4, Zenon DEF Layer
<1>6. x \notin Folded /\ x \notin Folded'
  BY <1>2, <1>3, Zenon DEF Folded
<1>7. BooksOK(x)
  BY <1>2, Zenon DEF Books
<1>8. BooksOK(x)'
  <2>1. Face'[x] = Face[x] /\ m.assetSize = reader[x].metrics["inner"].assetSize
    BY <1>1, <1>3, Zenon DEF Face, Of
  <2> QED BY <1>2, <1>3, <1>5, <1>7, <2>1 DEF BooksOK, Layer
<1> QED BY <1>3, <1>6, <1>8, BooksOne, Zenon DEF IInv

\* A reader that is opened, closed or read counts nothing that is folded yet.
LEMMA BooksOpen ==
  ASSUME Laws, IInv, Books, NEW r \in Reader, NEW p \in Path, NEW stack \in {"bare", "cached"},
         Open(r, p, stack)
  PROVE  Books'
<1>1. /\ reader' = [reader EXCEPT ![r] = Opened(p, stack)]
      /\ registry' = registry /\ reader[r].life = "new"
  BY OpenMakes DEF IInv
<1>2. reader'[r] = Opened(p, stack) /\ \A x \in Reader : x # r => reader'[x] = reader[x]
  BY <1>1, Zenon DEF IInv, TypeOK
<1>3. PICK size \in Nat : size = Len(file[p].bytes)
  BY DEF IInv, TypeOK, FileType
<1>4. PICK sized \in Metric : sized = [NoMetrics EXCEPT !.assetSize = size]
  BY Records, Zenon
<1>5. sized.assetSize = size /\ \A f \in TransportField : sized[f] = 0
  BY <1>4 DEF NoMetrics, TransportField
<1>6. PICK counted \in Metric : counted = AddMetadataRequest(sized) /\ counted.assetSize = size
  <2>1. AddMetadataRequest(sized) \in Metric
    BY CountsTyped, Zenon
  <2>2. AddMetadataRequest(sized).assetSize = sized.assetSize
    BY CountsApart, Zenon
  <2> QED BY <1>5, <2>1, <2>2, Zenon
<1>7. Opened(p, stack) =
        [life |-> "open", stack |-> stack, path |-> p, reads |-> 0,
         modifiedTicks |-> file[p].modifiedTicks, bytes |-> file[p].bytes,
         layers |-> IF stack = "bare" THEN {"inner"} ELSE Layer,
         metrics |-> [inner |-> counted, outer |-> sized]]
  BY <1>3, <1>4, <1>6, Zenon DEF Opened
<1>8. /\ reader'[r].life = "open" /\ reader'[r].stack = stack /\ reader'[r].bytes = file[p].bytes
      /\ reader'[r].layers = IF stack = "bare" THEN {"inner"} ELSE Layer
      /\ reader'[r].metrics["inner"] = counted /\ reader'[r].metrics["outer"] = sized
  BY <1>2, <1>7
<1>9. BooksOK(r)'
  <2>1. Face'[r] = IF stack = "cached" THEN "outer" ELSE "inner"
    BY <1>8, Zenon DEF Face
  <2> QED BY <1>3, <1>5, <1>6, <1>8, <2>1 DEF BooksOK, Layer
<1>10. r \notin Folded /\ r \notin Folded'
  BY <1>1, <1>8, Zenon DEF Folded
<1> QED BY <1>1, <1>2, <1>9, <1>10, BooksOne, Zenon DEF IInv

\* A stack that is closed absorbs what was counted inside it.
LEMMA BooksClose ==
  ASSUME Laws, IInv, Books, NEW r \in Reader, Close(r)
  PROVE  Books'
<1>1. reader[r].life = "open" /\ registry' = registry
  BY Zenon DEF Close
<1>2. PICK w \in ReaderType : w = reader[r]
  BY <1>1 DEF IInv, TypeOK, NotOpened
<1>3. w.metrics \in [Layer -> Metric]
  BY Zenon DEF ReaderType
<1>4. PICK a \in Metric, b \in Metric : a = w.metrics["outer"] /\ b = w.metrics["inner"]
  BY <1>3, Zenon DEF Layer
<1>5. PICK k \in Metric, ms \in [Layer -> Metric] :
        /\ k = IF w.stack = "cached" THEN AbsorbTransport(a, b) ELSE a
        /\ ms = [w.metrics EXCEPT !["outer"] = k]
        /\ reader' = [reader EXCEPT ![r] = [w EXCEPT !.life = "closing", !.metrics = ms]]
  <2>1. PICK k \in Metric, ms \in [Layer -> Metric] :
           /\ k = IF reader[r].stack = "cached"
                  THEN AbsorbTransport(reader[r].metrics.outer, reader[r].metrics.inner)
                  ELSE reader[r].metrics.outer
           /\ ms = [reader[r].metrics EXCEPT !.outer = k]
           /\ reader' = [reader EXCEPT ![r] = [reader[r] EXCEPT !.life = "closing", !.metrics = ms]]
    BY <1>2, CloseMakes, Zenon
  <2> QED BY <1>2, <1>4, <2>1, Zenon
<1>6. ms = [w.metrics EXCEPT !["outer"] = k]
  BY <1>5, Zenon
<1>7. PICK v : v = [w EXCEPT !.life = "closing", !.metrics = ms]
  BY Zenon
<1>8. reader' = [reader EXCEPT ![r] = v]
  BY <1>5, <1>7, Zenon
<1>9. reader'[r] = v /\ \A x \in Reader : x # r => reader'[x] = reader[x]
  BY <1>8, Zenon DEF IInv, TypeOK
<1>10. /\ v.life = "closing" /\ v.stack = w.stack /\ v.layers = w.layers /\ v.bytes = w.bytes
       /\ v.metrics = ms
  BY <1>7, Zenon DEF ReaderType
<1>11. ms["outer"] = k /\ ms["inner"] = b
  BY <1>3, <1>4, <1>6, Zenon DEF Layer
<1>12. BooksOK(r)
  BY <1>1, Zenon DEF Books
<1>13. a.assetSize = Len(w.bytes) /\ b.assetSize = Len(w.bytes) /\ Len(w.bytes) \in Nat
  BY <1>2, <1>4, <1>12 DEF BooksOK, Layer, ReaderType
<1>14. k.assetSize = Len(w.bytes)
  BY <1>5, <1>13, Absorbed, Zenon
<1>15. w.stack = "cached" => \A f \in TransportField : k[f] = b[f]
  <2> SUFFICES ASSUME w.stack = "cached"
               PROVE  \A f \in TransportField : k[f] = b[f]
    BY Zenon
  <2>1. \A f \in TransportField : a[f] = 0
    BY <1>1, <1>2, <1>4, <1>12, Zenon DEF BooksOK
  <2>2. \A f \in TransportField : b[f] \in Nat
    BY Zenon DEF Metric, TransportField
  <2>3. k = AbsorbTransport(a, b)
    BY <1>5, Zenon
  <2>4. /\ k.bytesTransferred = a.bytesTransferred + b.bytesTransferred
        /\ k.requestCount = a.requestCount + b.requestCount
        /\ k.metadataRequestCount = a.metadataRequestCount + b.metadataRequestCount
    BY <2>3, Absorbed, Zenon
  <2> QED BY <2>1, <2>2, <2>4 DEF TransportField
<1>16. BooksOK(r)'
  BY <1>2, <1>9, <1>10, <1>11, <1>12, <1>13, <1>14, <1>15, Zenon DEF BooksOK, Layer
<1>17. r \notin Folded
  BY <1>1, Zenon DEF Folded
<1>18. r \notin Folded'
  <2>1. Face'[r] = Face[r]
    BY <1>2, <1>9, <1>10, Zenon DEF Face
  <2>2. Face[r] \in w.layers
    BY <1>1, <1>2, <1>12, Zenon DEF BooksOK
  <2> QED BY <1>9, <1>10, <2>1, <2>2, Zenon DEF Folded
<1> QED BY <1>1, <1>9, <1>16, <1>17, <1>18, BooksOne, Zenon DEF IInv

\* A read that begins is counted in every layer it passes through.
LEMMA BooksStart ==
  ASSUME Laws, IInv, Books, NEW t \in Thread, NEW r \in Reader, NEW q \in Request, StartRead(t, r, q)
  PROVE  Books'
<1>1. reader[r].life = "open" /\ registry' = registry
  BY Zenon DEF StartRead
<1>2. PICK w \in ReaderType : w = reader[r]
  BY <1>1 DEF IInv, TypeOK, NotOpened
<1>3. w.metrics \in [Layer -> Metric] /\ w.reads \in Nat
  BY Zenon DEF ReaderType
<1>4. PICK n \in Nat : n = q[2]
  BY LocalAssumption, Zenon
<1>5. PICK ms : ms = [l \in Layer |-> IF l \in w.layers
                                      THEN AddBytesRequested(w.metrics[l], n) ELSE w.metrics[l]]
  BY Zenon
<1>6. \A l \in Layer : /\ ms[l].assetSize = w.metrics[l].assetSize
                       /\ \A f \in TransportField : ms[l][f] = w.metrics[l][f]
  <2> SUFFICES ASSUME NEW l \in Layer
               PROVE  /\ ms[l].assetSize = w.metrics[l].assetSize
                      /\ \A f \in TransportField : ms[l][f] = w.metrics[l][f]
    BY Zenon
  <2>1. PICK m \in Metric : m = w.metrics[l]
    BY <1>3, Zenon
  <2>2. ms[l] = IF l \in w.layers THEN AddBytesRequested(m, n) ELSE m
    BY <1>5, <2>1, Zenon
  <2> QED BY <2>1, <2>2, CountsApart
<1>7. PICK v : v = [w EXCEPT !.reads = w.reads + 1, !.metrics = ms]
  BY Zenon
<1>8. reader' = [reader EXCEPT ![r] = v]
  BY <1>2, <1>4, <1>5, <1>7, Zenon DEF StartRead
<1>9. reader'[r] = v /\ \A x \in Reader : x # r => reader'[x] = reader[x]
  BY <1>8, Zenon DEF IInv, TypeOK
<1>10. /\ v.life = w.life /\ v.stack = w.stack /\ v.layers = w.layers /\ v.bytes = w.bytes
       /\ v.metrics = ms
  BY <1>7, Zenon DEF ReaderType
<1>11. BooksOK(r)
  BY <1>1, Zenon DEF Books
<1>12. BooksOK(r)'
  <2>1. Face'[r] = Face[r]
    BY <1>2, <1>9, <1>10, Zenon DEF Face
  <2> QED BY <1>1, <1>2, <1>6, <1>9, <1>10, <1>11, <2>1 DEF BooksOK, Layer
<1>13. r \notin Folded /\ r \notin Folded'
  BY <1>1, <1>2, <1>9, <1>10, Zenon DEF Folded
<1> QED BY <1>1, <1>9, <1>12, <1>13, BooksOne, Zenon DEF IInv

\* The counters inside a stack go with nothing said of them.
LEMMA BooksDetached ==
  ASSUME Laws, IInv, Books, NEW r \in Reader, NEW layer \in Layer, DestroyMetrics(r, layer),
         layer # Face[r]
  PROVE  Books'
<1>1. PICK w \in ReaderType : w = reader[r] /\ w.life = "closing" /\ layer \in w.layers
  BY DEF DestroyMetrics, IInv, TypeOK, NotOpened
<1>2. BooksOK(r)
  BY <1>1, Zenon DEF Books
<1>3. w.stack = "cached" /\ layer = "inner"
  BY <1>1, <1>2, Zenon DEF BooksOK, Face, Layer, ReaderType
<1>4. registry' = registry /\ "outer" \notin w.layers
  BY <1>1, <1>3, Zenon DEF DestroyMetrics, IsDetached
<1>5. PICK v : v = [w EXCEPT !.layers = w.layers \ {layer}, !.life = "closed"]
  BY Zenon
<1>6. reader' = [reader EXCEPT ![r] = v]
  BY <1>1, <1>3, <1>5, Zenon DEF DestroyMetrics, IInv, TypeOK
<1>7. reader'[r] = v /\ \A x \in Reader : x # r => reader'[x] = reader[x]
  BY <1>6, Zenon DEF IInv, TypeOK
<1>8. /\ v.life = "closed" /\ v.stack = w.stack /\ v.layers = w.layers \ {layer}
      /\ v.bytes = w.bytes /\ v.metrics = w.metrics /\ v.path = w.path
  BY <1>5, Zenon DEF ReaderType
<1>9. BooksOK(r)'
  BY <1>1, <1>2, <1>3, <1>7, <1>8, Zenon DEF BooksOK
<1>10. r \in Folded /\ r \in Folded'
  BY <1>1, <1>3, <1>4, <1>7, <1>8, Zenon DEF Folded, Face
<1> QED BY <1>1, <1>4, <1>7, <1>8, <1>9, <1>10, BooksOne, Zenon DEF IInv

\* A step that leaves readers and registry alone.
LEMMA BooksStutter ==
  ASSUME Books, reader' = reader, registry' = registry
  PROVE  Books'
<1>1. Face' = Face /\ Inner' = Inner
  BY Zenon DEF Face, Inner
<1>2. Folded' = Folded
  BY <1>1, Zenon DEF Folded
<1>3. \A m, of : SumsOf(m, of) => SumsOf(m, of)'
  BY <1>1, Zenon DEF SumsOf, Total
<1>4. \A r \in Reader : BooksOK(r) => BooksOK(r)'
  BY <1>1, Zenon DEF BooksOK
<1>5. RegistryOK'
  BY <1>2, Zenon DEF Books, RegistryOK
<1>6. EveryTransferFoldedOnce'
  <2>1. \A p : {r \in Folded' : reader'[r].path = p} = {r \in Folded : reader[r].path = p}
    BY <1>2, Zenon
  <2>2. \A of : {Len(reader'[r].bytes) : r \in of} = {Len(reader[r].bytes) : r \in of}
    BY Zenon
  <2> QED BY <1>2, <1>3, <2>1, <2>2, Zenon DEF Books, EveryTransferFoldedOnce
<1> QED BY <1>4, <1>5, <1>6, Zenon DEF Books

\* Every step keeps the counters.
LEMMA BooksNext ==
  ASSUME Laws, IInv, Books, [Next]_localVars
  PROVE  Books'
<1>1. ASSUME NEW t \in Thread, PositionalRead(t)
      PROVE  Books'
  <2>1. read[t].pc # "idle" /\ registry' = registry
    BY <1>1, Zenon DEF PositionalRead
  <2>2. PICK m \in Metric : m = Of(t).metrics.inner
    BY <1>1, InFlight, Zenon DEF PositionalRead
  <2>3. PICK k \in Metric : Counts(t, k) /\ k.assetSize = m.assetSize
    <3>1. AddRequest(m) \in Metric /\ AddRequest(m).assetSize = m.assetSize
      BY CountsTyped, CountsApart, Zenon
    <3>2. CASE Counts(t, AddRequest(Of(t).metrics.inner))
      BY <2>2, <3>1, <3>2, Zenon
    <3>3. ASSUME NEW n \in 1 .. read[t].length - Done(t),
                 Counts(t, AddBytesTransferred(AddRequest(Of(t).metrics.inner), n))
          PROVE  \E k \in Metric : Counts(t, k) /\ k.assetSize = m.assetSize
      <4>1. n \in Nat
        OBVIOUS
      <4>2. PICK k : k = AddBytesTransferred(AddRequest(m), n)
        BY Zenon
      <4>3. k \in Metric /\ k.assetSize = m.assetSize
        BY <3>1, <4>1, <4>2, CountsTyped, CountsApart, Zenon
      <4> QED BY <2>2, <3>3, <4>2, <4>3, Zenon
    <3> QED BY <1>1, <3>2, <3>3, Zenon DEF PositionalRead
  <2> QED BY <2>1, <2>2, <2>3, BooksCounts, Zenon
<1>2. ASSUME NEW t \in Thread, Revalidate(t)
      PROVE  Books'
  <2>1. read[t].pc # "idle" /\ registry' = registry
    BY <1>2, Zenon DEF Revalidate, Returns, Unchanged
  <2>2. PICK m \in Metric : m = Of(t).metrics.inner
    BY <1>2, InFlight, Zenon DEF Revalidate
  <2>3. Counts(t, AddMetadataRequest(m))
    BY <1>2, <2>2, Zenon DEF Revalidate, Returns, Unchanged
  <2>4. AddMetadataRequest(m) \in Metric /\ AddMetadataRequest(m).assetSize = m.assetSize
    BY CountsTyped, CountsApart, Zenon
  <2> QED BY <2>1, <2>2, <2>3, <2>4, BooksCounts, Zenon
<1>3. ASSUME NEW r \in Reader, NEW layer \in Layer, DestroyMetrics(r, layer)
      PROVE  Books'
  BY <1>3, BooksFold, BooksDetached, Zenon
<1>4. ASSUME NEW p \in Path, Write(p)
      PROVE  Books'
  BY <1>4, BooksStutter, Zenon DEF Write
<1>5. ASSUME NEW t \in Thread, Return(t)
      PROVE  Books'
  BY <1>5, BooksStutter, Zenon DEF Return
<1>6. CASE UNCHANGED localVars
  BY <1>6, BooksStutter, Zenon DEF localVars
<1>7. ASSUME NEW r \in Reader,
             \/ \E p \in Path, stack \in {"bare", "cached"} : Open(r, p, stack)
             \/ Close(r)
             \/ \E layer \in Layer : DestroyMetrics(r, layer)
             \/ \E t \in Thread, q \in Request : StartRead(t, r, q)
      PROVE  Books'
  BY <1>3, <1>7, BooksOpen, BooksClose, BooksStart, Zenon
<1> QED BY <1>1, <1>2, <1>4, <1>5, <1>6, <1>7, Zenon DEF Next, Finished

\* No reader is folded at the start.
LEMMA BooksInit ==
  ASSUME Laws, Init
  PROVE  Books
<1>1. \A r \in Reader : reader[r].life = "new"
  BY Zenon DEF Init, NotOpened
<1>2. Folded = {}
  BY <1>1, Zenon DEF Folded
<1>3. registry.aggregate = NoMetrics /\ DOMAIN registry.perAsset = {}
  BY Zenon DEF Init, MetricsInit
<1>4. IsFiniteSet({}) /\ Cardinality({}) = 0 /\ 0 <= MaxTracked
  BY FiniteEmpty, LocalAssumption
<1>5. SumsOf(registry.aggregate, Folded)
  BY <1>2, <1>3, SumsOfNone, Zenon
<1> QED BY <1>1, <1>2, <1>3, <1>4, <1>5, Records, Zenon DEF Books, RegistryOK, EveryTransferFoldedOnce

-------------------------------------------------------------------------------
INSTANCE DataTheorems

\* The laws that the steps above assume.
LEMMA LawsHold == Laws
BY FiniteSetsObey, SumsObey, FS_Subset, LocalAssumption, Zenon DEF Laws

\* It holds at the start, and so always.
LEMMA Invariance == Spec => []IInv
<1>1. Init => IInv
  <2> SUFFICES ASSUME Init
               PROVE  IInv
    BY Zenon
  <2>1. \A r \in Reader : reader[r].life = "new"
    BY Zenon DEF Init, NotOpened
  <2>2. \A t \in Thread : read[t] = NoRead
    BY Zenon DEF Init
  <2> QED BY <2>1, <2>2, TypedInit, Zenon DEF IInv, Captured, ReadsOK, ReadOK
<1>2. IInv /\ [Next]_localVars => IInv'
  BY LawsHold, IInvNext, Zenon
<1> QED BY <1>1, <1>2, PTL DEF Spec

\* Readers of local files keep the contract of AssetReader for any files,
\* writers, readers and threads: a read hands out bytes the file had at open or
\* reports the change, whatever is written between which two reads of the
\* descriptor (LocalAssetReader::Read).
THEOREM LocalReadsKeepTheContract == Spec => ImplementsContract
<1> DEFINE call == [t \in Thread |-> CallOf(t)]
<1>1. Init => Contract!Init
  <2>1. Init => \A t \in Thread : CallOf(t) = NoCall
    BY CallShape DEF Init, NoRead
  <2> QED BY <2>1, Zenon DEF Contract!Init, Contract!Idle, NoCall
<1>2. IInv /\ [Next]_localVars => [Contract!Next]_call
  <2> SUFFICES ASSUME IInv, [Next]_localVars
               PROVE  [Contract!Next]_call
    BY Zenon
  <2>1. CASE \A u \in Thread : CallOf(u)' = CallOf(u)
    BY <2>1, Zenon
  <2>2. ASSUME NEW t \in Thread, Steps(t), \A u \in Thread : u # t => CallOf(u)' = CallOf(u)
        PROVE  Contract!Next
    <3>1. call[t].pc # call'[t].pc /\ Contract!Step(call[t], call'[t])
      BY <2>2, Zenon DEF Steps
    <3>2. call' = [call EXCEPT ![t] = call'[t]]
      BY <2>2, Zenon
    <3> QED BY <3>1, <3>2, Zenon DEF Contract!Next
  <2> QED BY <2>1, <2>2, CallSteps, Zenon
<1> QED BY <1>1, <1>2, Invariance, PTL DEF Spec, ImplementsContract, Contract!Spec

\* Whatever readers are opened, read, closed and destroyed in whatever order,
\* the aggregate and every entry of the per-asset table count each transfer of
\* the destroyed readers once (AbsorbTransport, DetachFromRegistry, Fold).
THEOREM TransfersFoldedOnce == Spec => []EveryTransferFoldedOnce
<1>1. Books /\ IInv /\ IInv' /\ [Next]_localVars => Books'
  BY LawsHold, BooksNext, Zenon
<1>2. Books => EveryTransferFoldedOnce
  BY Zenon DEF Books
<1>3. Init => Books
  BY LawsHold, BooksInit, Zenon
<1> QED BY <1>1, <1>2, <1>3, Invariance, PTL DEF Spec
===============================================================================

--------------------------- MODULE LocalAssetReader ---------------------------
(***************************************************************************)
(* Readers of local files that other processes write to                    *)
(* (libs/usd-asset-local/src/LocalAssetReader.cpp, PlatformFile.cpp), bare *)
(* or decorated by a cached reader, and the fold of their counters when    *)
(* they are destroyed.                                                     *)
(*                                                                         *)
(* A write moves the file's modification time; a byte is the time it was   *)
(* last written.  A decorated reader is followed on the path that goes     *)
(* straight through to the reader inside it.                               *)
(***************************************************************************)
EXTENDS RangeMath, Sequences, Metrics

CONSTANTS
  Thread,
  Reader,        \* each is opened at most once
  NoReader,
  Path,
  Request,       \* the <<offset, size>> pairs threads ask for
  MaxOffset,     \* the largest value of an offset
  FirstSize,     \* the size of a file before anybody writes to it
  MaxSize,       \* the size no write goes beyond
  MaxTicks,      \* how many writes there are
  MaxReads       \* how many reads there are of each reader

ASSUME LocalAssumption ==
  /\ Request \subseteq Nat \X Nat
  /\ {MaxOffset, FirstSize, MaxSize, MaxTicks, MaxReads, MaxTracked} \subseteq Nat
  /\ FirstSize <= MaxSize
  /\ NoReader \notin Reader
  /\ IsFiniteSet(Reader)

VARIABLES
  file,     \* path -> its modification time and its bytes
  reader,   \* handle -> its life, what the open captured, and its counters
  read      \* thread -> the Read it is in

localVars == <<registry, file, reader, read>>

\* The two readers of a stack.
Layer == {"inner", "outer"}

NotOpened ==
  [life |-> "new", stack |-> "bare", path |-> CHOOSE p \in Path : TRUE, reads |-> 0,
   modifiedTicks |-> 0, bytes |-> <<>>, layers |-> {}, metrics |-> [l \in Layer |-> NoMetrics]]

NoRead == [pc |-> "idle", reader |-> NoReader, offset |-> 0, length |-> 0,
           dst |-> <<>>, transport |-> "Ok", status |-> "none", bytesRead |-> 0]

Init ==
  /\ MetricsInit
  /\ file = [p \in Path |-> [modifiedTicks |-> 0, bytes |-> [i \in 1 .. FirstSize |-> 0]]]
  /\ reader = [r \in Reader |-> NotOpened]
  /\ read = [t \in Thread |-> NoRead]

------------------------------------------------------------------------------
(***************************************************************************)
(* Another process: it writes a byte in place, truncates, or appends.      *)
(***************************************************************************)
Write(p) ==
  LET now == 1 + Max({file[other].modifiedTicks : other \in Path})
      was == file[p].bytes
  IN  /\ now <= MaxTicks
      /\ \E bytes \in {[was EXCEPT ![i] = now] : i \in DOMAIN was}
                        \cup (IF was # <<>> THEN {SubSeq(was, 1, Len(was) - 1)} ELSE {})
                        \cup (IF Len(was) < MaxSize THEN {Append(was, now)} ELSE {}) :
           file' = [file EXCEPT ![p] = [modifiedTicks |-> now, bytes |-> bytes]]
      /\ UNCHANGED <<registry, reader, read>>

------------------------------------------------------------------------------
\* The file is opened and its identity captured; a cached reader takes it over
\* and detaches its counters.  A failed open leaves nothing behind.
Open(r, p, stack) ==
  /\ reader[r].life = "new"
  /\ LET size == Len(file[p].bytes)
         sized == [NoMetrics EXCEPT !.assetSize = size]
     IN  reader' = [reader EXCEPT
           ![r] = [NotOpened EXCEPT
                     !.life = "open", !.stack = stack, !.path = p,
                     !.modifiedTicks = file[p].modifiedTicks, !.bytes = file[p].bytes,
                     !.layers = IF stack = "bare" THEN {"inner"} ELSE Layer,
                     !.metrics = [inner |-> AddMetadataRequest(sized), outer |-> sized]]]
  /\ UNCHANGED <<registry, file, read>>

\* The stack is destroyed with no read in it: a cached reader absorbs what the
\* reader inside it counted, ...
Close(r) ==
  /\ reader[r].life = "open"
  /\ \A t \in Thread : read[t].reader # r
  /\ LET m == reader[r].metrics
     IN  reader' = [reader EXCEPT
           ![r].life = "closing",
           ![r].metrics.outer =
             IF reader[r].stack = "cached" THEN AbsorbTransport(m.outer, m.inner) ELSE @]
  /\ UNCHANGED <<registry, file, read>>

\* Mutant: the counters inside a stack are folded on their own.
IsDetached_Never(r, layer) == FALSE

\* DetachFromRegistry, by the cached reader that decorates this one.
IsDetached(r, layer) == layer = "inner" /\ reader[r].stack = "cached"

\* ... and then the counters go, those of the cached reader first.
DestroyMetrics(r, layer) ==
  /\ reader[r].life = "closing"
  /\ layer \in reader[r].layers
  /\ layer = "inner" => "outer" \notin reader[r].layers
  /\ reader' = [reader EXCEPT ![r].layers = @ \ {layer},
                              ![r].life = IF layer = "inner" THEN "closed" ELSE @]
  /\ IF IsDetached(r, layer) THEN UNCHANGED registry
                             ELSE Fold(reader[r].metrics[layer], reader[r].path)
  /\ UNCHANGED <<file, read>>

------------------------------------------------------------------------------
(***************************************************************************)
(* Read.                                                                   *)
(***************************************************************************)
Of(t)   == reader[read[t].reader]
Done(t) == Len(read[t].dst)

Goes(t, updated) == read' = [read EXCEPT ![t] = updated]

\* What t's reader, the one at the bottom of its stack, counts.
Counts(t, m) == reader' = [reader EXCEPT ![read[t].reader].metrics.inner = m]

\* A range that overflows or is empty returns at once, whatever became of the
\* file; any other is copied.
StartRead(t, r, q) ==
  LET range == ResolveReadRange(q[1], q[2], Len(reader[r].bytes), MaxOffset)
      call  == [NoRead EXCEPT !.reader = r, !.offset = range.offset, !.length = range.length]
  IN  /\ read[t].pc = "idle"
      /\ reader[r].life = "open"
      /\ reader[r].reads < MaxReads
      /\ Goes(t, IF range.outcome = "Transfer"
                 THEN [call EXCEPT !.pc = "copy"]
                 ELSE [call EXCEPT !.pc = "returned",
                                   !.status = IF range.outcome = "Empty" THEN "Ok"
                                              ELSE "InvalidArgument"])
      /\ reader' = [reader EXCEPT
           ![r].reads = @ + 1,
           ![r].metrics = [l \in Layer |-> IF l \in reader[r].layers
                                           THEN AddBytesRequested(@[l], q[2]) ELSE @[l]]]
      /\ UNCHANGED <<registry, file>>

\* pread delivers some of what is left, as far as the file goes by now; nothing
\* at the end of the file or in an error, which ends the loop.
PositionalRead(t) ==
  LET me    == read[t]
      bytes == file[Of(t).path].bytes
      first == me.offset + Done(t)
  IN  /\ me.pc = "copy"
      /\ \/ \E n \in 1 .. me.length - Done(t) :
              /\ first + n <= Len(bytes)
              /\ Goes(t, [me EXCEPT !.dst = @ \o SubSeq(bytes, first + 1, first + n),
                                    !.pc = IF Done(t) + n = me.length THEN "check" ELSE @])
              /\ Counts(t, AddBytesTransferred(AddRequest(Of(t).metrics.inner), n))
         \/ /\ \/ Len(bytes) <= first /\ Goes(t, [me EXCEPT !.pc = "check"])
               \/ Goes(t, [me EXCEPT !.pc = "check", !.transport = "NetworkError"])
            /\ Counts(t, AddRequest(Of(t).metrics.inner))
      /\ UNCHANGED <<registry, file>>

Returns(t, status, bytes) ==
  /\ Goes(t, [read[t] EXCEPT !.pc = "returned", !.status = status, !.bytesRead = bytes])
  /\ Counts(t, AddMetadataRequest(Of(t).metrics.inner))
  /\ UNCHANGED <<registry, file>>

\* The end of Read, when the file is not known to have changed.
Unchanged(t) ==
  Returns(t, IF read[t].transport # "Ok" THEN read[t].transport
             ELSE IF Done(t) < read[t].length THEN "InvalidResponse" ELSE "Ok", Done(t))

\* Mutant: a read that has all its bytes needs no second look.
IdentityMoved_OnlyShort(t) ==
  /\ Done(t) < read[t].length
  /\ file[Of(t).path].modifiedTicks # Of(t).modifiedTicks

\* The identity also has the size, which no write moves alone.
IdentityMoved(t) == file[Of(t).path].modifiedTicks # Of(t).modifiedTicks

\* The revision check comes after the copy, and before anything else is said.
Revalidate(t) ==
  /\ read[t].pc = "check"
  /\ IF IdentityMoved(t) THEN Returns(t, "AssetChanged", 0) ELSE Unchanged(t)

\* The second Stat fails: the read goes on as if it had found no change.
StatFails(t) == read[t].pc = "check" /\ Unchanged(t)

Return(t) ==
  /\ read[t].pc = "returned"
  /\ Goes(t, NoRead)
  /\ UNCHANGED <<registry, file, reader>>

------------------------------------------------------------------------------
\* Every reader has been opened and destroyed; the process may stop here.
Finished == (\A r \in Reader : reader[r].life = "closed") /\ UNCHANGED localVars

Next ==
  \/ \E p \in Path : Write(p)
  \/ \E r \in Reader :
       \/ \E p \in Path, stack \in {"bare", "cached"} : Open(r, p, stack)
       \/ Close(r)
       \/ \E layer \in Layer : DestroyMetrics(r, layer)
       \/ \E t \in Thread, q \in Request : StartRead(t, r, q)
  \/ \E t \in Thread : PositionalRead(t) \/ Revalidate(t) \/ Return(t)
  \/ Finished

Spec == Init /\ [][Next]_localVars

\* The same readers on a file system whose fstat may fail on an open file.
FaultySpec == Init /\ [][Next \/ \E t \in Thread : StatFails(t)]_localVars

------------------------------------------------------------------------------
\* A read that transfers something, as the contract of AssetReader sees it.  The
\* revision is the bytes as they were at open; a byte that is not as it was then
\* is of no revision.
CallOf(t) ==
  LET me   == read[t]
      over == me.pc = "returned"
      rev  == Of(t).modifiedTicks
  IN  IF me.pc = "idle" \/ me.length = 0
      THEN [pc |-> "idle", rev |-> -1, asked |-> <<0, 0>>, status |-> "none", given |-> {}]
      ELSE [pc     |-> IF over THEN "returned" ELSE "reading",
            rev    |-> rev,
            asked  |-> <<me.offset, me.length>>,
            status |-> IF ~over THEN "none"
                       ELSE IF me.status \in {"Ok", "AssetChanged"} THEN me.status ELSE "Failed",
            given  |-> IF over
                       THEN {<<x, IF me.dst[x - me.offset + 1] = Of(t).bytes[x + 1] THEN rev ELSE -1>> :
                               x \in me.offset .. me.offset + me.bytesRead - 1}
                       ELSE {}]

Contract == INSTANCE AssetReaderContract
              WITH Caller <- Thread, Rev <- 0 .. MaxTicks, NoRev <- -1, Byte <- 0 .. MaxSize,
                   call <- [t \in Thread |-> CallOf(t)]

\* Whatever is written to the file while a reader has it open, and between
\* which two reads of the descriptor, a read hands out the bytes the file had
\* at open or reports the change: the identity is compared after the copy.
ImplementsContract == Contract!Spec

\* The layer whose counters are folded, by reader, and the one that transfers.
Face  == [r \in Reader |-> IF reader[r].stack = "cached" THEN "outer" ELSE "inner"]
Inner == [r \in Reader |-> "inner"]

Folded == {r \in Reader : reader[r].life \in {"closing", "closed"}
                            /\ Face[r] \notin reader[r].layers}

Total(field, of, layer) ==
  SumFunctionOnSet([r \in Reader |-> reader[r].metrics[layer[r]][field]], of)

SumsOf(m, of) ==
  /\ m.bytesRequested = Total("bytesRequested", of, Face)
  /\ \A f \in {"bytesTransferred", "requestCount", "metadataRequestCount"} :
       m[f] = Total(f, of, Inner)

\* Everything a reader's transport did, and everything its caller asked for, is
\* in the aggregate once from when the reader is destroyed, whether it stood
\* alone or inside a cached reader (DetachFromRegistry, AbsorbTransport, Fold).
\* The per-asset table is bounded, and an entry of it is never partial: it has
\* all the readers of its asset, and the asset's size, not the sum of sizes.
EveryTransferFoldedOnce ==
  /\ SumsOf(registry.aggregate, Folded)
  /\ Cardinality(DOMAIN registry.perAsset) <= MaxTracked
  /\ \A p \in DOMAIN registry.perAsset :
       LET of == {r \in Folded : reader[r].path = p}
       IN  /\ SumsOf(registry.perAsset[p], of)
           /\ registry.perAsset[p].assetSize = Max({Len(reader[r].bytes) : r \in of})
================================================================================

-------------------------- MODULE CachedStoreProofs --------------------------
(***************************************************************************)
(* Single flight, for any number of threads, readers, blocks and stripes:  *)
(* a block is pending exactly while one thread inside its read owns it.    *)
(*                                                                         *)
(* Ownership alone is not inductive.  ~Binding erases every entry of a     *)
(* private identity, pending ones included, and ConfigureProcess erases    *)
(* all; that neither takes a block from under a thread needs that private  *)
(* numbers are never shared, and that liveBindings counts the readers that *)
(* are open or closing.                                                    *)
(*                                                                         *)
(* On it rest what becomes of an entry, that the blocks of a private       *)
(* number are gone with its reader (Purged), and that readers under one    *)
(* number are of one revision (Shares).  Last come the stripes: the bytes  *)
(* each is charged with are those of its resident blocks, more than its    *)
(* share only with a single one.  That an eviction which passes over the   *)
(* newest block still gets below the share needs that the LRU order of a   *)
(* stripe is total and transitive.  The theorems are stated in             *)
(* CachedAssetReaderProofs, where the laws of DataLaws are discharged.     *)
(***************************************************************************)
EXTENDS CachedAssetReader, DataLaws, TLAPS

StoreTypeOK ==
  /\ entries \in [Key -> Entry]
  /\ ahead \in [Key -> SUBSET Key]
  /\ waiters \in [Shard -> SUBSET Thread]

\* A read in progress is on an open reader.  Where no AbandonAll follows nothing
\* is owned, and what is to be looked up on disk is owned.
Quiet == {"idle", "bypass", "return", "fallback"}
OwnsOK(s) ==
  /\ s.pc \in Quiet => s.owned = {}
  /\ s.pc = "load" => s.todo \subseteq s.owned
ReadOK(s) ==
  /\ s.pc # "idle" => s.reader \in Reader /\ reader[s.reader].life = "open"
  /\ OwnsOK(s)
ReadsOK == \A t \in Thread : ReadOK(read[t])

\* Numbers are handed out once, and a private one has one reader.
Bound(r) == reader[r].life # "new"
Numbered ==
  /\ \A r \in Reader : Bound(r) => reader[r].id \in Id /\ reader[r].id < nextIdentityId
  /\ \A i \in Ident : identities[i] < nextIdentityId
PrivateIsAlone ==
  \A r \in Reader : Bound(r) /\ ~IsShareable(reader[r].asset.validator) =>
    /\ \A q \in Reader : q # r /\ Bound(q) => reader[q].id # reader[r].id
    /\ \A i \in Ident : identities[i] # reader[r].id
PurgesPrivate == \A r \in Reader : reader[r].purge # {} => ~IsShareable(reader[r].asset.validator)

\* liveBindings counts the bindings that may still touch the store.
Live == {r \in Reader : reader[r].life \in {"open", "closing"}}
BindingsCounted == liveBindings = Cardinality(Live)

\* A block is pending exactly while a thread owns it.
OwnedIsPending == \A t \in Thread : \A k \in OwnedKeys(t) : k \in Key /\ entries[k].state = "pending"
Ownership == OwnedIsPending /\ PendingHasOwner /\ SingleOwner

IdentitiesOK == Numbered /\ PrivateIsAlone /\ PurgesPrivate /\ BindingsCounted

IInv == TypeOK /\ ReadsOK /\ IdentitiesOK /\ Ownership

------------------------------------------------------------------------------
\* Finite sets, under the laws of DataLaws.

LEMMA FiniteEmpty ==
  ASSUME FiniteLaws
  PROVE  /\ IsFiniteSet({}) /\ Cardinality({}) = 0
         /\ \A S : IsFiniteSet(S) => Cardinality(S) \in Nat /\ (Cardinality(S) = 0 <=> S = {})
BY Zenon DEF FiniteLaws, EmptyLaw

LEMMA FiniteSubset ==
  ASSUME FiniteLaws, NEW S, IsFiniteSet(S), NEW T \in SUBSET S
  PROVE  IsFiniteSet(T) /\ Cardinality(T) <= Cardinality(S)
BY Zenon DEF FiniteLaws, SubsetLaw

LEMMA FiniteAdd ==
  ASSUME FiniteLaws, NEW S, NEW x, IsFiniteSet(S)
  PROVE  /\ IsFiniteSet(S \cup {x})
         /\ Cardinality(S \cup {x}) = IF x \in S THEN Cardinality(S) ELSE Cardinality(S) + 1
BY Zenon DEF FiniteLaws, AddLaw

LEMMA FiniteRemove ==
  ASSUME FiniteLaws, NEW S, NEW x, IsFiniteSet(S)
  PROVE  /\ IsFiniteSet(S \ {x})
         /\ Cardinality(S \ {x}) = IF x \in S THEN Cardinality(S) - 1 ELSE Cardinality(S)
BY Zenon DEF FiniteLaws, RemoveLaw

------------------------------------------------------------------------------
\* What the store's critical sections do to the entries.

\* Acquire makes an absent entry pending and touches no other.
LEMMA AcquireOwnedEffect ==
  ASSUME NEW k \in Key, StoreTypeOK, AcquireOwned(k)
  PROVE  /\ StoreTypeOK'
         /\ entries[k].state = "absent"
         /\ entries'[k].state = "pending"
         /\ \A j \in Key \ {k} : entries'[j] = entries[j]
  BY Zenon DEF StoreTypeOK, AcquireOwned, Pending, Entry

\* A touch moves a block in the LRU list and leaves every entry alone.
LEMMA TouchEffect ==
  ASSUME NEW k \in Key, StoreTypeOK, TouchLocked(k), UNCHANGED <<entries, waiters>>
  PROVE  StoreTypeOK'
  BY Zenon DEF StoreTypeOK, TouchLocked, InFront

\* Publish leaves its entry not pending, and evicts only resident ones.
LEMMA PublishEffect ==
  ASSUME NEW k \in Key, NEW len \in Nat, NEW rev \in Rev \cup {NoRev},
         StoreTypeOK, Publish(k, len, rev)
  PROVE  /\ StoreTypeOK'
         /\ entries'[k].state # "pending"
         /\ \A j \in Key \ {k} : entries'[j].state = "pending" <=> entries[j].state = "pending"
<1>1. CASE PublishIgnored(k)
  BY ZenonT(30), <1>1 DEF PublishIgnored, StoreTypeOK, NotifyAll
<1>2. CASE PublishFills(k, len, rev)
  <2> DEFINE s      == ShardFor(k)
             filled == [entries EXCEPT ![k] = Resident(len, rev)]
             lru    == InLru(s) \cup {k}
             order  == InFront(ahead, InLru(s), k)
  <2>1. PICK victims \in SUBSET lru :
          entries' = Erased(filled, victims) /\ ahead' = Without(order, victims)
    BY ZenonT(30), <1>2 DEF PublishFills, EvictLocked
  <2>2. filled \in [Key -> Entry] /\ Absent \in Entry
    BY Zenon DEF StoreTypeOK, Resident, Entry, Absent
  <2>3. order \in [Key -> SUBSET Key]
    BY Zenon DEF StoreTypeOK, InFront
  <2>4. StoreTypeOK'
    BY <1>2, <2>1, <2>2, <2>3, CacheAssumption
       DEF StoreTypeOK, Erased, Without, PublishFills, NotifyAll
  <2>5. entries'[k].state # "pending"
    BY <2>1, <2>2, Zenon DEF Erased, Absent, Resident, StoreTypeOK
  <2>6. ASSUME NEW j \in Key \ {k}
        PROVE  entries'[j].state = "pending" <=> entries[j].state = "pending"
    BY <2>1, <2>2, Zenon DEF Erased, Absent, InLru, StoreTypeOK
  <2> QED BY <2>4, <2>5, <2>6, Zenon
<1> QED BY <1>1, <1>2, Zenon DEF Publish

\* Abandon leaves its entry not pending and touches no other.
LEMMA AbandonEffect ==
  ASSUME NEW k \in Key, StoreTypeOK, Abandon(k)
  PROVE  /\ StoreTypeOK'
         /\ entries'[k].state # "pending"
         /\ \A j \in Key \ {k} : entries'[j] = entries[j]
  BY ZenonT(30) DEF StoreTypeOK, Abandon, NotifyAll, Absent, Entry

\* ~Binding erases the entries of its own identity and no other.
LEMMA PurgeEffect ==
  ASSUME NEW id \in Id, NEW s \in Shard, StoreTypeOK, PurgeShard(id, s)
  PROVE  /\ StoreTypeOK'
         /\ \A j \in Key : \/ entries'[j] = entries[j]
                           \/ j[1] = id /\ entries'[j].state = "absent"
  BY Zenon DEF StoreTypeOK, PurgeShard, NotifyAll, Erased, Without, Absent, Entry

------------------------------------------------------------------------------
\* What a step of one thread preserves, by what it does to the blocks it owns.

\* A thread in a read works on an open reader and under a number in use.
LEMMA ReadingThread ==
  ASSUME IInv, NEW t \in Thread, read[t].pc # "idle"
  PROVE  /\ read[t].reader \in Reader
         /\ reader[read[t].reader].life = "open"
         /\ AssetOf(t) \in AssetType
         /\ \A b \in Block : KeyOf(t, b) \in Key
  BY ReaderAssumption, Zenon DEF IInv, TypeOK, ReadsOK, ReadOK, IdentitiesOK, Numbered, Bound,
                          ReaderState, KeyOf, AssetOf, Key

\* The bookkeeping of readers and identities is not a thread's to disturb.
LEMMA ThreadStep ==
  ASSUME IInv, NEW t \in Thread, NEW s \in ReadState, Becomes(t, s),
         UNCHANGED <<identityVars, reader>>, StoreTypeOK', ReadOK(s), Ownership'
  PROVE  IInv'
<1>1. TypeOK'
  BY Zenon DEF IInv, TypeOK, CacheTypeOK, StoreTypeOK, Becomes, identityVars
<1>2. ReadsOK'
  BY Zenon DEF IInv, TypeOK, ReadsOK, ReadOK, OwnsOK, Becomes
<1>3. IdentitiesOK'
  BY Zenon DEF IInv, IdentitiesOK, Numbered, PrivateIsAlone, PurgesPrivate, Bound, BindingsCounted,
         Live, identityVars
<1> QED BY <1>1, <1>2, <1>3, Zenon DEF IInv

\* Whose keys a step of t changes: its own.
LEMMA KeysAfter ==
  ASSUME IInv, NEW t \in Thread, NEW s \in ReadState, Becomes(t, s), UNCHANGED reader,
         s.reader = read[t].reader
  PROVE  /\ \A u \in Thread \ {t} : OwnedKeys(u)' = OwnedKeys(u)
         /\ OwnedKeys(t)' = {KeyOf(t, b) : b \in s.owned}
  BY Zenon DEF IInv, TypeOK, Becomes, OwnedKeys, KeyOf

\* No thread's blocks change number while its reader stays open.
LEMMA KeysKept ==
  ASSUME IInv, UNCHANGED read,
         \A q \in Reader : reader[q].life = "open" => reader'[q].id = reader[q].id
  PROVE  \A u \in Thread : OwnedKeys(u)' = OwnedKeys(u)
<1> TAKE u \in Thread
<1>1. CASE read[u].pc = "idle"
  BY <1>1, Zenon DEF IInv, ReadsOK, ReadOK, OwnsOK, Quiet, OwnedKeys
<1>2. CASE read[u].pc # "idle"
  BY <1>2, ReadingThread, Zenon DEF OwnedKeys, KeyOf
<1> QED BY <1>1, <1>2, Zenon

\* Ownership is as before once no entry and no thread's blocks have changed.
LEMMA OwnershipKept ==
  ASSUME IInv, UNCHANGED entries, \A u \in Thread : OwnedKeys(u)' = OwnedKeys(u)
  PROVE  Ownership'
<1>1. OwnedIsPending'
  BY Zenon DEF IInv, Ownership, OwnedIsPending
<1>2. PendingHasOwner'
  BY Zenon DEF IInv, Ownership, PendingHasOwner
<1>3. SingleOwner'
  BY Zenon DEF IInv, Ownership, SingleOwner
<1> QED BY <1>1, <1>2, <1>3, Zenon DEF Ownership

\* A step that neither acquires nor settles a block.
LEMMA KeepsBlocks ==
  ASSUME IInv, NEW t \in Thread, NEW s \in ReadState, Becomes(t, s),
         UNCHANGED <<identityVars, reader>>, StoreTypeOK',
         read[t].pc # "idle", s.reader = read[t].reader, s.owned = read[t].owned,
         OwnsOK(s),
         \A k \in Key : entries'[k].state = "pending" <=> entries[k].state = "pending"
  PROVE  IInv'
<1>1. ReadOK(s)
  BY ReadingThread, Zenon DEF ReadOK
<1>2. \A u \in Thread : OwnedKeys(u)' = OwnedKeys(u)
  BY KeysAfter DEF OwnedKeys
<1>3. Ownership'
  BY <1>2 DEF IInv, Ownership, OwnedIsPending, PendingHasOwner, SingleOwner
<1> QED BY <1>1, <1>3, ThreadStep, Zenon

\* A step that acquires block b: nobody owned it, for it was not pending.
LEMMA TakesBlock ==
  ASSUME IInv, NEW t \in Thread, NEW b \in Block, NEW s \in ReadState, Becomes(t, s),
         UNCHANGED <<identityVars, reader>>, AcquireOwned(KeyOf(t, b)),
         read[t].pc # "idle", s.reader = read[t].reader, s.owned = read[t].owned \cup {b},
         OwnsOK(s)
  PROVE  IInv'
<1> DEFINE k == KeyOf(t, b)
<1>1. ReadOK(s)
  BY ReadingThread, Zenon DEF ReadOK
<1>2. k \in Key /\ StoreTypeOK
  BY ReadingThread, Zenon DEF IInv, TypeOK, CacheTypeOK, StoreTypeOK
<1>3. /\ StoreTypeOK'
      /\ entries[k].state = "absent"
      /\ entries'[k].state = "pending"
      /\ \A j \in Key \ {k} : entries'[j] = entries[j]
  BY <1>2, AcquireOwnedEffect, Zenon
<1>4. /\ \A u \in Thread \ {t} : OwnedKeys(u)' = OwnedKeys(u)
      /\ OwnedKeys(t)' = OwnedKeys(t) \cup {k}
  BY KeysAfter DEF OwnedKeys, KeyOf
<1>5. \A u \in Thread : k \notin OwnedKeys(u)
  BY <1>3, Zenon DEF IInv, Ownership, OwnedIsPending
<1>6. OwnedIsPending'
  BY <1>2, <1>3, <1>4 DEF IInv, Ownership, OwnedIsPending
<1>7. PendingHasOwner'
  BY <1>3, <1>4, Zenon DEF IInv, Ownership, PendingHasOwner
<1>8. SingleOwner'
  BY <1>4, <1>5 DEF IInv, Ownership, SingleOwner
<1> QED BY <1>1, <1>3, <1>6, <1>7, <1>8, ThreadStep, Zenon DEF Ownership

\* A step that settles block b, which t alone owned.
LEMMA SettlesBlock ==
  ASSUME IInv, NEW t \in Thread, NEW b \in read[t].owned, NEW s \in ReadState, Becomes(t, s),
         UNCHANGED <<identityVars, reader>>, StoreTypeOK',
         read[t].pc # "idle", s.reader = read[t].reader, s.owned = read[t].owned \ {b},
         OwnsOK(s),
         entries'[KeyOf(t, b)].state # "pending",
         \A j \in Key \ {KeyOf(t, b)} :
           entries'[j].state = "pending" <=> entries[j].state = "pending"
  PROVE  IInv'
<1> DEFINE k == KeyOf(t, b)
<1>1. ReadOK(s)
  BY ReadingThread, Zenon DEF ReadOK
<1>2. /\ \A u \in Thread \ {t} : OwnedKeys(u)' = OwnedKeys(u)
      /\ OwnedKeys(t)' = OwnedKeys(t) \ {k}
      /\ k \in OwnedKeys(t)
  BY KeysAfter DEF OwnedKeys, KeyOf
<1>3. OwnedIsPending'
  BY <1>2 DEF IInv, Ownership, OwnedIsPending, SingleOwner
<1>4. PendingHasOwner'
  BY <1>2, Zenon DEF IInv, Ownership, PendingHasOwner
<1>5. SingleOwner'
  BY <1>2 DEF IInv, Ownership, SingleOwner
<1> QED BY <1>1, <1>3, <1>4, <1>5, ThreadStep, Zenon DEF Ownership

------------------------------------------------------------------------------
\* The types of what a step writes.

LEMMA ExtentType ==
  ASSUME IInv, NEW t \in Thread, read[t].pc # "idle", NEW b \in Block
  PROVE  Extent(t, b).length \in Nat
<1> DEFINE size == AssetOf(t).size
           start == b * BlockSize
<1>1. size \in Nat
  BY ReadingThread, Zenon DEF AssetType
<1>2. b \in Nat /\ BlockSize \in Nat
  BY CacheAssumption, ReaderAssumption, Zenon
<1>3. start \in Nat
  BY <1>2, SMT
<1>4. Extent(t, b).length = IF start >= size THEN 0
                           ELSE IF size - start < BlockSize THEN size - start ELSE BlockSize
  BY Zenon DEF Extent, ExtentOf
<1> HIDE DEF size, start
<1> QED BY <1>1, <1>2, <1>3, <1>4

LEMMA RevisionType ==
  ASSUME IInv, NEW t \in Thread, read[t].pc # "idle"
  PROVE  AssetOf(t).rev \in Rev
  BY ReadingThread, Zenon DEF AssetType

\* A copy to the caller's buffer changes the buffer and what is resolved.
LEMMA CopiedType ==
  ASSUME IInv, NEW t \in Thread, NEW b \in Block, NEW rev \in Rev \cup {NoRev}
  PROVE  /\ Copied(t, b, rev) \in ReadState
         /\ Copied(t, b, rev).pc = read[t].pc
         /\ Copied(t, b, rev).reader = read[t].reader
         /\ Copied(t, b, rev).owned = read[t].owned
         /\ Copied(t, b, rev).todo = read[t].todo
<1> DEFINE d == [x \in Byte |-> IF x \in CopyOverlap(t, b) THEN rev ELSE read[t].dst[x]]
<1>1. read[t] \in ReadState
  BY Zenon DEF IInv, TypeOK
<1>2. d \in [Byte -> Rev \cup {NoRev}]
  BY <1>1, Zenon DEF ReadState
<1>3. Copied(t, b, rev) = [read[t] EXCEPT !.dst = d, !.resolved = @ \cup {b}]
  BY Zenon DEF Copied
<1> HIDE DEF d
<1>4. [read[t] EXCEPT !.dst = d, !.resolved = @ \cup {b}] \in ReadState
  BY ZenonT(30), <1>1, <1>2 DEF ReadState
<1>5. /\ Copied(t, b, rev).pc = read[t].pc
      /\ Copied(t, b, rev).reader = read[t].reader
      /\ Copied(t, b, rev).owned = read[t].owned
      /\ Copied(t, b, rev).todo = read[t].todo
  BY <1>1, <1>3, Zenon DEF ReadState
<1> QED BY <1>3, <1>4, <1>5, Zenon

\* The ways out of a read go through AbandonAll and leave the blocks to it.
LEMMA AbandonThenType ==
  ASSUME IInv, NEW t \in Thread, NEW next \in {"pass", "mismatch", "return"}
  PROVE  /\ AbandonThen(t, next) \in ReadState
         /\ AbandonThen(t, next).pc = "abandon"
         /\ AbandonThen(t, next).reader = read[t].reader
         /\ AbandonThen(t, next).owned = read[t].owned
<1>1. read[t] \in ReadState
  BY Zenon DEF IInv, TypeOK
<1> QED BY ZenonT(30), <1>1 DEF AbandonThen, ReadState, PC

LEMMA LeaveType ==
  ASSUME IInv, NEW t \in Thread, NEW how \in {"error", "threw"}
  PROVE  /\ Leave(t, how) \in ReadState
         /\ Leave(t, how).pc = "abandon"
         /\ Leave(t, how).reader = read[t].reader
         /\ Leave(t, how).owned = read[t].owned
  BY AbandonThenType DEF Leave, ReadState

LEMMA ReadType ==
  ASSUME IInv, NEW t \in Thread
  PROVE  read[t] \in ReadState /\ read[t].owned \subseteq Block /\ read[t].todo \subseteq Block
  BY Zenon DEF IInv, TypeOK, ReadState

LEMMA NoReadType == NoRead \in ReadState /\ NoRead.owned = {} /\ NoRead.pc = "idle"
<1>1. [x \in Byte |-> NoRev] \in [Byte -> Rev \cup {NoRev}] /\ 1 \in 1 .. Passes
  BY ReaderAssumption
<1> QED BY <1>1, Zenon DEF NoRead, ReadState, PC

LEMMA StoreType == IInv => StoreTypeOK
  BY Zenon DEF IInv, TypeOK, CacheTypeOK, StoreTypeOK

\* The two ends of a read, where a thread owns nothing before and after.
LEMMA OwnsNothing ==
  ASSUME IInv, NEW t \in Thread, NEW s \in ReadState, Becomes(t, s),
         UNCHANGED <<cacheVars, identityVars, reader>>, read[t].owned = {}, s.owned = {}, ReadOK(s)
  PROVE  IInv'
<1>1. StoreTypeOK'
  BY StoreType, Zenon DEF StoreTypeOK, cacheVars
<1>2. \A u \in Thread : OwnedKeys(u)' = OwnedKeys(u)
  BY Zenon DEF IInv, TypeOK, Becomes, OwnedKeys, KeyOf
<1>3. Ownership'
  BY <1>2 DEF IInv, Ownership, OwnedIsPending, PendingHasOwner, SingleOwner, cacheVars
<1> QED BY <1>1, <1>3, ThreadStep, Zenon

\* A step that leaves the store alone.
LEMMA KeepsStore ==
  ASSUME IInv, NEW t \in Thread, NEW s \in ReadState, Becomes(t, s),
         UNCHANGED <<cacheVars, identityVars, reader>>,
         read[t].pc # "idle", s.reader = read[t].reader, s.owned = read[t].owned,
         OwnsOK(s)
  PROVE  IInv'
<1>1. StoreTypeOK'
  BY StoreType, Zenon DEF StoreTypeOK, cacheVars
<1>2. entries' = entries
  BY Zenon DEF cacheVars
<1> QED BY <1>1, <1>2, KeepsBlocks, Zenon DEF cacheVars

------------------------------------------------------------------------------
\* The steps of a read, one lemma each.

LEMMA StartReadInv ==
  ASSUME IInv, NEW t \in Thread, StartRead(t)
  PROVE  IInv'
<1>1. PICK r \in Reader, q \in Request :
        LET range == ResolveReadRange(q[1], q[2], reader[r].asset.size, MaxOffset)
            call  == [NoRead EXCEPT !.reader = r, !.offset = range.offset, !.length = range.length]
        IN  /\ reader[r].life = "open"
            /\ range.outcome = "Transfer"
            /\ \/ Becomes(t, [call EXCEPT !.pc = "bypass"])
               \/ Becomes(t, [call EXCEPT
                    !.pc = "acquire",
                    !.todo = Block \cap CoveringBlocks(range.offset, range.length, BlockSize)])
  BY ZenonT(30) DEF StartRead
<1> DEFINE range == ResolveReadRange(q[1], q[2], reader[r].asset.size, MaxOffset)
           touched == Block \cap CoveringBlocks(range.offset, range.length, BlockSize)
<1>2. range.offset \in Nat /\ range.length \in Nat
  <2>1. q[1] \in Nat /\ q[2] \in Nat /\ MaxOffset \in Nat /\ reader[r].asset.size \in Nat
    BY ReaderAssumption DEF IInv, TypeOK, ReaderState, AssetType
  <2> QED BY <2>1, <1>1 DEF ResolveReadRange
<1>3. touched \in SUBSET Block
  BY Zenon
<1> HIDE DEF range, touched
<1> DEFINE call == [NoRead EXCEPT !.reader = r, !.offset = range.offset, !.length = range.length]
<1>4. call \in ReadState /\ call.owned = {} /\ call.reader = r
  <2>1. NoRead \in ReadState /\ NoRead.owned = {}
    BY NoReadType, Zenon
  <2> QED BY ZenonT(30), <1>2, <2>1 DEF ReadState
<1> HIDE DEF call
<1>5. PICK s \in ReadState :
        Becomes(t, s) /\ s.owned = {} /\ s.reader = r /\ s.pc \in {"bypass", "acquire"}
  <2> DEFINE long  == [call EXCEPT !.pc = "bypass"]
             short == [call EXCEPT !.pc = "acquire", !.todo = touched]
  <2>1. long \in ReadState /\ long.owned = {} /\ long.reader = r /\ long.pc = "bypass"
    BY <1>4, Zenon DEF ReadState, PC
  <2>2. short \in ReadState /\ short.owned = {} /\ short.reader = r /\ short.pc = "acquire"
    BY ZenonT(30), <1>3, <1>4 DEF ReadState, PC
  <2>3. Becomes(t, long) \/ Becomes(t, short)
    BY <1>1, Zenon DEF range, touched, call
  <2> HIDE DEF long, short
  <2> QED BY <2>1, <2>2, <2>3, Zenon
<1>6. ReadOK(s)
  BY <1>1, <1>5, Zenon DEF ReadOK, OwnsOK
<1>7. read[t].owned = {}
  BY Zenon DEF StartRead, IInv, ReadsOK, ReadOK, OwnsOK, Quiet
<1> QED BY <1>5, <1>6, <1>7, OwnsNothing, Zenon DEF StartRead

LEMMA BypassReadInv ==
  ASSUME IInv, NEW t \in Thread, BypassRead(t)
  PROVE  IInv'
<1> DEFINE d    == [x \in Byte |-> IF InRange(t, x) THEN AssetOf(t).rev ELSE read[t].dst[x]]
           good == [read[t] EXCEPT !.pc = "return", !.result = "ok", !.dst = d]
           bad  == [read[t] EXCEPT !.pc = "return", !.result = "error"]
<1>1. read[t] \in ReadState /\ read[t].pc # "idle" /\ read[t].owned = {}
  BY ReadType, Zenon DEF BypassRead, IInv, ReadsOK, ReadOK, OwnsOK, Quiet
<1>2. d \in [Byte -> Rev \cup {NoRev}]
  BY <1>1, RevisionType, Zenon DEF ReadState
<1>3. Becomes(t, good) \/ Becomes(t, bad)
  BY Zenon DEF BypassRead
<1> HIDE DEF d
<1>4. /\ good \in ReadState /\ good.reader = read[t].reader /\ good.owned = read[t].owned
      /\ good.pc = "return"
  BY ZenonT(30), <1>1, <1>2 DEF ReadState, PC
<1>5. /\ bad \in ReadState /\ bad.reader = read[t].reader /\ bad.owned = read[t].owned
      /\ bad.pc = "return"
  BY ZenonT(30), <1>1 DEF ReadState, PC
<1> HIDE DEF good, bad
<1> QED BY ZenonT(30), <1>1, <1>3, <1>4, <1>5, KeepsStore DEF BypassRead, OwnsOK

LEMMA AcquireOneInv ==
  ASSUME IInv, NEW t \in Thread, AcquireOne(t)
  PROVE  IInv'
<1>1. PICK b \in read[t].todo :
        \/ /\ AcquireOwned(KeyOf(t, b))
           /\ Becomes(t, [read[t] EXCEPT !.todo = @ \ {b}, !.owned = @ \cup {b}])
        \/ /\ AcquireBusy(KeyOf(t, b))
           /\ Becomes(t, [read[t] EXCEPT !.todo = @ \ {b}, !.busy = @ \cup {b}])
  BY ZenonT(30) DEF AcquireOne
<1>2. read[t] \in ReadState /\ read[t].pc = "acquire" /\ b \in Block
  BY ReadType, Zenon DEF AcquireOne
<1>3. UNCHANGED <<identityVars, reader>>
  BY Zenon DEF AcquireOne
<1>4. CASE AcquireOwned(KeyOf(t, b))
  <2> DEFINE s == [read[t] EXCEPT !.todo = @ \ {b}, !.owned = @ \cup {b}]
  <2>1. /\ s \in ReadState /\ s.pc = "acquire" /\ s.reader = read[t].reader
        /\ s.owned = read[t].owned \cup {b}
    BY ZenonT(30), <1>2 DEF ReadState
  <2>2. Becomes(t, s)
    BY <1>1, <1>4, Zenon DEF AcquireOwned, AcquireBusy
  <2> HIDE DEF s
  <2> QED BY <1>2, <1>3, <1>4, <2>1, <2>2, TakesBlock, Zenon DEF OwnsOK, Quiet
<1>5. CASE AcquireBusy(KeyOf(t, b))
  <2> DEFINE s == [read[t] EXCEPT !.todo = @ \ {b}, !.busy = @ \cup {b}]
  <2>1. /\ s \in ReadState /\ s.pc = "acquire" /\ s.reader = read[t].reader
        /\ s.owned = read[t].owned
    BY ZenonT(30), <1>2 DEF ReadState
  <2>2. Becomes(t, s) /\ UNCHANGED cacheVars
    BY <1>1, <1>5, Zenon DEF AcquireOwned, AcquireBusy
  <2> HIDE DEF s
  <2> QED BY <1>2, <1>3, <2>1, <2>2, KeepsStore, Zenon DEF OwnsOK, Quiet
<1> QED BY <1>1, <1>4, <1>5, Zenon

\* A hit, on acquisition or after a wait, is copied out.
LEMMA HitInv ==
  ASSUME IInv, NEW t \in Thread, read[t].pc \in {"acquire", "await"}, NEW b \in read[t].todo,
         TouchLocked(KeyOf(t, b)), UNCHANGED <<entries, waiters, identityVars, reader>>,
         Becomes(t, [Copied(t, b, entries[KeyOf(t, b)].rev) EXCEPT !.todo = @ \ {b}])
  PROVE  IInv'
<1> DEFINE rev == entries[KeyOf(t, b)].rev
           s   == [Copied(t, b, rev) EXCEPT !.todo = @ \ {b}]
<1>1. read[t].pc # "idle" /\ b \in Block
  BY ReadType, Zenon
<1>2. KeyOf(t, b) \in Key /\ rev \in Rev \cup {NoRev}
  BY <1>1, ReadingThread, StoreType, Zenon DEF StoreTypeOK, Entry
<1>3. StoreTypeOK'
  BY <1>2, TouchEffect, StoreType, Zenon
<1>4. /\ Copied(t, b, rev) \in ReadState
      /\ Copied(t, b, rev).pc = read[t].pc
      /\ Copied(t, b, rev).reader = read[t].reader
      /\ Copied(t, b, rev).owned = read[t].owned
  BY <1>1, <1>2, CopiedType, Zenon
<1>5. /\ s \in ReadState /\ s.pc = read[t].pc /\ s.reader = read[t].reader
      /\ s.owned = read[t].owned
  BY <1>4, Zenon DEF ReadState
<1>6. Becomes(t, s)
  BY Zenon
<1> HIDE DEF s
<1> QED BY <1>1, <1>3, <1>5, <1>6, KeepsBlocks, Zenon DEF OwnsOK, Quiet

LEMMA HitOneInv ==
  ASSUME IInv, NEW t \in Thread, HitOne(t)
  PROVE  IInv'
  BY HitInv, Zenon DEF HitOne, AcquireHit

LEMMA AwaitHitInv ==
  ASSUME IInv, NEW t \in Thread, AwaitHit(t)
  PROVE  IInv'
  BY HitInv, Zenon DEF AwaitHit, AwaitPublished

LEMMA HitMismatchInv ==
  ASSUME IInv, NEW t \in Thread, HitMismatch(t)
  PROVE  IInv'
<1>1. PICK b \in read[t].todo : AcquireHit(KeyOf(t, b))
  BY Zenon DEF HitMismatch
<1>2. read[t].pc # "idle" /\ b \in Block /\ KeyOf(t, b) \in Key
  BY ReadType, ReadingThread, Zenon DEF HitMismatch
<1>3. StoreTypeOK' /\ entries' = entries
  BY <1>1, <1>2, TouchEffect, StoreType, Zenon DEF AcquireHit
<1> QED BY <1>2, <1>3, AbandonThenType, KeepsBlocks, Zenon DEF HitMismatch, OwnsOK, Quiet

LEMMA ReadDirectInv ==
  ASSUME IInv, NEW t \in Thread, ReadDirect(t)
  PROVE  IInv'
<1> DEFINE S(b) == [Copied(t, b, AssetOf(t).rev) EXCEPT
                      !.todo = @ \ {b}, !.pc = IF @ = "mismatch" THEN "acquire" ELSE @]
<1>1. PICK b \in read[t].todo : Becomes(t, S(b)) \/ Becomes(t, Leave(t, "error"))
  BY ZenonT(30) DEF ReadDirect
<1>2. /\ b \in Block /\ read[t].pc \in {"mismatch", "fallback"}
      /\ UNCHANGED <<cacheVars, identityVars, reader>>
  BY ReadType, Zenon DEF ReadDirect
<1>3. /\ Copied(t, b, AssetOf(t).rev) \in ReadState
      /\ Copied(t, b, AssetOf(t).rev).pc = read[t].pc
      /\ Copied(t, b, AssetOf(t).rev).reader = read[t].reader
      /\ Copied(t, b, AssetOf(t).rev).owned = read[t].owned
  BY <1>2, RevisionType, CopiedType, Zenon
<1>4. /\ S(b) \in ReadState /\ S(b).reader = read[t].reader /\ S(b).owned = read[t].owned
      /\ S(b).pc = IF read[t].pc = "mismatch" THEN "acquire" ELSE read[t].pc
  BY ZenonT(30), <1>2, <1>3 DEF ReadState, PC
<1>5. OwnsOK(S(b))
  BY <1>2, <1>4 DEF IInv, ReadsOK, ReadOK, OwnsOK, Quiet
<1> HIDE DEF S
<1>6. CASE Becomes(t, S(b))
  BY <1>2, <1>4, <1>5, <1>6, KeepsStore, Zenon
<1>7. CASE Becomes(t, Leave(t, "error"))
  BY <1>2, <1>7, LeaveType, KeepsStore, Zenon DEF OwnsOK, Quiet
<1> QED BY <1>1, <1>6, <1>7, Zenon

LEMMA AfterLoadInv ==
  ASSUME IInv, NEW t \in Thread, read[t].pc \in {"acquire", "load"}, AfterLoad(t),
         UNCHANGED <<cacheVars, identityVars, reader>>
  PROVE  IInv'
<1> DEFINE direct == [read[t] EXCEPT !.pc = "fallback", !.todo = Unresolved(t)]
           wait   == [read[t] EXCEPT !.pc = "await", !.todo = read[t].busy]
           fetch  == [read[t] EXCEPT !.pc = "fetch"]
<1>1. read[t] \in ReadState /\ Unresolved(t) \subseteq Block
  BY ReadType, Zenon DEF Unresolved
<1>2. \/ Becomes(t, direct) /\ read[t].owned = {}
      \/ Becomes(t, wait)
      \/ Becomes(t, fetch)
  BY ZenonT(30) DEF AfterLoad
<1>3. /\ direct \in ReadState /\ direct.reader = read[t].reader
      /\ direct.owned = read[t].owned /\ direct.pc = "fallback"
  BY ZenonT(30), <1>1 DEF ReadState, PC
<1>4. /\ wait \in ReadState /\ wait.reader = read[t].reader /\ wait.owned = read[t].owned
      /\ wait.pc = "await"
  BY ZenonT(30), <1>1 DEF ReadState, PC
<1>5. /\ fetch \in ReadState /\ fetch.reader = read[t].reader /\ fetch.owned = read[t].owned
      /\ fetch.pc = "fetch"
  BY <1>1, Zenon DEF ReadState, PC
<1> HIDE DEF direct, wait, fetch
<1>6. CASE Becomes(t, direct) /\ read[t].owned = {}
  BY ZenonT(30), <1>3, <1>6, KeepsStore DEF OwnsOK
<1>7. CASE Becomes(t, wait)
  BY <1>4, <1>7, KeepsStore, Zenon DEF OwnsOK, Quiet
<1>8. CASE Becomes(t, fetch)
  BY <1>5, <1>8, KeepsStore, Zenon DEF OwnsOK, Quiet
<1> QED BY <1>2, <1>6, <1>7, <1>8, Zenon

LEMMA AcquireEndInv ==
  ASSUME IInv, NEW t \in Thread, AcquireEnd(t)
  PROVE  IInv'
<1> DEFINE s == [read[t] EXCEPT !.pc = "load", !.todo = read[t].owned]
<1>1. read[t] \in ReadState /\ UNCHANGED <<cacheVars, identityVars, reader>>
  BY ReadType, Zenon DEF AcquireEnd
<1>2. CASE Becomes(t, s)
  <2>1. /\ s \in ReadState /\ s.pc = "load" /\ s.reader = read[t].reader
        /\ s.owned = read[t].owned /\ s.todo = read[t].owned
    BY ZenonT(30), <1>1 DEF ReadState, PC
  <2> HIDE DEF s
  <2> QED BY <1>1, <1>2, <2>1, KeepsStore, Zenon DEF AcquireEnd, OwnsOK, Quiet
<1>3. CASE AfterLoad(t)
  BY <1>1, <1>3, AfterLoadInv, Zenon DEF AcquireEnd
<1> QED BY <1>2, <1>3, Zenon DEF AcquireEnd

LEMMA LoadEndInv ==
  ASSUME IInv, NEW t \in Thread, LoadEnd(t)
  PROVE  IInv'
  BY AfterLoadInv, Zenon DEF LoadEnd

\* Publishing an owned block, from disk or from a transfer, settles it.
LEMMA PublishInv ==
  ASSUME IInv, NEW t \in Thread, read[t].pc \in {"load", "publish"}, NEW b \in read[t].owned,
         NEW rev \in Rev \cup {NoRev}, NEW s \in ReadState, Becomes(t, s),
         OwnsOK(s), s.reader = read[t].reader, s.owned = read[t].owned \ {b},
         Publish(KeyOf(t, b), Extent(t, b).length, rev), UNCHANGED <<identityVars, reader>>
  PROVE  IInv'
<1>1. b \in Block /\ read[t].pc # "idle"
  BY ReadType, Zenon
<1>2. KeyOf(t, b) \in Key /\ Extent(t, b).length \in Nat
  BY <1>1, ReadingThread, ExtentType, Zenon
<1>3. /\ StoreTypeOK'
      /\ entries'[KeyOf(t, b)].state # "pending"
      /\ \A j \in Key \ {KeyOf(t, b)} :
           entries'[j].state = "pending" <=> entries[j].state = "pending"
  BY <1>2, PublishEffect, StoreType, Zenon
<1> QED BY <1>1, <1>3, SettlesBlock, Zenon

LEMMA LoadOneInv ==
  ASSUME IInv, NEW t \in Thread, LoadOne(t)
  PROVE  IInv'
<1> DEFINE rev == AssetOf(t).rev
           Hit(b) == [Copied(t, b, rev) EXCEPT !.todo = @ \ {b}, !.owned = @ \ {b}]
           Miss(b) == [read[t] EXCEPT !.todo = @ \ {b}]
<1>1. PICK b \in read[t].todo :
        \/ Publish(KeyOf(t, b), Extent(t, b).length, rev) /\ Becomes(t, Hit(b))
        \/ Becomes(t, Miss(b)) /\ UNCHANGED cacheVars
  BY ZenonT(30) DEF LoadOne
<1>2. /\ read[t] \in ReadState /\ read[t].pc = "load" /\ b \in Block
      /\ read[t].todo \subseteq read[t].owned /\ UNCHANGED <<identityVars, reader>>
  BY ReadType, Zenon DEF LoadOne, IInv, ReadsOK, ReadOK, OwnsOK
<1>3. rev \in Rev
  BY <1>2, RevisionType, Zenon
<1>4. /\ Copied(t, b, rev) \in ReadState
      /\ Copied(t, b, rev).pc = read[t].pc
      /\ Copied(t, b, rev).reader = read[t].reader
      /\ Copied(t, b, rev).owned = read[t].owned
      /\ Copied(t, b, rev).todo = read[t].todo
  BY <1>2, <1>3, CopiedType, Zenon
<1> HIDE DEF rev
<1>5. /\ Hit(b) \in ReadState /\ Hit(b).pc = "load" /\ Hit(b).reader = read[t].reader
      /\ Hit(b).owned = read[t].owned \ {b} /\ Hit(b).todo = read[t].todo \ {b}
  BY ZenonT(30), <1>2, <1>4 DEF ReadState
<1>6. /\ Miss(b) \in ReadState /\ Miss(b).pc = "load" /\ Miss(b).reader = read[t].reader
      /\ Miss(b).owned = read[t].owned /\ Miss(b).todo = read[t].todo \ {b}
  BY <1>2, Zenon DEF ReadState
<1> HIDE DEF Hit, Miss
<1>7. CASE Publish(KeyOf(t, b), Extent(t, b).length, rev) /\ Becomes(t, Hit(b))
  <2>1. OwnsOK(Hit(b))
    BY <1>2, <1>5, Zenon DEF OwnsOK, Quiet
  <2> QED BY <1>2, <1>3, <1>5, <1>7, <2>1, PublishInv, Zenon
<1>8. CASE Becomes(t, Miss(b)) /\ UNCHANGED cacheVars
  <2>1. OwnsOK(Miss(b))
    BY <1>2, <1>6, Zenon DEF OwnsOK, Quiet
  <2> QED BY <1>2, <1>6, <1>8, <2>1, KeepsStore, Zenon
<1> QED BY <1>1, <1>7, <1>8, Zenon

LEMMA FetchOneInv ==
  ASSUME IInv, NEW t \in Thread, FetchOne(t)
  PROVE  IInv'
<1>1. PICK got \in SUBSET Block :
        \/ Becomes(t, [read[t] EXCEPT !.pc = "publish", !.fetched = got])
        \/ Becomes(t, Leave(t, "error"))
  BY ZenonT(30) DEF FetchOne
<1>2. /\ read[t] \in ReadState /\ read[t].pc = "fetch"
      /\ UNCHANGED <<cacheVars, identityVars, reader>>
  BY ReadType, Zenon DEF FetchOne
<1> DEFINE s == [read[t] EXCEPT !.pc = "publish", !.fetched = got]
<1>3. /\ s \in ReadState /\ s.pc = "publish" /\ s.reader = read[t].reader
      /\ s.owned = read[t].owned
  BY ZenonT(30), <1>2 DEF ReadState, PC
<1>4. CASE Becomes(t, s)
  <2> HIDE DEF s
  <2> QED BY <1>2, <1>3, <1>4, KeepsStore, Zenon DEF OwnsOK, Quiet
<1>5. CASE Becomes(t, Leave(t, "error"))
  BY <1>2, <1>5, LeaveType, KeepsStore, Zenon DEF OwnsOK, Quiet
<1> QED BY <1>1, <1>4, <1>5, Zenon

LEMMA FetchEndInv ==
  ASSUME IInv, NEW t \in Thread, FetchEnd(t)
  PROVE  IInv'
<1> DEFINE s == [read[t] EXCEPT !.pc = "await", !.todo = read[t].busy]
<1>1. /\ read[t] \in ReadState /\ read[t].pc = "fetch" /\ Becomes(t, s)
      /\ UNCHANGED <<cacheVars, identityVars, reader>>
  BY ReadType, Zenon DEF FetchEnd
<1>2. s \in ReadState /\ s.pc = "await" /\ s.reader = read[t].reader /\ s.owned = read[t].owned
  BY ZenonT(30), <1>1 DEF ReadState, PC
<1> HIDE DEF s
<1> QED BY <1>1, <1>2, KeepsStore, Zenon DEF OwnsOK, Quiet

LEMMA PublishOneInv ==
  ASSUME IInv, NEW t \in Thread, PublishOne(t)
  PROVE  IInv'
<1>1. PICK b \in read[t].owned, rev \in {AssetOf(t).rev, NoRev} :
        /\ Publish(KeyOf(t, b), Extent(t, b).length, rev)
        /\ Becomes(t, [Copied(t, b, rev) EXCEPT !.owned = @ \ {b}])
  BY ZenonT(30) DEF PublishOne
<1>2. /\ read[t].pc = "publish" /\ b \in Block
      /\ UNCHANGED <<identityVars, reader>>
  BY ReadType, Zenon DEF PublishOne
<1>3. rev \in Rev \cup {NoRev}
  BY <1>2, RevisionType, Zenon
<1>4. /\ Copied(t, b, rev) \in ReadState
      /\ Copied(t, b, rev).pc = read[t].pc
      /\ Copied(t, b, rev).reader = read[t].reader
      /\ Copied(t, b, rev).owned = read[t].owned
  BY <1>2, <1>3, CopiedType, Zenon
<1> DEFINE s == [Copied(t, b, rev) EXCEPT !.owned = @ \ {b}]
<1>5. /\ s \in ReadState /\ s.pc = "publish" /\ s.reader = read[t].reader
      /\ s.owned = read[t].owned \ {b} /\ Becomes(t, s)
  BY <1>1, <1>2, <1>4, Zenon DEF ReadState
<1> HIDE DEF s
<1>6. OwnsOK(s)
  BY <1>5, Zenon DEF OwnsOK, Quiet
<1> QED BY <1>1, <1>2, <1>3, <1>5, <1>6, PublishInv, Zenon

LEMMA PublishEndInv ==
  ASSUME IInv, NEW t \in Thread, PublishEnd(t)
  PROVE  IInv'
<1> DEFINE s == [read[t] EXCEPT !.pc = "fetch", !.fetched = {}]
<1>1. /\ read[t] \in ReadState /\ read[t].pc = "publish" /\ Becomes(t, s)
      /\ UNCHANGED <<cacheVars, identityVars, reader>>
  BY ReadType, Zenon DEF PublishEnd
<1>2. s \in ReadState /\ s.pc = "fetch" /\ s.reader = read[t].reader /\ s.owned = read[t].owned
  BY ZenonT(30), <1>1 DEF ReadState, PC
<1> HIDE DEF s
<1> QED BY <1>1, <1>2, KeepsStore, Zenon DEF OwnsOK, Quiet

LEMMA ThrowsInv ==
  ASSUME IInv, NEW t \in Thread, Throws(t)
  PROVE  IInv'
  BY LeaveType, KeepsStore, Zenon DEF Throws, OwnsOK, Quiet

LEMMA AwaitMissInv ==
  ASSUME IInv, NEW t \in Thread, AwaitMiss(t)
  PROVE  IInv'
<1>1. PICK b \in read[t].todo :
        /\ AwaitGone(KeyOf(t, b)) \/ AwaitPublished(KeyOf(t, b))
        /\ Becomes(t, [read[t] EXCEPT !.todo = @ \ {b}])
  BY Zenon DEF AwaitMiss
<1>2. /\ read[t] \in ReadState /\ read[t].pc = "await" /\ b \in Block /\ KeyOf(t, b) \in Key
      /\ UNCHANGED <<identityVars, reader>>
  BY ReadType, ReadingThread, Zenon DEF AwaitMiss
<1>3. StoreTypeOK' /\ entries' = entries
  <2>1. CASE AwaitGone(KeyOf(t, b))
    BY <2>1, StoreType, Zenon DEF AwaitGone, cacheVars, StoreTypeOK
  <2>2. CASE AwaitPublished(KeyOf(t, b))
    BY <2>2, <1>2, TouchEffect, StoreType, Zenon DEF AwaitPublished
  <2> QED BY <1>1, <2>1, <2>2, Zenon
<1> DEFINE s == [read[t] EXCEPT !.todo = @ \ {b}]
<1>4. /\ s \in ReadState /\ s.pc = "await" /\ s.reader = read[t].reader
      /\ s.owned = read[t].owned /\ Becomes(t, s)
  BY <1>1, <1>2, Zenon DEF ReadState
<1> HIDE DEF s
<1> QED BY <1>2, <1>3, <1>4, KeepsBlocks, Zenon DEF OwnsOK, Quiet

\* Going to sleep and waking up are between a thread and the stripe.
LEMMA WaitersOnly ==
  ASSUME IInv, waiters' \in [Shard -> SUBSET Thread],
         UNCHANGED <<entries, ahead, identityVars, reader, read>>
  PROVE  IInv'
<1>1. UNCHANGED <<identities, nextIdentityId, liveBindings>>
  BY Zenon DEF identityVars
<1>2. TypeOK'
  BY <1>1, Zenon DEF IInv, TypeOK, CacheTypeOK
<1>3. ReadsOK'
  BY Zenon DEF IInv, ReadsOK, ReadOK
<1>4. Numbered' /\ PrivateIsAlone' /\ PurgesPrivate'
  BY <1>1, Zenon DEF IInv, IdentitiesOK, Numbered, PrivateIsAlone, PurgesPrivate, Bound
<1>5. BindingsCounted'
  BY <1>1, Zenon DEF IInv, IdentitiesOK, BindingsCounted, Live
<1>6. \A u \in Thread : OwnedKeys(u)' = OwnedKeys(u)
  BY KeysKept, Zenon
<1>7. Ownership'
  BY <1>6 DEF IInv, Ownership, OwnedIsPending, PendingHasOwner, SingleOwner
<1> QED BY <1>2, <1>3, <1>4, <1>5, <1>7, Zenon DEF IInv, IdentitiesOK

LEMMA AwaitPendingInv ==
  ASSUME IInv, NEW t \in Thread, AwaitPending(t)
  PROVE  IInv'
<1>1. PICK b \in read[t].todo : AwaitSleep(t, KeyOf(t, b))
  BY Zenon DEF AwaitPending
<1>2. KeyOf(t, b) \in Key
  BY ReadType, ReadingThread, Zenon DEF AwaitPending
<1>3. waiters' \in [Shard -> SUBSET Thread]
  BY ZenonT(30), <1>1, <1>2, StoreType, CacheAssumption DEF AwaitSleep, StoreTypeOK
<1> QED BY <1>1, <1>3, WaitersOnly, Zenon DEF AwaitPending, AwaitSleep

LEMMA SpuriousWakeInv ==
  ASSUME IInv, NEW t \in Thread, SpuriousWake(t)
  PROVE  IInv'
<1>1. waiters' \in [Shard -> SUBSET Thread]
  BY StoreType, Zenon DEF SpuriousWake, StoreTypeOK
<1> QED BY <1>1, WaitersOnly, Zenon DEF SpuriousWake

LEMMA AwaitEndInv ==
  ASSUME IInv, NEW t \in Thread, AwaitEnd(t)
  PROVE  IInv'
  BY AbandonThenType, KeepsStore, Zenon DEF AwaitEnd, OwnsOK, Quiet

LEMMA AbandonOneInv ==
  ASSUME IInv, NEW t \in Thread, AbandonOne(t)
  PROVE  IInv'
<1>1. PICK b \in read[t].owned :
        Abandon(KeyOf(t, b)) /\ Becomes(t, [read[t] EXCEPT !.owned = @ \ {b}])
  BY ZenonT(30) DEF AbandonOne
<1>2. /\ read[t] \in ReadState /\ read[t].pc = "abandon" /\ b \in Block /\ KeyOf(t, b) \in Key
      /\ UNCHANGED <<identityVars, reader>>
  BY ReadType, ReadingThread, Zenon DEF AbandonOne
<1>3. /\ StoreTypeOK'
      /\ entries'[KeyOf(t, b)].state # "pending"
      /\ \A j \in Key \ {KeyOf(t, b)} : entries'[j] = entries[j]
  BY <1>1, <1>2, AbandonEffect, StoreType, Zenon
<1> DEFINE s == [read[t] EXCEPT !.owned = @ \ {b}]
<1>4. /\ s \in ReadState /\ s.pc = "abandon" /\ s.reader = read[t].reader
      /\ s.owned = read[t].owned \ {b} /\ Becomes(t, s)
  BY <1>1, <1>2, Zenon DEF ReadState
<1> HIDE DEF s
<1>5. OwnsOK(s)
  BY <1>4, Zenon DEF OwnsOK, Quiet
<1> QED BY <1>2, <1>3, <1>4, <1>5, SettlesBlock, Zenon

LEMMA AbandonEndInv ==
  ASSUME IInv, NEW t \in Thread, AbandonEnd(t)
  PROVE  IInv'
<1> DEFINE again == [read[t] EXCEPT !.todo = Unresolved(t), !.busy = {}]
           onward == [read[t] EXCEPT !.pc = read[t].after]
           pass == [again EXCEPT !.pc = "acquire", !.pass = @ + 1]
           last == [again EXCEPT !.pc = "fallback"]
<1>1. /\ read[t] \in ReadState /\ read[t].pc = "abandon" /\ read[t].owned = {}
      /\ Unresolved(t) \subseteq Block /\ UNCHANGED <<cacheVars, identityVars, reader>>
  BY ReadType, Zenon DEF AbandonEnd, Unresolved
<1>2. \/ read[t].after # "pass" /\ Becomes(t, onward)
      \/ read[t].pass < Passes /\ Becomes(t, pass)
      \/ Becomes(t, last)
  BY <1>1, ReaderAssumption DEF AbandonEnd, LastPass, ReadState
<1>3. again \in ReadState /\ again.reader = read[t].reader /\ again.owned = {}
      /\ again.pass = read[t].pass
  BY ZenonT(30), <1>1 DEF ReadState
<1>4. CASE read[t].after # "pass" /\ Becomes(t, onward)
  <2>1. onward \in ReadState /\ onward.reader = read[t].reader /\ onward.owned = {}
        /\ onward.pc \in {"mismatch", "return"}
    BY <1>1, <1>4, Zenon DEF ReadState, PC
  <2> HIDE DEF onward
  <2> QED BY ZenonT(30), <1>1, <1>4, <2>1, KeepsStore DEF OwnsOK
<1> HIDE DEF again
<1>5. CASE read[t].pass < Passes /\ Becomes(t, pass)
  <2>1. read[t].pass + 1 \in 1 .. Passes
    BY <1>1, <1>5, ReaderAssumption DEF ReadState
  <2>2. /\ pass \in ReadState /\ pass.reader = read[t].reader /\ pass.owned = {}
        /\ pass.pc = "acquire"
    BY ZenonT(30), <1>3, <2>1 DEF ReadState, PC
  <2> HIDE DEF pass
  <2> QED BY ZenonT(30), <1>1, <1>5, <2>2, KeepsStore DEF OwnsOK
<1>6. CASE Becomes(t, last)
  <2>1. /\ last \in ReadState /\ last.reader = read[t].reader /\ last.owned = {}
        /\ last.pc = "fallback"
    BY <1>3, Zenon DEF ReadState, PC
  <2> HIDE DEF last
  <2> QED BY <1>1, <1>6, <2>1, KeepsStore, Zenon DEF OwnsOK
<1> QED BY <1>2, <1>4, <1>5, <1>6, Zenon

LEMMA FallbackEndInv ==
  ASSUME IInv, NEW t \in Thread, FallbackEnd(t)
  PROVE  IInv'
<1>1. PICK how \in {"ok", "short"} :
        Becomes(t, [read[t] EXCEPT !.pc = "return", !.result = how])
  BY ZenonT(30) DEF FallbackEnd
<1>2. /\ read[t] \in ReadState /\ read[t].pc = "fallback" /\ read[t].owned = {}
      /\ UNCHANGED <<cacheVars, identityVars, reader>>
  BY ReadType, Zenon DEF FallbackEnd, IInv, ReadsOK, ReadOK, OwnsOK, Quiet
<1> DEFINE s == [read[t] EXCEPT !.pc = "return", !.result = how]
<1>3. /\ s \in ReadState /\ s.pc = "return" /\ s.reader = read[t].reader /\ s.owned = {}
      /\ Becomes(t, s)
  BY ZenonT(30), <1>1, <1>2 DEF ReadState, PC
<1> HIDE DEF s
<1> QED BY ZenonT(30), <1>2, <1>3, KeepsStore DEF OwnsOK

LEMMA ReturnInv ==
  ASSUME IInv, NEW t \in Thread, Return(t)
  PROVE  IInv'
<1>1. read[t].owned = {}
  BY Zenon DEF Return, IInv, ReadsOK, ReadOK, OwnsOK, Quiet
<1>2. ReadOK(NoRead)
  BY NoReadType, Zenon DEF ReadOK, OwnsOK
<1> QED BY <1>1, <1>2, NoReadType, OwnsNothing, Zenon DEF Return

------------------------------------------------------------------------------
\* The life of a reader, and ConfigureProcess.

LEMMA LiveFinite == FiniteLaws => IsFiniteSet(Live)
  BY ReaderAssumption, FiniteSubset, Zenon DEF Live

\* Bind gives out a number no private reader has.
LEMMA BoundIdFresh ==
  ASSUME IInv, NEW i \in Ident, NEW v
  PROVE  \A q \in Reader : Bound(q) /\ ~IsShareable(reader[q].asset.validator)
                              => reader[q].id # BoundId(i, v)
  BY CacheAssumption
     DEF IInv, TypeOK, CacheTypeOK, IdentitiesOK, Numbered, PrivateIsAlone, BoundId, Id

LEMMA OpenInv ==
  ASSUME FiniteLaws, IInv, NEW r \in Reader, Open(r)
  PROVE  IInv'
<1> DEFINE i  == reader[r].asset.ident
           v  == reader[r].asset.validator
           id == BoundId(i, v)
<1>1. /\ reader[r].life = "new" /\ Bind(i, v) /\ UNCHANGED <<cacheVars, read>>
      /\ reader' = [reader EXCEPT ![r].life = "open", ![r].id = id]
  BY Zenon DEF Open
<1>2. reader \in [Reader -> ReaderState] /\ i \in Ident /\ id \in Id
  BY <1>1, ReaderAssumption, Zenon DEF IInv, TypeOK, ReaderState, AssetType, Bind
<1>3. /\ reader' \in [Reader -> ReaderState]
      /\ reader'[r].life = "open" /\ reader'[r].id = id /\ reader'[r].asset = reader[r].asset
      /\ reader'[r].purge = reader[r].purge
      /\ \A q \in Reader \ {r} : reader'[q] = reader[q]
  <2> HIDE DEF i, v, id
  <2>1. reader[r] \in ReaderState /\ id \in 0 .. MaxId
    BY <1>2, CacheAssumption DEF Id
  <2>2. /\ [reader[r] EXCEPT !.life = "open", !.id = id] \in ReaderState
        /\ reader' = [reader EXCEPT ![r] = [reader[r] EXCEPT !.life = "open", !.id = id]]
    BY ZenonT(30), <1>1, <1>2, <2>1 DEF ReaderState
  <2> QED BY <1>2, <2>1, <2>2, Zenon DEF ReaderState
<1>4. /\ MaxId \in Nat /\ nextIdentityId \in 1 .. MaxId + 1 /\ identities \in [Ident -> 0 .. MaxId]
      /\ liveBindings \in Int
  BY CacheAssumption, Zenon DEF IInv, TypeOK, CacheTypeOK
<1>5. /\ id <= nextIdentityId
      /\ id = nextIdentityId \/ id = identities[i]
      /\ ~IsShareable(v) => id = nextIdentityId
      /\ nextIdentityId' \in 1 .. MaxId + 1 /\ id < nextIdentityId'
      /\ nextIdentityId <= nextIdentityId'
  <2>1. identities[i] < nextIdentityId
    BY <1>2, Zenon DEF IInv, IdentitiesOK, Numbered
  <2>2. id = IF IsShareable(v) /\ identities[i] # 0 THEN identities[i] ELSE nextIdentityId
    BY Zenon DEF BoundId
  <2>3. nextIdentityId' = IF id = nextIdentityId THEN nextIdentityId + 1 ELSE nextIdentityId
    BY <1>1, Zenon DEF Bind
  <2> HIDE DEF i, v, id
  <2> QED BY <1>2, <1>4, <2>1, <2>2, <2>3 DEF Id
<1>6. /\ identities' \in [Ident -> 0 .. MaxId]
      /\ \A j \in Ident : \/ identities'[j] = identities[j]
                          \/ IsShareable(v) /\ identities'[j] = id
      /\ liveBindings' = liveBindings + 1
  BY <1>1, <1>2, <1>4 DEF Bind, Id
<1> HIDE DEF i, v, id
<1>7. TypeOK'
  BY <1>1, <1>3, <1>4, <1>5, <1>6 DEF IInv, TypeOK, CacheTypeOK, cacheVars
<1>8. ReadsOK'
  BY <1>1, <1>3, Zenon DEF IInv, ReadsOK, ReadOK, OwnsOK
<1>9. Numbered'
  BY <1>2, <1>3, <1>4, <1>5, <1>6 DEF IInv, IdentitiesOK, Numbered, Bound, Id
<1>10. PrivateIsAlone'
  <2> SUFFICES ASSUME NEW p \in Reader, Bound(p)', ~IsShareable(reader'[p].asset.validator)
               PROVE  /\ \A q \in Reader : q # p /\ Bound(q)' => reader'[q].id # reader'[p].id
                      /\ \A j \in Ident : identities'[j] # reader'[p].id
    BY Zenon DEF PrivateIsAlone
  <2>1. CASE p = r
    <3>1. id = nextIdentityId /\ ~IsShareable(v)
      BY <1>3, <1>5, <2>1, Zenon DEF v
    <3> QED BY <2>1, <3>1, <1>3, <1>4, <1>6 DEF IInv, IdentitiesOK, Numbered, Bound, Id
  <2>2. CASE p # r
    <3>1. Bound(p) /\ reader'[p] = reader[p] /\ reader[p].id # id
      BY <2>2, <1>2, <1>3, BoundIdFresh, Zenon DEF Bound, id
    <3> QED BY <2>2, <3>1, <1>3, <1>6 DEF IInv, IdentitiesOK, PrivateIsAlone, Bound
  <2> QED BY <2>1, <2>2, Zenon
<1>11. PurgesPrivate'
  BY <1>3, Zenon DEF IInv, IdentitiesOK, PurgesPrivate
<1>12. BindingsCounted'
  <2>1. Live' = Live \cup {r} /\ r \notin Live
    BY <1>1, <1>3, Zenon DEF Live
  <2> QED BY <2>1, <1>6, LiveFinite, FiniteAdd, Zenon DEF IInv, IdentitiesOK, BindingsCounted
<1>13. Ownership'
  <2>1. \A u \in Thread : OwnedKeys(u)' = OwnedKeys(u)
    BY <1>1, <1>3, KeysKept, Zenon
  <2> QED BY <1>1, <2>1, OwnershipKept, Zenon DEF cacheVars
<1> QED BY <1>7, <1>8, <1>9, <1>10, <1>11, <1>12, <1>13, Zenon DEF IInv, IdentitiesOK

\* The numbering is as before once no reader has another number or asset.
LEMMA IdentitiesKept ==
  ASSUME IInv, UNCHANGED <<identities, nextIdentityId>>, PurgesPrivate', BindingsCounted',
         \A q \in Reader : /\ Bound(q)' <=> Bound(q)
                           /\ reader'[q].id = reader[q].id /\ reader'[q].asset = reader[q].asset
  PROVE  IdentitiesOK'
<1>1. Numbered'
  BY Zenon DEF IInv, IdentitiesOK, Numbered
<1>2. PrivateIsAlone'
  BY Zenon DEF IInv, IdentitiesOK, PrivateIsAlone
<1> QED BY <1>1, <1>2, Zenon DEF IdentitiesOK

LEMMA CloseInv ==
  ASSUME IInv, NEW r \in Reader, Close(r)
  PROVE  IInv'
<1> DEFINE purge == IF IsShareable(reader[r].asset.validator) THEN {} ELSE Shard
<1>1. reader \in [Reader -> ReaderState] /\ reader[r].life = "open"
  BY Zenon DEF Close, IInv, TypeOK
<1>2. /\ reader' \in [Reader -> ReaderState]
      /\ reader'[r].life = "closing" /\ reader'[r].id = reader[r].id
      /\ reader'[r].asset = reader[r].asset /\ reader'[r].purge = purge
      /\ \A q \in Reader \ {r} : reader'[q] = reader[q]
  <2>1. /\ [reader[r] EXCEPT !.life = "closing", !.purge = purge] \in ReaderState
        /\ reader' = [reader EXCEPT ![r] = [reader[r] EXCEPT !.life = "closing", !.purge = purge]]
    BY ZenonT(30), <1>1 DEF Close, ReaderState
  <2> HIDE DEF purge
  <2> QED BY <1>1, <2>1, Zenon DEF ReaderState
<1>3. TypeOK'
  BY <1>2, Zenon DEF Close, IInv, TypeOK, CacheTypeOK, cacheVars, identityVars
<1>4. ReadsOK'
  BY <1>2, Zenon DEF Close, IInv, ReadsOK, ReadOK, OwnsOK
<1>5. \A q \in Reader : /\ Bound(q)' <=> Bound(q)
                        /\ reader'[q].id = reader[q].id /\ reader'[q].asset = reader[q].asset
  BY <1>1, <1>2, Zenon DEF Bound
<1>6. PurgesPrivate'
  BY <1>2, Zenon DEF IInv, IdentitiesOK, PurgesPrivate
<1>7. BindingsCounted'
  <2>1. Live' = Live
    BY <1>1, <1>2, Zenon DEF Live
  <2>2. UNCHANGED liveBindings
    BY Zenon DEF Close, identityVars
  <2> QED BY <2>1, <2>2, Zenon DEF IInv, IdentitiesOK, BindingsCounted
<1>8. IdentitiesOK'
  BY ZenonT(30), <1>5, <1>6, <1>7, IdentitiesKept DEF Close, identityVars
<1>9. Ownership'
  <2>1. \A u \in Thread : OwnedKeys(u)' = OwnedKeys(u)
    BY <1>2, KeysKept, Zenon DEF Close
  <2>2. UNCHANGED entries
    BY Zenon DEF Close, cacheVars
  <2> QED BY <2>1, <2>2 DEF IInv, Ownership, OwnedIsPending, PendingHasOwner, SingleOwner
<1> QED BY <1>3, <1>4, <1>8, <1>9, Zenon DEF IInv

\* The purge of a private identity meets no block that a thread owns: the
\* owner's reader is open, so it is another one, under another number.
LEMMA ClosePurgeInv ==
  ASSUME IInv, NEW r \in Reader, ClosePurge(r)
  PROVE  IInv'
<1>1. PICK s \in reader[r].purge :
        PurgeShard(reader[r].id, s) /\ reader' = [reader EXCEPT ![r].purge = @ \ {s}]
  BY ZenonT(30) DEF ClosePurge
<1>2. /\ reader \in [Reader -> ReaderState] /\ reader[r].life = "closing" /\ s \in Shard
      /\ reader[r].id \in Id /\ ~IsShareable(reader[r].asset.validator)
      /\ UNCHANGED <<identityVars, read>>
  BY <1>1, Zenon DEF ClosePurge, IInv, TypeOK, ReaderState, IdentitiesOK, Numbered, PurgesPrivate, Bound
<1>3. /\ reader' \in [Reader -> ReaderState]
      /\ \A q \in Reader : /\ reader'[q].life = reader[q].life /\ reader'[q].id = reader[q].id
                           /\ reader'[q].asset = reader[q].asset
                           /\ reader'[q].purge \subseteq reader[q].purge
  BY <1>1, <1>2, Zenon DEF ReaderState
<1>4. /\ StoreTypeOK'
      /\ \A j \in Key : \/ entries'[j] = entries[j]
                        \/ j[1] = reader[r].id /\ entries'[j].state = "absent"
  BY <1>1, <1>2, PurgeEffect, StoreType, Zenon
<1>5. TypeOK'
  BY <1>2, <1>3, <1>4, Zenon DEF IInv, TypeOK, CacheTypeOK, StoreTypeOK, identityVars
<1>6. ReadsOK'
  BY <1>2, <1>3, Zenon DEF IInv, ReadsOK, ReadOK, OwnsOK
<1>7. IdentitiesOK'
  <2>1. Live' = Live
    BY <1>3, Zenon DEF Live
  <2>2. BindingsCounted' /\ UNCHANGED <<identities, nextIdentityId>>
    BY <1>2, <2>1, Zenon DEF IInv, IdentitiesOK, BindingsCounted, identityVars
  <2>3. PurgesPrivate'
    BY <1>3, Zenon DEF IInv, IdentitiesOK, PurgesPrivate
  <2>4. \A q \in Reader : Bound(q)' <=> Bound(q)
    BY <1>3, Zenon DEF Bound
  <2> QED BY <1>3, <2>2, <2>3, <2>4, IdentitiesKept, Zenon
<1>8. \A u \in Thread : OwnedKeys(u)' = OwnedKeys(u)
  BY <1>2, <1>3, KeysKept, Zenon
<1>9. ASSUME NEW u \in Thread, NEW k \in OwnedKeys(u)
      PROVE  k[1] # reader[r].id
  <2>1. read[u].pc # "idle"
    BY <1>9, Zenon DEF OwnedKeys, IInv, ReadsOK, ReadOK, OwnsOK, Quiet
  <2>2. /\ read[u].reader \in Reader /\ reader[read[u].reader].life = "open"
        /\ k[1] = reader[read[u].reader].id
    BY <2>1, ReadingThread DEF OwnedKeys, KeyOf
  <2> QED BY <1>2, <2>2, Zenon DEF IInv, IdentitiesOK, PrivateIsAlone, Bound
<1>10. Ownership'
  <2>1. OwnedIsPending'
    BY <1>4, <1>8, <1>9 DEF IInv, Ownership, OwnedIsPending
  <2>2. PendingHasOwner'
    BY <1>4, <1>8, Zenon DEF IInv, Ownership, PendingHasOwner
  <2>3. SingleOwner'
    BY <1>8, Zenon DEF IInv, Ownership, SingleOwner
  <2> QED BY <2>1, <2>2, <2>3, Zenon DEF Ownership
<1> QED BY <1>5, <1>6, <1>7, <1>10, Zenon DEF IInv

LEMMA CloseUnbindInv ==
  ASSUME FiniteLaws, IInv, NEW r \in Reader, CloseUnbind(r)
  PROVE  IInv'
<1>1. /\ reader \in [Reader -> ReaderState] /\ reader[r].life = "closing"
      /\ liveBindings' = liveBindings - 1 /\ liveBindings \in Int
      /\ UNCHANGED <<cacheVars, identities, nextIdentityId, read>>
  BY Zenon DEF CloseUnbind, Unbind, IInv, TypeOK, CacheTypeOK
<1>2. /\ reader' \in [Reader -> ReaderState]
      /\ reader'[r].life = "closed" /\ reader'[r].id = reader[r].id
      /\ reader'[r].asset = reader[r].asset /\ reader'[r].purge = reader[r].purge
      /\ \A q \in Reader \ {r} : reader'[q] = reader[q]
  BY <1>1, Zenon DEF CloseUnbind, ReaderState
<1>3. TypeOK'
  BY <1>1, <1>2 DEF IInv, TypeOK, CacheTypeOK, cacheVars
<1>4. ReadsOK'
  BY <1>1, <1>2, Zenon DEF IInv, ReadsOK, ReadOK, OwnsOK
<1>5. PurgesPrivate'
  BY <1>2, Zenon DEF IInv, IdentitiesOK, PurgesPrivate
<1>6. BindingsCounted'
  <2>1. Live' = Live \ {r} /\ r \in Live
    BY <1>1, <1>2, Zenon DEF Live
  <2> QED BY <1>1, <2>1, LiveFinite, FiniteRemove, Zenon
         DEF IInv, IdentitiesOK, BindingsCounted
<1>7. IdentitiesOK'
  <2>1. \A q \in Reader : /\ Bound(q)' <=> Bound(q)
                          /\ reader'[q].id = reader[q].id /\ reader'[q].asset = reader[q].asset
    BY <1>1, <1>2, Zenon DEF Bound
  <2> QED BY <1>1, <1>5, <1>6, <2>1, IdentitiesKept, Zenon
<1>8. Ownership'
  <2>1. \A u \in Thread : OwnedKeys(u)' = OwnedKeys(u)
    BY <1>1, <1>2, KeysKept, Zenon
  <2> QED BY <1>1, <2>1, OwnershipKept, Zenon DEF cacheVars
<1> QED BY <1>3, <1>4, <1>7, <1>8, Zenon DEF IInv

\* No binding is alive, so no thread is in a read.
LEMMA UnboundMeansUnread ==
  ASSUME FiniteLaws, IInv, liveBindings = 0
  PROVE  /\ \A r \in Reader : reader[r].life \in {"new", "closed"}
         /\ \A t \in Thread : read[t].pc = "idle" /\ read[t].owned = {}
<1>1. Live = {}
  BY ZenonT(30), LiveFinite, FiniteEmpty DEF IInv, IdentitiesOK, BindingsCounted
<1>2. \A r \in Reader : reader[r].life \in {"new", "closed"}
  BY <1>1, Zenon DEF Live, IInv, TypeOK, ReaderState
<1>3. \A t \in Thread : read[t].pc = "idle"
  BY <1>2, Zenon DEF IInv, ReadsOK, ReadOK
<1> QED BY <1>2, <1>3, Zenon DEF IInv, ReadsOK, ReadOK, OwnsOK, Quiet

LEMMA ConfigureInv ==
  ASSUME FiniteLaws, IInv, Configure
  PROVE  IInv'
<1>1. /\ liveBindings = 0 /\ UNCHANGED <<nextIdentityId, liveBindings, reader, read>>
      /\ entries' = [k \in Key |-> Absent]
      /\ ahead' = [k \in Key |-> {}]
      /\ waiters' = [s \in Shard |-> {}]
      /\ identities' = [i \in Ident |-> 0]
  BY Zenon DEF Configure, ConfigureProcess
<1>2. \A t \in Thread : OwnedKeys(t)' = {}
  BY <1>1, UnboundMeansUnread, Zenon DEF OwnedKeys
<1>3. TypeOK'
  BY <1>1, CacheAssumption DEF IInv, TypeOK, CacheTypeOK, Absent, Entry
<1>4. ReadsOK'
  BY ZenonT(30), <1>1 DEF IInv, ReadsOK, ReadOK, OwnsOK
<1>5. IdentitiesOK'
  BY <1>1, CacheAssumption DEF IInv, TypeOK, CacheTypeOK, IdentitiesOK, Numbered, PrivateIsAlone,
                               PurgesPrivate, BindingsCounted, Live, Bound, Id
<1>6. Ownership'
  BY <1>1, <1>2, Zenon DEF Ownership, OwnedIsPending, PendingHasOwner, SingleOwner, Absent
<1> QED BY <1>3, <1>4, <1>5, <1>6, Zenon DEF IInv

------------------------------------------------------------------------------
LEMMA InitInv == FiniteLaws /\ Init => IInv
<1> SUFFICES ASSUME FiniteLaws, Init PROVE IInv
  BY Zenon
<1> USE DEF Init, CacheInit
<1>1. reader \in [Reader -> ReaderState] /\ \A r \in Reader : reader[r].life = "new"
                                                       /\ reader[r].purge = {}
  BY CacheAssumption DEF ReaderState
<1>2. TypeOK
  <2>1. Absent \in Entry
    BY Zenon DEF Absent, Entry
  <2>2. entries \in [Key -> Entry]
    BY <2>1, Zenon
  <2>3. 0 \in 0 .. MaxId /\ 1 \in 1 .. MaxId + 1
    BY CacheAssumption
  <2>4. identities \in [Ident -> 0 .. MaxId] /\ nextIdentityId \in 1 .. MaxId + 1
    BY <2>3, Zenon
  <2>5. ahead \in [Key -> SUBSET Key] /\ waiters \in [Shard -> SUBSET Thread]
        /\ liveBindings \in Int
    OBVIOUS
  <2>6. read \in [Thread -> ReadState]
    BY NoReadType, Zenon
  <2> QED BY <1>1, <2>2, <2>4, <2>5, <2>6, Zenon DEF TypeOK, CacheTypeOK
<1>3. ReadsOK
  BY NoReadType, Zenon DEF ReadsOK, ReadOK, OwnsOK
<1>4. Numbered /\ PrivateIsAlone /\ PurgesPrivate
  BY <1>1 DEF Numbered, PrivateIsAlone, PurgesPrivate, Bound
<1>5. BindingsCounted
  <2>1. Live = {}
    BY <1>1, Zenon DEF Live
  <2> QED BY <2>1, FiniteEmpty, Zenon DEF BindingsCounted
<1>6. Ownership
  <2>1. \A t \in Thread : OwnedKeys(t) = {}
    BY NoReadType, Zenon DEF OwnedKeys
  <2> QED BY <2>1, Zenon DEF Ownership, OwnedIsPending, PendingHasOwner, SingleOwner, Absent
<1> QED BY <1>2, <1>3, <1>4, <1>5, <1>6, Zenon DEF IInv, IdentitiesOK

LEMMA StutterInv ==
  ASSUME IInv, UNCHANGED vars
  PROVE  IInv'
<1>1. waiters' \in [Shard -> SUBSET Thread] /\ UNCHANGED <<entries, ahead, identityVars, reader, read>>
  BY StoreType, Zenon DEF vars, cacheVars, identityVars, StoreTypeOK
<1> QED BY <1>1, WaitersOnly, Zenon

LEMMA NextInv == FiniteLaws /\ IInv /\ [Next]_vars => IInv'
<1> SUFFICES ASSUME FiniteLaws, IInv, [Next]_vars PROVE IInv'
  BY Zenon
<1>1. ASSUME NEW r \in Reader, Open(r) \/ Close(r) \/ ClosePurge(r) \/ CloseUnbind(r)
      PROVE  IInv'
  BY <1>1, OpenInv, CloseInv, ClosePurgeInv, CloseUnbindInv, Zenon
<1>2. ASSUME NEW t \in Thread, StartRead(t) \/ SpuriousWake(t)
      PROVE  IInv'
  BY <1>2, StartReadInv, SpuriousWakeInv, Zenon
<1>3. ASSUME NEW t \in Thread, Step(t)
      PROVE  IInv'
  <2>1. CASE BypassRead(t) \/ AcquireOne(t) \/ HitOne(t) \/ HitMismatch(t) \/ ReadDirect(t)
    BY <2>1, BypassReadInv, AcquireOneInv, HitOneInv, HitMismatchInv, ReadDirectInv, Zenon
  <2>2. CASE AcquireEnd(t) \/ LoadOne(t) \/ LoadEnd(t) \/ FetchOne(t) \/ FetchEnd(t)
    BY <2>2, AcquireEndInv, LoadOneInv, LoadEndInv, FetchOneInv, FetchEndInv, Zenon
  <2>3. CASE PublishOne(t) \/ PublishEnd(t) \/ Throws(t) \/ AwaitHit(t) \/ AwaitMiss(t)
    BY <2>3, PublishOneInv, PublishEndInv, ThrowsInv, AwaitHitInv, AwaitMissInv, Zenon
  <2>4. CASE AwaitPending(t) \/ AwaitEnd(t) \/ AbandonOne(t) \/ AbandonEnd(t)
               \/ FallbackEnd(t) \/ Return(t)
    BY <2>4, AwaitPendingInv, AwaitEndInv, AbandonOneInv, AbandonEndInv, FallbackEndInv, ReturnInv, Zenon
  <2> QED BY <1>3, <2>1, <2>2, <2>3, <2>4, Zenon DEF Step
<1>4. CASE Configure
  BY <1>4, ConfigureInv, Zenon
<1>5. CASE UNCHANGED vars
  BY <1>5, StutterInv, Zenon
<1> QED BY <1>1, <1>2, <1>3, <1>4, <1>5, Zenon DEF Next, Finished

------------------------------------------------------------------------------
\* What becomes of an entry.

\* Publish fills its own entry, evicts others and leaves the rest.
LEMMA PublishWrites ==
  ASSUME NEW k \in Key, NEW len, NEW rev, StoreTypeOK, Publish(k, len, rev), NEW j \in Key
  PROVE  \/ entries'[j] = entries[j]
         \/ entries'[j].state = "absent"
         \/ j = k /\ entries'[j].state = "resident" /\ entries'[j].rev = rev
<1>1. CASE PublishIgnored(k)
  BY <1>1, Zenon DEF PublishIgnored
<1>2. CASE PublishFills(k, len, rev)
  <2> DEFINE filled == [entries EXCEPT ![k] = Resident(len, rev)]
  <2>1. PICK victims : entries' = Erased(filled, victims)
    BY Zenon, <1>2 DEF PublishFills
  <2>2. filled[j] = IF j = k THEN Resident(len, rev) ELSE entries[j]
    BY Zenon DEF StoreTypeOK
  <2>3. /\ Resident(len, rev).state = "resident" /\ Resident(len, rev).rev = rev
        /\ Absent.state = "absent"
    BY Zenon DEF Resident, Absent
  <2> HIDE DEF filled
  <2>4. entries'[j] = IF j \in victims THEN Absent ELSE filled[j]
    BY <2>1, Zenon DEF Erased
  <2> QED BY <2>2, <2>3, <2>4, Zenon
<1> QED BY <1>1, <1>2, Zenon DEF Publish

\* Who may write entry k, and what: a thread in a read under its number claims
\* it, or publishes a block it owns.
Claims(t, b, k) == entries'[k].state = "pending"
Fills(t, b, k) ==
  /\ entries'[k].state = "resident"
  /\ b \in read[t].owned
  /\ \/ read[t].pc = "load" /\ entries'[k].rev = AssetOf(t).rev
     \/ /\ read[t].pc = "publish" /\ \E c \in read[t].fetched : b <= c
        /\ entries'[k].rev = IF b \in read[t].fetched THEN AssetOf(t).rev ELSE NoRev
Writes(t, b, k) == read[t].pc # "idle" /\ k = KeyOf(t, b) /\ (Claims(t, b, k) \/ Fills(t, b, k))

EntryStep(k) ==
  \/ entries'[k] = entries[k]
  \/ entries'[k].state = "absent"
  \/ \E t \in Thread, b \in Block : Writes(t, b, k)

\* The loops that take, load, publish and abandon blocks.
LEMMA StepWrites ==
  ASSUME IInv, NEW t \in Thread, NEW k \in Key,
         AcquireOne(t) \/ LoadOne(t) \/ PublishOne(t) \/ AbandonOne(t)
  PROVE  EntryStep(k)
<1>1. StoreTypeOK
  BY StoreType, Zenon
<1>2. read[t].owned \subseteq Block /\ read[t].todo \subseteq Block
  BY ReadType, Zenon
<1>3. CASE AcquireOne(t)
  <2>1. PICK b \in read[t].todo : AcquireOwned(KeyOf(t, b)) \/ AcquireBusy(KeyOf(t, b))
    BY <1>3, Zenon DEF AcquireOne
  <2>2. read[t].pc # "idle" /\ b \in Block /\ KeyOf(t, b) \in Key
    BY <1>2, <1>3, ReadingThread, Zenon DEF AcquireOne
  <2>3. CASE AcquireOwned(KeyOf(t, b))
    BY <1>1, <2>2, <2>3, AcquireOwnedEffect, Zenon DEF EntryStep, Writes, Claims
  <2>4. CASE AcquireBusy(KeyOf(t, b))
    BY <2>4, Zenon DEF AcquireBusy, cacheVars, EntryStep
  <2> QED BY <2>1, <2>3, <2>4, Zenon
<1>4. CASE LoadOne(t)
  <2>1. PICK b \in read[t].todo :
          \/ Publish(KeyOf(t, b), Extent(t, b).length, AssetOf(t).rev)
          \/ UNCHANGED cacheVars
    BY Zenon, <1>4 DEF LoadOne
  <2>2. /\ read[t].pc = "load" /\ b \in Block /\ KeyOf(t, b) \in Key
        /\ b \in read[t].owned
    BY <1>2, <1>4, ReadingThread, Zenon DEF LoadOne, IInv, ReadsOK, ReadOK, OwnsOK
  <2>3. CASE Publish(KeyOf(t, b), Extent(t, b).length, AssetOf(t).rev)
    <3>1. PICK len, rev : rev = AssetOf(t).rev /\ Publish(KeyOf(t, b), len, rev)
      BY <2>3, Zenon
    <3>2. \/ entries'[k] = entries[k]
          \/ entries'[k].state = "absent"
          \/ k = KeyOf(t, b) /\ entries'[k].state = "resident" /\ entries'[k].rev = rev
      BY <1>1, <2>2, <3>1, PublishWrites
    <3> QED BY <2>2, <3>1, <3>2, Zenon DEF EntryStep, Writes, Fills
  <2>4. CASE UNCHANGED cacheVars
    BY <2>4, Zenon DEF cacheVars, EntryStep
  <2> QED BY <2>1, <2>3, <2>4, Zenon
<1>5. CASE PublishOne(t)
  <2> DEFINE Bytes(b) == IF b \in read[t].fetched THEN AssetOf(t).rev ELSE NoRev
  <2>1. PICK b \in read[t].owned :
          /\ \E c \in read[t].fetched : b <= c
          /\ Publish(KeyOf(t, b), Extent(t, b).length, Bytes(b))
    BY Zenon, <1>5 DEF PublishOne
  <2>2. read[t].pc = "publish" /\ b \in Block /\ KeyOf(t, b) \in Key
    BY <1>2, <1>5, ReadingThread, Zenon DEF PublishOne
  <2>3. \/ entries'[k] = entries[k]
        \/ entries'[k].state = "absent"
        \/ k = KeyOf(t, b) /\ entries'[k].state = "resident" /\ entries'[k].rev = Bytes(b)
    <3>1. PICK len, rev : rev = Bytes(b) /\ Publish(KeyOf(t, b), len, rev)
      BY <2>1, Zenon
    <3> HIDE DEF Bytes
    <3> QED BY <1>1, <2>2, <3>1, PublishWrites
  <2>4. CASE k = KeyOf(t, b) /\ entries'[k].state = "resident" /\ entries'[k].rev = Bytes(b)
    <3>1. Fills(t, b, k)
      BY <2>1, <2>2, <2>4, Zenon DEF Fills
    <3> QED BY <2>2, <2>4, <3>1, Zenon DEF EntryStep, Writes
  <2> QED BY <2>3, <2>4, Zenon DEF EntryStep
<1>6. CASE AbandonOne(t)
  <2>1. PICK b \in read[t].owned : Abandon(KeyOf(t, b))
    BY <1>6, Zenon DEF AbandonOne
  <2> QED BY <1>1, <2>1, Zenon DEF Abandon, EntryStep, Absent, StoreTypeOK
<1> QED BY <1>3, <1>4, <1>5, <1>6, Zenon

\* Every other step leaves the entries alone, or erases some.
LEMMA EntriesStep ==
  ASSUME IInv, [Next]_vars, NEW k \in Key
  PROVE  EntryStep(k)
<1>1. ASSUME UNCHANGED entries PROVE EntryStep(k)
  BY <1>1, Zenon DEF EntryStep
<1>2. ASSUME NEW r \in Reader, Open(r) \/ Close(r) \/ CloseUnbind(r) PROVE EntryStep(k)
  BY <1>1, <1>2, Zenon DEF Open, Close, CloseUnbind, cacheVars
<1>3. ASSUME NEW r \in Reader, ClosePurge(r) PROVE EntryStep(k)
  <2>1. PICK s \in reader[r].purge : PurgeShard(reader[r].id, s)
    BY <1>3, Zenon DEF ClosePurge
  <2> QED BY StoreType, <2>1, Zenon DEF PurgeShard, Erased, Absent, EntryStep, StoreTypeOK
<1>4. ASSUME NEW t \in Thread, StartRead(t) \/ SpuriousWake(t) PROVE EntryStep(k)
  BY <1>1, <1>4, Zenon DEF StartRead, SpuriousWake, cacheVars
<1>5. ASSUME NEW t \in Thread, Step(t) PROVE EntryStep(k)
  <2>1. CASE AcquireOne(t) \/ LoadOne(t) \/ PublishOne(t) \/ AbandonOne(t)
    BY <2>1, StepWrites, Zenon
  <2>2. CASE BypassRead(t) \/ HitOne(t) \/ HitMismatch(t) \/ ReadDirect(t) \/ AcquireEnd(t)
               \/ LoadEnd(t) \/ FetchOne(t) \/ FetchEnd(t)
    BY <1>1, <2>2, Zenon DEF BypassRead, HitOne, HitMismatch, ReadDirect, AcquireEnd, LoadEnd, FetchOne,
                      FetchEnd, AcquireHit, cacheVars
  <2>3. CASE PublishEnd(t) \/ Throws(t) \/ AwaitHit(t) \/ AwaitMiss(t) \/ AwaitPending(t)
               \/ AwaitEnd(t) \/ AbandonEnd(t) \/ FallbackEnd(t) \/ Return(t)
    BY <1>1, <2>3, Zenon DEF PublishEnd, Throws, AwaitHit, AwaitMiss, AwaitPending, AwaitEnd, AbandonEnd,
                      FallbackEnd, Return, AwaitPublished, AwaitGone, AwaitSleep, cacheVars
  <2> QED BY <1>5, <2>1, <2>2, <2>3, Zenon DEF Step
<1>6. CASE Configure
  BY <1>6, Zenon DEF Configure, ConfigureProcess, Absent, EntryStep
<1>7. CASE UNCHANGED vars
  BY <1>1, <1>7, Zenon DEF vars, cacheVars
<1> QED BY <1>2, <1>3, <1>4, <1>5, <1>6, <1>7, Zenon DEF Next, Finished

------------------------------------------------------------------------------
\* A private identity takes its blocks along.

\* The stripes ~Binding has been through hold nothing under its number.
Gone(r, k) ==
  \/ reader[r].life = "closed"
  \/ reader[r].life = "closing" /\ ShardFor(k) \notin reader[r].purge
Purged ==
  \A r \in Reader, k \in Key :
    Gone(r, k) /\ ~IsShareable(reader[r].asset.validator) /\ k[1] = reader[r].id
      => entries[k].state = "absent"

\* Nobody writes under the private number of a reader that is closed or closing.
LEMMA NoneWritesPrivate ==
  ASSUME IInv, NEW r \in Reader, NEW k \in Key, reader[r].life \in {"closing", "closed"},
         ~IsShareable(reader[r].asset.validator), k[1] = reader[r].id, EntryStep(k),
         entries[k].state = "absent"
  PROVE  entries'[k].state = "absent"
<1>1. ASSUME NEW t \in Thread, NEW b \in Block, Writes(t, b, k) PROVE FALSE
  <2>1. /\ read[t].reader \in Reader /\ reader[read[t].reader].life = "open"
        /\ k[1] = reader[read[t].reader].id
    BY <1>1, ReadingThread, Zenon DEF Writes, KeyOf
  <2> QED BY <2>1, Zenon DEF IInv, IdentitiesOK, PrivateIsAlone, Bound
<1> QED BY <1>1, Zenon DEF EntryStep

\* What a step of the life of a reader does to the readers.
LEMMA LivesStep ==
  ASSUME IInv, NEW r \in Reader, Open(r) \/ Close(r) \/ ClosePurge(r) \/ CloseUnbind(r)
  PROVE  /\ \A q \in Reader \ {r} : reader'[q] = reader[q]
         /\ reader'[r].asset = reader[r].asset
         /\ \/ Open(r) /\ reader'[r].life = "open"
            \/ /\ Close(r) /\ reader'[r].life = "closing" /\ reader'[r].id = reader[r].id
               /\ ~IsShareable(reader[r].asset.validator) => reader'[r].purge = Shard
            \/ /\ ClosePurge(r) /\ reader'[r].life = "closing" /\ reader'[r].id = reader[r].id
               /\ \E s \in reader[r].purge : /\ reader'[r].purge = reader[r].purge \ {s}
                                             /\ PurgeShard(reader[r].id, s)
            \/ /\ CloseUnbind(r) /\ reader[r].life = "closing" /\ reader[r].purge = {}
               /\ reader'[r].life = "closed" /\ reader'[r].id = reader[r].id
<1>1. reader \in [Reader -> ReaderState]
  BY Zenon DEF IInv, TypeOK
<1>2. CASE Open(r)
  <2>1. PICK id : reader' = [reader EXCEPT ![r].life = "open", ![r].id = id]
    BY <1>2, Zenon DEF Open
  <2> QED BY <1>1, <1>2, <2>1, Zenon DEF ReaderState
<1>3. CASE Close(r)
  <2>1. PICK purge : /\ reader' = [reader EXCEPT ![r].life = "closing", ![r].purge = purge]
                     /\ ~IsShareable(reader[r].asset.validator) => purge = Shard
    BY <1>3, Zenon DEF Close
  <2> QED BY <1>1, <1>3, <2>1, Zenon DEF ReaderState
<1>4. CASE ClosePurge(r)
  <2>1. PICK s \in reader[r].purge : /\ PurgeShard(reader[r].id, s)
                                     /\ reader' = [reader EXCEPT ![r].purge = @ \ {s}]
    BY <1>4, Zenon DEF ClosePurge
  <2>2. reader[r].life = "closing"
    BY <1>4, Zenon DEF ClosePurge
  <2> QED BY <1>1, <1>4, <2>1, <2>2, Zenon DEF ReaderState
<1>5. CASE CloseUnbind(r)
  BY <1>1, <1>5, Zenon DEF CloseUnbind, ReaderState
<1> QED BY <1>2, <1>3, <1>4, <1>5, Zenon

LEMMA PurgedNext == IInv /\ Purged /\ [Next]_vars => Purged'
<1> SUFFICES ASSUME IInv, Purged, [Next]_vars, NEW r \in Reader, NEW k \in Key,
                    Gone(r, k)', ~IsShareable(reader'[r].asset.validator), k[1] = reader'[r].id
             PROVE  entries'[k].state = "absent"
  BY Zenon DEF Purged
<1>1. EntryStep(k)
  BY EntriesStep, Zenon
<1>2. ASSUME reader'[r] = reader[r] PROVE entries'[k].state = "absent"
  <2>1. reader[r].life \in {"closing", "closed"} /\ entries[k].state = "absent"
    BY <1>2, Zenon DEF Purged, Gone
  <2> QED BY <1>1, <1>2, <2>1, NoneWritesPrivate, Zenon
<1>3. ASSUME NEW q \in Reader, Open(q) \/ Close(q) \/ ClosePurge(q) \/ CloseUnbind(q)
      PROVE  entries'[k].state = "absent"
  <2>1. CASE q # r
    BY <1>2, <1>3, <2>1, LivesStep, Zenon
  <2>2. CASE q = r /\ Open(r)
    BY <2>2, LivesStep, Zenon DEF Gone, Open, Close, ClosePurge, CloseUnbind
  <2>3. CASE q = r /\ Close(r)
    <3>1. reader'[r].life = "closing" /\ reader'[r].purge = Shard
      BY <2>3, LivesStep, Zenon DEF Open, Close, ClosePurge, CloseUnbind
    <3> QED BY <3>1, CacheAssumption, Zenon DEF Gone
  <2>4. CASE q = r /\ ClosePurge(r)
    <3>1. PICK s \in reader[r].purge :
            /\ reader'[r].purge = reader[r].purge \ {s} /\ PurgeShard(reader[r].id, s)
            /\ reader'[r].asset = reader[r].asset /\ reader'[r].id = reader[r].id
            /\ reader'[r].life = "closing" /\ reader[r].life = "closing"
      BY <2>4, LivesStep, Zenon DEF Open, Close, ClosePurge, CloseUnbind
    <3>2. CASE ShardFor(k) = s
      BY <3>1, <3>2, Zenon DEF PurgeShard, Erased, Absent
    <3>3. CASE ShardFor(k) # s
      <4>1. Gone(r, k) /\ reader[r].life = "closing"
        BY <3>1, <3>3, Zenon DEF Gone
      <4>2. entries[k].state = "absent"
        BY <3>1, <4>1, Zenon DEF Purged
      <4> QED BY <1>1, <3>1, <4>1, <4>2, NoneWritesPrivate, Zenon
    <3> QED BY <3>2, <3>3, Zenon
  <2>5. CASE q = r /\ CloseUnbind(r)
    <3>1. /\ reader[r].life = "closing" /\ reader[r].purge = {} /\ UNCHANGED entries
          /\ reader'[r].asset = reader[r].asset /\ reader'[r].id = reader[r].id
      BY <2>5, LivesStep, Zenon DEF Open, Close, ClosePurge, CloseUnbind, cacheVars
    <3> QED BY <3>1, Zenon DEF Purged, Gone
  <2> QED BY <1>3, <2>1, <2>2, <2>3, <2>4, <2>5, Zenon
<1>4. ASSUME NEW t \in Thread, StartRead(t) \/ Step(t) \/ SpuriousWake(t)
      PROVE  UNCHANGED reader
  BY <1>4, Zenon DEF StartRead, SpuriousWake, Step, BypassRead, AcquireOne, HitOne, HitMismatch, ReadDirect,
              AcquireEnd, LoadOne, LoadEnd, FetchOne, FetchEnd, PublishOne, PublishEnd, Throws,
              AwaitHit, AwaitMiss, AwaitPending, AwaitEnd, AbandonOne, AbandonEnd, FallbackEnd, Return
<1>5. CASE Configure \/ UNCHANGED vars
  BY <1>2, <1>5, Zenon DEF Configure, vars
<1> QED BY <1>2, <1>3, <1>4, <1>5, Zenon DEF Next, Finished

------------------------------------------------------------------------------
\* What is in the store is of the revision its readers opened.

\* Readers under one number are of one revision, and a number is interned for
\* an identity only by a reader of it.
OneRevision ==
  \A q, r \in Reader : Bound(q) /\ Bound(r) /\ reader[q].id = reader[r].id
                         => reader[q].asset.rev = reader[r].asset.rev
Interned ==
  \A i \in Ident : identities[i] # 0 =>
    \E q \in Reader : /\ Bound(q) /\ IsShareable(reader[q].asset.validator)
                      /\ reader[q].asset.ident = i /\ reader[q].id = identities[i]
Shares == OneRevision /\ Interned

\* A resident block is of the revision of a reader of its number.
Faithful ==
  \A k \in Key : entries[k].state = "resident" =>
    \E q \in Reader : Bound(q) /\ reader[q].id = k[1] /\ entries[k].rev = reader[q].asset.rev

\* Only readers change the readers.
LEMMA ReadersKept ==
  ASSUME NEW t \in Thread, StartRead(t) \/ Step(t) \/ SpuriousWake(t)
  PROVE  UNCHANGED <<reader, identityVars>>
  BY Zenon DEF StartRead, SpuriousWake, Step, BypassRead, AcquireOne, HitOne, HitMismatch, ReadDirect,
         AcquireEnd, LoadOne, LoadEnd, FetchOne, FetchEnd, PublishOne, PublishEnd, Throws,
         AwaitHit, AwaitMiss, AwaitPending, AwaitEnd, AbandonOne, AbandonEnd, FallbackEnd, Return

\* A reader keeps its asset, and once bound its number.
LEMMA BoundKept ==
  ASSUME IInv, [Next]_vars
  PROVE  \A q \in Reader : /\ reader'[q].asset = reader[q].asset
                           /\ Bound(q) => Bound(q)' /\ reader'[q].id = reader[q].id
<1>1. ASSUME NEW r \in Reader, Open(r) \/ Close(r) \/ ClosePurge(r) \/ CloseUnbind(r)
      PROVE  \A q \in Reader : /\ reader'[q].asset = reader[q].asset
                               /\ Bound(q) => Bound(q)' /\ reader'[q].id = reader[q].id
  <2>1. \A q \in Reader \ {r} : reader'[q] = reader[q]
    BY <1>1, LivesStep, Zenon
  <2>2. /\ reader'[r].asset = reader[r].asset
        /\ Bound(r) => Bound(r)' /\ reader'[r].id = reader[r].id
    BY <1>1, LivesStep, Zenon DEF Bound, Open
  <2> QED BY <2>1, <2>2, Zenon DEF Bound
<1>2. ASSUME UNCHANGED reader
      PROVE  \A q \in Reader : /\ reader'[q].asset = reader[q].asset
                               /\ Bound(q) => Bound(q)' /\ reader'[q].id = reader[q].id
  BY <1>2, Zenon DEF Bound
<1>3. ASSUME NEW t \in Thread, StartRead(t) \/ Step(t) \/ SpuriousWake(t)
      PROVE  UNCHANGED reader
  BY <1>3, ReadersKept, Zenon
<1>4. CASE Configure \/ UNCHANGED vars
  BY <1>2, <1>4, Zenon DEF Configure, vars
<1> QED BY <1>1, <1>2, <1>3, <1>4, Zenon DEF Next, Finished

\* Open works under a number nobody has, or under one interned for its identity:
\* then the reader that interned it captured the same strong validator.
LEMMA OpenShares ==
  ASSUME IInv, Shares, NEW r \in Reader, Open(r)
  PROVE  Shares'
<1> DEFINE i  == reader[r].asset.ident
           v  == reader[r].asset.validator
           id == BoundId(i, v)
<1>1. /\ reader[r].life = "new" /\ Bind(i, v)
      /\ reader' = [reader EXCEPT ![r].life = "open", ![r].id = id]
  BY Zenon DEF Open
<1>2. /\ reader \in [Reader -> ReaderState] /\ i \in Ident /\ id \in Id
      /\ reader[r].asset \in Asset
  BY <1>1, ReaderAssumption, Zenon DEF IInv, TypeOK, ReaderState, AssetType, Bind
<1>3. /\ reader'[r].life = "open" /\ reader'[r].id = id /\ reader'[r].asset = reader[r].asset
      /\ \A q \in Reader \ {r} : reader'[q] = reader[q]
  <2> HIDE DEF i, v, id
  <2> QED BY <1>1, <1>2, Zenon DEF ReaderState
<1>4. \A j \in Ident : \/ identities'[j] = identities[j]
                       \/ j = i /\ IsShareable(v) /\ identities'[j] = id
  BY <1>1, <1>2, Zenon DEF Bind, IInv, TypeOK, CacheTypeOK
<1>5. ASSUME NEW q \in Reader, Bound(q), reader[q].id = id
      PROVE  reader[q].asset.rev = reader[r].asset.rev
  <2>1. IsShareable(v) /\ identities[i] # 0 /\ id = identities[i]
    <3>1. reader[q].id < nextIdentityId /\ nextIdentityId \in Int /\ reader[q].id \in Int
      BY <1>5, CacheAssumption DEF IInv, IdentitiesOK, Numbered, TypeOK, CacheTypeOK, Id
    <3>2. id # nextIdentityId
      BY <1>5, <3>1
    <3> QED BY <3>2, Zenon DEF BoundId
  <2>2. PICK p \in Reader : /\ Bound(p) /\ IsShareable(reader[p].asset.validator)
                            /\ reader[p].asset.ident = i /\ reader[p].id = id
    BY <1>2, <2>1 DEF Shares, Interned
  <2>3. reader[p].asset \in Asset
    BY <1>2, Zenon DEF ReaderState
  <2>4. reader[p].asset.rev = reader[r].asset.rev
    BY <1>2, <2>1, <2>2, <2>3, ReaderAssumption, Zenon
  <2>5. reader[q].asset.rev = reader[p].asset.rev
    BY <1>5, <2>2, Zenon DEF Shares, OneRevision
  <2> QED BY <2>4, <2>5, Zenon
<1> HIDE DEF i, v, id
<1>6. OneRevision'
  BY <1>3, <1>5 DEF Shares, OneRevision, Bound
<1>7. Interned'
  <2> SUFFICES ASSUME NEW j \in Ident, identities'[j] # 0
               PROVE  \E q \in Reader :
                        /\ Bound(q)' /\ IsShareable(reader'[q].asset.validator)
                        /\ reader'[q].asset.ident = j /\ reader'[q].id = identities'[j]
    BY Zenon DEF Interned
  <2>1. CASE identities'[j] = identities[j]
    <3>1. PICK q \in Reader : /\ Bound(q) /\ IsShareable(reader[q].asset.validator)
                              /\ reader[q].asset.ident = j /\ reader[q].id = identities[j]
      BY <2>1, Zenon DEF Shares, Interned
    <3>2. reader'[q] = reader[q]
      BY <1>1, <1>3, <3>1, Zenon DEF Bound
    <3> QED BY <2>1, <3>1, <3>2, Zenon DEF Bound
  <2>2. CASE j = i /\ IsShareable(v) /\ identities'[j] = id
    BY <1>3, <2>2, Zenon DEF Bound, i, v
  <2> QED BY <1>4, <2>1, <2>2, Zenon
<1> QED BY <1>6, <1>7, Zenon DEF Shares

LEMMA SharesNext == IInv /\ Shares /\ [Next]_vars => Shares'
<1> SUFFICES ASSUME IInv, Shares, [Next]_vars PROVE Shares'
  BY Zenon
<1>1. ASSUME \A q \in Reader : /\ Bound(q)' <=> Bound(q)
                               /\ reader'[q].asset = reader[q].asset
                               /\ Bound(q) => reader'[q].id = reader[q].id,
             UNCHANGED identities \/ \A i \in Ident : identities'[i] = 0
      PROVE  Shares'
  <2>1. OneRevision'
    <3> SUFFICES ASSUME NEW q \in Reader, NEW r \in Reader, Bound(q)', Bound(r)',
                        reader'[q].id = reader'[r].id
                 PROVE  reader'[q].asset.rev = reader'[r].asset.rev
      BY Zenon DEF OneRevision
    <3>1. Bound(q) /\ Bound(r) /\ reader[q].id = reader[r].id
      BY <1>1, Zenon DEF Bound
    <3> QED BY <1>1, <3>1, Zenon DEF Shares, OneRevision
  <2>2. Interned'
    <3> SUFFICES ASSUME NEW i \in Ident, identities'[i] # 0
                 PROVE  \E q \in Reader :
                          /\ Bound(q)' /\ IsShareable(reader'[q].asset.validator)
                          /\ reader'[q].asset.ident = i /\ reader'[q].id = identities'[i]
      BY Zenon DEF Interned
    <3>1. identities' = identities
      BY <1>1, Zenon
    <3>2. PICK q \in Reader : /\ Bound(q) /\ IsShareable(reader[q].asset.validator)
                              /\ reader[q].asset.ident = i /\ reader[q].id = identities[i]
      BY <3>1, Zenon DEF Shares, Interned
    <3> QED BY <1>1, <3>1, <3>2, Zenon DEF Bound
  <2> QED BY <2>1, <2>2, Zenon DEF Shares
<1>2. ASSUME NEW r \in Reader, Open(r) PROVE Shares'
  BY <1>2, OpenShares, Zenon
<1>3. ASSUME NEW r \in Reader, Close(r) \/ ClosePurge(r) \/ CloseUnbind(r) PROVE Shares'
  <2>1. UNCHANGED identities
    BY <1>3, Zenon DEF Close, ClosePurge, CloseUnbind, Unbind, identityVars
  <2>2. reader[r].life # "new" /\ \A q \in Reader \ {r} : reader'[q] = reader[q]
    BY <1>3, LivesStep, Zenon DEF Close, ClosePurge, CloseUnbind
  <2> QED BY <1>1, <2>1, <2>2, BoundKept, Zenon DEF Bound
<1>4. ASSUME UNCHANGED <<reader, identities>> PROVE Shares'
  BY <1>1, <1>4, Zenon DEF Bound
<1>5. ASSUME NEW t \in Thread, StartRead(t) \/ Step(t) \/ SpuriousWake(t) PROVE Shares'
  BY <1>4, <1>5, ReadersKept, Zenon DEF identityVars
<1>6. CASE Configure
  <2>1. UNCHANGED reader /\ \A i \in Ident : identities'[i] = 0
    BY <1>6, Zenon DEF Configure, ConfigureProcess
  <2> QED BY <1>1, <2>1, Zenon DEF Bound
<1>7. CASE UNCHANGED vars
  BY <1>4, <1>7, Zenon DEF vars, identityVars
<1> QED BY <1>2, <1>3, <1>5, <1>6, <1>7, Zenon DEF Next, Finished

------------------------------------------------------------------------------
(***************************************************************************)
(* The account of a stripe.  That it is over budget only with one block    *)
(* needs that its LRU list is in order, which is transitive: what          *)
(* EvictLocked pops is then the back of the list, up to the first key that *)
(* fits.                                                                   *)
(***************************************************************************)

LruOf(e, s) == {k \in Key : ShardFor(k) = s /\ e[k].state = "resident"}

\* The keys of a list are in order: of any two one is ahead of the other.
InOrder(a, lru) ==
  /\ \A k \in lru : a[k] \subseteq lru \ {k}
  /\ \A j, k \in lru : j \in a[k] => k \notin a[j]
  /\ Lined(lru, a)

\* One more key in front.
LEMMA FrontInOrder ==
  ASSUME NEW a, NEW lru \in SUBSET Key, InOrder(a, lru), NEW k \in Key,
         NEW b, b = InFront(a, lru, k)
  PROVE  InOrder(b, lru \cup {k}) /\ b[k] = {}
<1>1. /\ b[k] = {} /\ \A j \in lru : j # k => b[j] = a[j] \cup {k}
  BY Zenon DEF InFront
<1>2. PICK all : all = lru \cup {k}
  BY Zenon
<1>3. \A j \in all : j = k \/ (j # k /\ j \in lru /\ b[j] = a[j] \cup {k})
  BY <1>1, <1>2, Zenon
<1>4. \A j \in lru : a[j] \subseteq lru \ {j}
  BY Zenon DEF InOrder
<1>5. \A j \in all : b[j] \subseteq all \ {j}
  <2> SUFFICES ASSUME NEW j \in all, NEW i \in b[j]
               PROVE  i \in all /\ i # j
    BY Zenon
  <2>1. j # k /\ j \in lru /\ b[j] = a[j] \cup {k}
    BY <1>1, <1>3, Zenon
  <2>2. i = k \/ (i \in lru /\ i # j)
    BY <1>4, <2>1, Zenon
  <2> QED BY <1>2, <2>1, <2>2, Zenon
<1>6. \A i, j \in all : i \in b[j] => j \notin b[i]
  <2> SUFFICES ASSUME NEW i \in all, NEW j \in all, i \in b[j], j \in b[i]
               PROVE  FALSE
    BY Zenon
  <2>1. i # k /\ j # k
    BY <1>1, Zenon
  <2>2. i \in a[j] /\ j \in a[i] /\ i \in lru /\ j \in lru
    BY <1>3, <2>1, Zenon
  <2> QED BY <2>2, Zenon DEF InOrder
<1>7. Lined(all, b)
  <2>1. ASSUME NEW i \in all, NEW j \in all, i # j
        PROVE  i \in b[j] \/ j \in b[i]
    <3>1. CASE i = k \/ j = k
      BY <1>3, <2>1, <3>1, Zenon
    <3>2. CASE i # k /\ j # k
      <4>1. i \in lru /\ j \in lru /\ b[i] = a[i] \cup {k} /\ b[j] = a[j] \cup {k}
        BY <1>3, <3>2, Zenon
      <4>2. i \in a[j] \/ j \in a[i]
        BY <2>1, <4>1, Zenon DEF InOrder, Lined
      <4> QED BY <4>1, <4>2, Zenon
    <3> QED BY <3>1, <3>2, Zenon
  <2>2. ASSUME NEW i \in all, NEW j \in all, NEW m \in all, i \in b[j], j \in b[m]
        PROVE  i \in b[m]
    <3>1. j # k /\ m # k
      BY <1>1, <2>2, Zenon
    <3>2. j \in lru /\ m \in lru /\ j \in a[m] /\ b[m] = a[m] \cup {k} /\ b[j] = a[j] \cup {k}
      BY <1>3, <2>2, <3>1, Zenon
    <3>3. CASE i = k
      BY <3>2, <3>3, Zenon
    <3>4. CASE i # k
      BY <1>3, <2>2, <3>2, <3>4, Zenon DEF InOrder, Lined
    <3> QED BY <3>3, <3>4, Zenon
  <2> QED BY <2>1, <2>2, Zenon DEF Lined
<1> QED BY <1>1, <1>2, <1>5, <1>6, <1>7, Zenon DEF InOrder

\* Some keys less.
LEMMA WithoutInOrder ==
  ASSUME NEW a, NEW lru \in SUBSET Key, InOrder(a, lru), NEW keys,
         NEW b, b = Without(a, keys)
  PROVE  InOrder(b, lru \ keys)
<1>1. \A j \in lru \ keys : b[j] = a[j] \ keys /\ j \in lru /\ j \notin keys
  BY Zenon DEF Without
<1>2. PICK left : left = lru \ keys
  BY Zenon
<1>3. \A j \in left : b[j] \subseteq left \ {j}
  <2> SUFFICES ASSUME NEW j \in left, NEW i \in b[j]
               PROVE  i \in left /\ i # j
    BY Zenon
  <2>1. j \in lru /\ i \in a[j] /\ i \notin keys
    BY <1>1, <1>2, Zenon
  <2> QED BY <1>2, <2>1, Zenon DEF InOrder
<1>4. \A i, j \in left : i \in b[j] => j \notin b[i]
  BY <1>1, <1>2, Zenon DEF InOrder
<1>5. Lined(left, b)
  <2>1. ASSUME NEW i \in left, NEW j \in left, i # j
        PROVE  i \in b[j] \/ j \in b[i]
    <3>1. i \in a[j] \/ j \in a[i]
      BY <1>2, <2>1, Zenon DEF InOrder, Lined
    <3> QED BY <1>1, <1>2, <3>1, Zenon
  <2>2. ASSUME NEW i \in left, NEW j \in left, NEW m \in left, i \in b[j], j \in b[m]
        PROVE  i \in b[m]
    <3>1. i \in a[j] /\ j \in a[m] /\ i \notin keys
      BY <1>1, <1>2, <2>2, Zenon
    <3>2. i \in a[m]
      BY <1>2, <3>1, Zenon DEF InOrder, Lined
    <3> QED BY <1>1, <1>2, <3>1, <3>2, Zenon
  <2> QED BY <2>1, <2>2, Zenon DEF Lined
<1> QED BY <1>2, <1>3, <1>4, <1>5, Zenon DEF InOrder

\* The order is one of the keys of the list.
LEMMA SameOrder ==
  ASSUME NEW a, NEW lru, InOrder(a, lru), NEW b, \A k \in lru : b[k] = a[k]
  PROVE  InOrder(b, lru)
BY Zenon DEF InOrder, Lined

\* The bytes of some blocks.
Lengths(e) == \A k \in Key : e[k].len \in Nat

LEMMA BytesTyped ==
  ASSUME FiniteSums, NEW e, Lengths(e), NEW keys \in SUBSET Key, IsFiniteSet(keys)
  PROVE  BytesOf(e, keys) \in Nat
<1>1. PICK f : f = [k \in Key |-> e[k].len]
  BY Zenon
<1>2. \A k \in keys : f[k] \in Nat
  BY <1>1, Zenon DEF Lengths
<1>3. SumsTyped(keys)
  BY Zenon DEF FiniteSums, SumLaws
<1> QED BY <1>1, <1>2, <1>3, Zenon DEF SumsTyped, BytesOf

SplitsBytes(e, keys, part) ==
  /\ BytesOf(e, part) \in Nat /\ BytesOf(e, keys \ part) \in Nat
  /\ BytesOf(e, keys) = BytesOf(e, part) + BytesOf(e, keys \ part)

LEMMA BytesSplit ==
  ASSUME FiniteLaws, FiniteSums, NEW e, Lengths(e), NEW keys \in SUBSET Key, IsFiniteSet(keys),
         NEW part \in SUBSET keys
  PROVE  SplitsBytes(e, keys, part)
<1>1. PICK f : f = [k \in Key |-> e[k].len]
  BY Zenon
<1>2. \A k \in keys : f[k] \in Int
  BY <1>1 DEF Lengths
<1>3. SumsSplit(keys)
  BY Zenon DEF FiniteSums, SumLaws
<1>4. IsFiniteSet(part) /\ IsFiniteSet(keys \ part) /\ part \in SUBSET Key /\ keys \ part \in SUBSET Key
  BY FiniteSubset, Zenon
<1>5. BytesOf(e, keys) = BytesOf(e, part) + BytesOf(e, keys \ part)
  BY <1>1, <1>2, <1>3, Zenon DEF SumsSplit, BytesOf
<1>6. BytesOf(e, part) \in Nat /\ BytesOf(e, keys \ part) \in Nat
  BY <1>4, BytesTyped, Zenon
<1> QED BY <1>5, <1>6, Zenon DEF SplitsBytes

LEMMA BytesSame ==
  ASSUME FiniteSums, NEW e, Lengths(e), NEW keys \in SUBSET Key, IsFiniteSet(keys),
         NEW d, \A k \in keys : d[k].len = e[k].len
  PROVE  BytesOf(d, keys) = BytesOf(e, keys)
<1>1. PICK f, g : f = [k \in Key |-> e[k].len] /\ g = [k \in Key |-> d[k].len]
  BY Zenon
<1>2. \A k \in keys : f[k] \in Int /\ g[k] = f[k]
  BY <1>1 DEF Lengths
<1>3. SumsExtend(keys)
  BY Zenon DEF FiniteSums, SumLaws
<1>4. SumFunctionOnSet(g, keys) = SumFunctionOnSet(f, keys)
  BY <1>2, <1>3, Zenon DEF SumsExtend
<1> QED BY <1>1, <1>4, Zenon DEF BytesOf

JoinsBytes(e, keys, k, d) == BytesOf(d, keys \cup {k}) = BytesOf(e, keys) + d[k].len

LEMMA BytesAdd ==
  ASSUME FiniteSums, NEW e, Lengths(e), NEW keys \in SUBSET Key, IsFiniteSet(keys),
         NEW k \in Key, k \notin keys, NEW d, d[k].len \in Nat,
         \A j \in keys : d[j].len = e[j].len
  PROVE  JoinsBytes(e, keys, k, d)
<1>1. PICK f, g : f = [j \in Key |-> e[j].len] /\ g = [j \in Key |-> d[j].len]
  BY Zenon
<1>2. g[k] = d[k].len /\ g[k] \in Int /\ \A j \in keys : f[j] \in Int /\ g[j] = f[j]
  BY <1>1 DEF Lengths
<1>3. SumsAdd(keys)
  BY Zenon DEF FiniteSums, SumLaws
<1>4. SumFunctionOnSet(g, keys \cup {k}) = SumFunctionOnSet(f, keys) + g[k]
  <2>1. k \notin keys /\ g[k] \in Int /\ \A j \in keys : f[j] \in Int /\ g[j] = f[j]
    BY <1>2, Zenon
  <2>2. \A x : x \notin keys /\ g[x] \in Int /\ (\A j \in keys : f[j] \in Int /\ g[j] = f[j])
          => SumFunctionOnSet(g, keys \cup {x}) = SumFunctionOnSet(f, keys) + g[x]
    BY <1>3, Zenon DEF SumsAdd
  <2> QED BY <2>1, <2>2, Zenon
<1> QED BY <1>1, <1>2, <1>4, Zenon DEF BytesOf, JoinsBytes

LEMMA BytesNone ==
  ASSUME FiniteLaws, FiniteSums, NEW e
  PROVE  BytesOf(e, {}) = 0
<1>1. SumsVanish({})
  BY FiniteEmpty, Zenon DEF FiniteSums, SumLaws
<1> QED BY <1>1, Zenon DEF SumsVanish, BytesOf

LEMMA FiniteOne == ASSUME FiniteLaws, NEW x PROVE IsFiniteSet({x}) /\ Cardinality({x}) = 1
<1>1. IsFiniteSet({}) /\ Cardinality({}) = 0
  BY FiniteEmpty, Zenon
<1>2. AddLaw
  BY Zenon DEF FiniteLaws
<1>3. IsFiniteSet({} \cup {x}) /\ Cardinality({} \cup {x}) = Cardinality({}) + 1
  BY <1>1, <1>2, Zenon DEF AddLaw
<1>4. {} \cup {x} = {x}
  BY Zenon
<1> QED BY <1>1, <1>3, <1>4

\* What EvictLocked leaves is within the budget, or the front alone.
LeftFits(e, lru, gone) == BytesOf(e, lru \ gone) > ShardBudget => Cardinality(lru \ gone) = 1

LEMMA EvictFits ==
  ASSUME FiniteLaws, FiniteSums,
         NEW e, Lengths(e), NEW a, NEW lru \in SUBSET Key, IsFiniteSet(lru),
         InOrder(a, lru), NEW k \in lru, a[k] = {},
         NEW n, n = BytesOf(e, lru), NEW gone, gone = EvictLocked(e, a, lru, n)
  PROVE  LeftFits(e, lru, gone)
<1>1. gone \subseteq lru /\ k \notin gone
  BY Zenon DEF EvictLocked
<1>2. PICK left : left = lru \ gone
  BY Zenon
<1>3. IsFiniteSet(left) /\ left # {} /\ left \subseteq lru
  BY <1>1, <1>2, FiniteSubset, Zenon
<1>4. Lined(left, a)
  BY <1>3, Zenon DEF InOrder, Lined
<1>5. LastLaw
  BY Zenon DEF FiniteLaws
<1>6. PICK j : IsLast(j, left, a)
  BY <1>3, <1>4, <1>5, Zenon DEF LastLaw
<1>7. j \in left /\ j \in lru /\ j \notin gone
  BY <1>2, <1>6, Zenon DEF IsLast
<1>8. CASE left = {j}
  <2>1. Cardinality(left) = 1
    BY <1>8, FiniteOne, Zenon
  <2> QED BY <1>2, <2>1, Zenon DEF LeftFits
<1>9. CASE left # {j}
  <2>1. PICK i \in left : i # j
    BY <1>7, <1>9, Zenon
  <2>2. a[j] # {}
    BY <1>6, <2>1, Zenon DEF IsLast
  <2>3. PICK behind : behind = {m \in lru : j \in a[m]}
    BY Zenon
  <2>4. ~(n - BytesOf(e, behind) > ShardBudget)
    BY <1>7, <2>2, <2>3, Zenon DEF EvictLocked
  <2>5. behind \subseteq gone
    <3> SUFFICES ASSUME NEW m \in lru, j \in a[m], m \notin gone
                 PROVE  FALSE
      BY <2>3, Zenon
    <3>1. m \in left /\ m # j
      BY <1>2, Zenon DEF InOrder
    <3>2. m \in a[j]
      BY <1>6, <3>1, Zenon DEF IsLast
    <3> QED BY <1>7, <3>2, Zenon DEF InOrder
  <2>6. /\ BytesOf(e, gone) \in Nat /\ BytesOf(e, left) \in Nat
        /\ BytesOf(e, lru) = BytesOf(e, gone) + BytesOf(e, left)
    <3>1. SplitsBytes(e, lru, gone)
      BY <1>1, BytesSplit, Zenon
    <3> QED BY <1>2, <3>1, Zenon DEF SplitsBytes
  <2>7. gone \in SUBSET Key /\ IsFiniteSet(gone)
    BY <1>1, FiniteSubset, Zenon
  <2>8. /\ BytesOf(e, behind) \in Nat /\ BytesOf(e, gone \ behind) \in Nat
        /\ BytesOf(e, gone) = BytesOf(e, behind) + BytesOf(e, gone \ behind)
    <3>1. SplitsBytes(e, gone, behind)
      BY <2>5, <2>7, BytesSplit, Zenon
    <3> QED BY <3>1, Zenon DEF SplitsBytes
  <2>9. ~(BytesOf(e, left) > ShardBudget)
    BY <2>4, <2>6, <2>8, CacheAssumption
  <2> QED BY <1>2, <2>9, Zenon DEF LeftFits
<1> QED BY <1>8, <1>9, Zenon

\* One stripe: its list is finite and in order, its counter is right, and it
\* is over budget only with one block.
StripeOK(e, a, n, s) ==
  LET lru == LruOf(e, s)
  IN  /\ IsFiniteSet(lru) /\ InOrder(a, lru)
      /\ n = BytesOf(e, lru)
      /\ n > ShardBudget => Cardinality(lru) = 1

\* A stripe whose list, lengths and order are as before.
SameList(e, a, d, b, s) ==
  /\ \A k \in Key : ShardFor(k) = s => (d[k].state = "resident" <=> e[k].state = "resident")
  /\ \A k \in LruOf(e, s) : d[k].len = e[k].len /\ b[k] = a[k]

LEMMA SameStripe ==
  ASSUME FiniteSums, NEW e, Lengths(e), NEW a, NEW n, NEW s, StripeOK(e, a, n, s),
         NEW d, NEW b, SameList(e, a, d, b, s)
  PROVE  StripeOK(d, b, n, s)
<1>1. LruOf(d, s) = LruOf(e, s)
  BY Zenon DEF LruOf, SameList
<1>2. PICK lru : lru = LruOf(e, s)
  BY Zenon
<1>3. lru \in SUBSET Key /\ IsFiniteSet(lru) /\ InOrder(a, lru)
  BY <1>2, Zenon DEF LruOf, StripeOK
<1>4. BytesOf(d, lru) = BytesOf(e, lru)
  BY <1>2, <1>3, BytesSame, Zenon DEF SameList
<1>5. InOrder(b, lru)
  BY <1>2, <1>3, SameOrder, Zenon DEF SameList
<1> QED BY <1>1, <1>2, <1>3, <1>4, <1>5, Zenon DEF StripeOK

\* A stripe that loses some of its blocks.
LEMMA ErasedStripe ==
  ASSUME FiniteLaws, FiniteSums, NEW e, Lengths(e), NEW a, NEW s, NEW lru, lru = LruOf(e, s),
         IsFiniteSet(lru), InOrder(a, lru), NEW gone, LeftFits(e, lru, gone)
  PROVE  StripeOK(Erased(e, gone), Without(a, gone), BytesOf(e, lru \ gone), s)
<1>1. PICK d : d = Erased(e, gone)
  BY Zenon
<1>2. \A k \in Key : d[k] = IF k \in gone THEN Absent ELSE e[k]
  BY <1>1, Zenon DEF Erased
<1>3. Absent.state # "resident"
  BY DEF Absent
<1>4. \A k \in Key : d[k].state = "resident" <=> (k \notin gone /\ e[k].state = "resident")
  BY <1>2, <1>3, Zenon
<1>5. LruOf(d, s) = lru \ gone
  BY <1>4, Zenon DEF LruOf
<1>6. PICK left : left = lru \ gone
  BY Zenon
<1>7. lru \in SUBSET Key /\ left \in SUBSET Key /\ IsFiniteSet(left)
  BY <1>6, FiniteSubset, Zenon DEF LruOf
<1>8. \A k \in left : d[k].len = e[k].len
  BY <1>2, <1>6, <1>7, Zenon
<1>9. BytesOf(d, left) = BytesOf(e, left)
  BY <1>7, <1>8, BytesSame, Zenon
<1>10. InOrder(Without(a, gone), left)
  BY <1>6, <1>7, WithoutInOrder, Zenon
<1> QED BY <1>1, <1>5, <1>6, <1>7, <1>9, <1>10, Zenon DEF StripeOK, LeftFits

\* The account of all stripes.  A block that is not in a list is ahead of none.
StripesOf(e, a, n, total) ==
  /\ n \in [Shard -> Nat]
  /\ total = SumFunctionOnSet(n, Shard)
  /\ \A s \in Shard : StripeOK(e, a, n[s], s)
  /\ \A k \in Key : e[k].state # "resident" => a[k] = {}
Stripes == StripesOf(entries, ahead, residentBytes, residentTotal)

LEMMA EmptyStripes ==
  ASSUME FiniteLaws, FiniteSums, NEW e, e = [k \in Key |-> Absent],
         NEW a, a = [k \in Key |-> {}], NEW n, n = [s \in Shard |-> 0]
  PROVE  StripesOf(e, a, n, 0)
<1>1. Absent.state # "resident"
  BY DEF Absent
<1>2. \A s \in Shard : LruOf(e, s) = {}
  BY <1>1, Zenon DEF LruOf
<1>3. InOrder(a, {})
  BY Zenon DEF InOrder, Lined
<1>4. ~(0 > ShardBudget)
  BY CacheAssumption
<1>5. \A s \in Shard : n[s] = 0
  BY Zenon
<1>6. \A s \in Shard : StripeOK(e, a, n[s], s)
  BY <1>2, <1>3, <1>4, <1>5, FiniteEmpty, BytesNone, Zenon DEF StripeOK
<1>7. SumsVanish(Shard)
  BY CacheAssumption, Zenon DEF FiniteSums, SumLaws
<1>8. SumFunctionOnSet(n, Shard) = 0
  BY <1>5, <1>7, Zenon DEF SumsVanish
<1>9. n \in [Shard -> Nat]
  OBVIOUS
<1> QED BY <1>6, <1>8, <1>9, Zenon DEF StripesOf

LEMMA StripesTyped ==
  ASSUME FiniteSums, StoreTypeOK, Stripes
  PROVE  /\ Lengths(entries) /\ residentBytes \in [Shard -> Nat] /\ residentTotal \in Nat
         /\ \A s \in Shard : StripeOK(entries, ahead, residentBytes[s], s)
<1>1. residentBytes \in [Shard -> Nat] /\ residentTotal = SumFunctionOnSet(residentBytes, Shard)
  BY Zenon DEF Stripes, StripesOf
<1>2. \A s \in Shard : residentBytes[s] \in Nat
  BY <1>1, Zenon
<1>3. SumsTyped(Shard)
  BY CacheAssumption, Zenon DEF FiniteSums, SumLaws
<1>4. residentTotal \in Nat
  BY <1>1, <1>2, <1>3, Zenon DEF SumsTyped
<1>5. Lengths(entries)
  BY DEF StoreTypeOK, Entry, Lengths
<1> QED BY <1>1, <1>4, <1>5, Zenon DEF Stripes, StripesOf

\* Only blocks of its own stripe are ahead of a block.
LEMMA AheadInStripe ==
  ASSUME Stripes, NEW j \in Key, NEW i \in ahead[j]
  PROVE  i \in Key /\ ShardFor(i) = ShardFor(j) /\ entries[i].state = "resident"
<1>1. entries[j].state = "resident"
  BY Zenon DEF Stripes, StripesOf
<1>2. ShardFor(j) \in Shard /\ j \in LruOf(entries, ShardFor(j))
  BY <1>1, CacheAssumption, Zenon DEF LruOf
<1>3. InOrder(ahead, LruOf(entries, ShardFor(j)))
  BY <1>2, Zenon DEF Stripes, StripesOf, StripeOK
<1>4. i \in LruOf(entries, ShardFor(j))
  BY <1>2, <1>3, Zenon DEF InOrder
<1> QED BY <1>4, Zenon DEF LruOf

\* Critical sections of one stripe leave the others alone.
ElsewhereSame(s) ==
  /\ \A k \in Key : ShardFor(k) # s => entries'[k] = entries[k] /\ ahead'[k] = ahead[k]
  /\ \A q \in Shard : q # s => residentBytes'[q] = residentBytes[q]

LEMMA OneStripe ==
  ASSUME FiniteLaws, FiniteSums, StoreTypeOK, Stripes, NEW s \in Shard, ElsewhereSame(s),
         residentBytes' \in [Shard -> Nat],
         residentTotal' = residentTotal - residentBytes[s] + residentBytes'[s],
         StripeOK(entries', ahead', residentBytes'[s], s),
         \A k \in Key : entries'[k].state # "resident" => ahead'[k] = {}
  PROVE  Stripes'
<1>1. /\ Lengths(entries) /\ residentBytes \in [Shard -> Nat]
      /\ \A q \in Shard : StripeOK(entries, ahead, residentBytes[q], q)
  BY StripesTyped, Zenon
<1>2. ASSUME NEW q \in Shard, q # s
      PROVE  StripeOK(entries', ahead', residentBytes'[q], q)
  <2>1. \A k \in Key : ShardFor(k) = q => entries'[k] = entries[k] /\ ahead'[k] = ahead[k]
    BY <1>2, Zenon DEF ElsewhereSame
  <2>2. \A k \in LruOf(entries, q) : entries'[k].len = entries[k].len /\ ahead'[k] = ahead[k]
    BY <2>1, Zenon DEF LruOf
  <2>3. \A k \in Key : ShardFor(k) = q =>
          (entries'[k].state = "resident" <=> entries[k].state = "resident")
    BY <2>1, Zenon
  <2>4. StripeOK(entries', ahead', residentBytes[q], q)
    <3>1. SameList(entries, ahead, entries', ahead', q)
      BY <2>2, <2>3, Zenon DEF SameList
    <3> QED BY <1>1, <3>1, SameStripe, Zenon
  <2> QED BY <1>2, <2>4, Zenon DEF ElsewhereSame
<1>3. \A q \in Shard : StripeOK(entries', ahead', residentBytes'[q], q)
  BY <1>2, Zenon
<1>4. residentTotal' = SumFunctionOnSet(residentBytes', Shard)
  <2>1. SumsUpdate(Shard)
    BY CacheAssumption, Zenon DEF FiniteSums, SumLaws
  <2>2. \A q \in Shard : residentBytes[q] \in Int /\ residentBytes'[q] \in Int
    BY <1>1
  <2>3. \A q \in Shard : q # s => residentBytes'[q] = residentBytes[q]
    BY Zenon DEF ElsewhereSame
  <2>4. SumFunctionOnSet(residentBytes', Shard)
          = SumFunctionOnSet(residentBytes, Shard) - residentBytes[s] + residentBytes'[s]
    BY <2>1, <2>2, <2>3, Zenon DEF SumsUpdate
  <2> QED BY <2>4, Zenon DEF Stripes, StripesOf
<1> QED BY <1>3, <1>4, Zenon DEF Stripes, StripesOf

\* Blocks that are in no list come and go.
LEMMA OutsideStripes ==
  ASSUME FiniteSums, StoreTypeOK, Stripes, UNCHANGED <<ahead, residentBytes, residentTotal>>,
         \A k \in Key : \/ entries'[k] = entries[k]
                        \/ entries[k].state # "resident" /\ entries'[k].state # "resident"
  PROVE  Stripes'
<1>1. /\ Lengths(entries) /\ residentBytes \in [Shard -> Nat]
      /\ \A q \in Shard : StripeOK(entries, ahead, residentBytes[q], q)
  BY StripesTyped, Zenon
<1>2. \A k \in Key : entries'[k].state = "resident" <=> entries[k].state = "resident"
  BY Zenon
<1>3. ASSUME NEW q \in Shard PROVE StripeOK(entries', ahead', residentBytes'[q], q)
  <2>1. \A k \in LruOf(entries, q) : entries'[k].len = entries[k].len /\ ahead'[k] = ahead[k]
    BY Zenon DEF LruOf
  <2>2. SameList(entries, ahead, entries', ahead', q)
    BY <1>2, <2>1, Zenon DEF SameList
  <2>3. StripeOK(entries', ahead', residentBytes[q], q)
    BY <1>1, <2>2, SameStripe, Zenon
  <2> QED BY <2>3, Zenon
<1> QED BY <1>1, <1>2, <1>3, Zenon DEF Stripes, StripesOf

LEMMA TouchStripes ==
  ASSUME FiniteLaws, FiniteSums, StoreTypeOK, Stripes, NEW k \in Key,
         entries[k].state = "resident", TouchLocked(k),
         UNCHANGED <<entries, residentBytes, residentTotal>>
  PROVE  Stripes'
<1>1. PICK s : s = ShardFor(k)
  BY Zenon
<1>2. PICK lru : lru = LruOf(entries, s)
  BY Zenon
<1>3. s \in Shard /\ lru \in SUBSET Key /\ k \in lru /\ lru \cup {k} = lru
  BY <1>1, <1>2, CacheAssumption, Zenon DEF LruOf
<1>4. ahead' = InFront(ahead, lru, k)
  BY <1>1, <1>2, Zenon DEF TouchLocked, InLru, LruOf
<1>5. /\ residentBytes \in [Shard -> Nat] /\ residentTotal \in Nat
      /\ StripeOK(entries, ahead, residentBytes[s], s)
  BY <1>3, StripesTyped, Zenon
<1>6. InOrder(ahead', lru)
  <2>1. InOrder(ahead, lru)
    BY <1>2, <1>5, Zenon DEF StripeOK
  <2>2. InOrder(ahead', lru \cup {k})
    BY <1>3, <1>4, <2>1, FrontInOrder, Zenon
  <2> QED BY <1>3, <2>2, Zenon
<1>7. StripeOK(entries', ahead', residentBytes'[s], s)
  BY <1>2, <1>5, <1>6, Zenon DEF StripeOK
<1>8. \A j \in Key : j \notin lru => ahead'[j] = ahead[j]
  BY <1>3, <1>4, Zenon DEF InFront
<1>9. ElsewhereSame(s)
  BY <1>2, <1>8, Zenon DEF ElsewhereSame, LruOf
<1>10. \A j \in Key : entries'[j].state # "resident" => ahead'[j] = {}
  BY <1>2, <1>8, Zenon DEF LruOf, Stripes, StripesOf
<1>11. residentTotal' = residentTotal - residentBytes[s] + residentBytes'[s]
  BY <1>3, <1>5
<1>12. residentBytes' \in [Shard -> Nat]
  BY <1>5, Zenon
<1> QED BY <1>3, <1>7, <1>9, <1>10, <1>11, <1>12, OneStripe, Zenon

\* What a stripe loses is nothing to the others.
LEMMA LosesBlocks ==
  ASSUME Stripes, NEW s, NEW gone, \A k \in Key \cap gone : ShardFor(k) = s,
         NEW a, \A k \in Key : ShardFor(k) # s => a[k] = ahead[k],
         NEW k \in Key, ShardFor(k) # s
  PROVE  Without(a, gone)[k] = ahead[k]
<1>1. Without(a, gone)[k] = ahead[k] \ gone
  BY Zenon DEF Without
<1>2. \A i \in ahead[k] : i \notin gone
  BY AheadInStripe, Zenon
<1>3. ahead[k] \ gone = ahead[k]
  BY <1>2, Zenon
<1> QED BY <1>1, <1>3, Zenon

LEMMA PublishStripes ==
  ASSUME FiniteLaws, FiniteSums, StoreTypeOK, Stripes, NEW k \in Key, NEW len \in Nat, NEW rev,
         PublishFills(k, len, rev)
  PROVE  Stripes'
<1>1. PICK s : s = ShardFor(k)
  BY Zenon
<1>2. PICK filled : filled = [entries EXCEPT ![k] = Resident(len, rev)]
  BY Zenon
<1>3. PICK list : list = LruOf(entries, s)
  BY Zenon
<1>4. PICK lru : lru = list \cup {k}
  BY Zenon
<1>5. PICK order : order = InFront(ahead, list, k)
  BY Zenon
<1>6. PICK n : n = residentBytes[s] + len
  BY Zenon
<1>7. PICK gone : gone = EvictLocked(filled, order, lru, n)
  BY Zenon
<1>8. PICK freed : freed = BytesOf(filled, gone)
  BY Zenon
<1>9. /\ entries[k].state = "pending"
      /\ entries' = Erased(filled, gone)
      /\ ahead' = Without(order, gone)
      /\ residentBytes' = [residentBytes EXCEPT ![s] = n - freed]
      /\ residentTotal' = residentTotal + len - freed
  <2>1. InLru(s) = list
    BY <1>3, Zenon DEF InLru, LruOf
  <2> QED BY <1>1, <1>2, <1>4, <1>5, <1>6, <1>7, <1>8, <2>1, Zenon DEF PublishFills
<1>10. /\ Lengths(entries) /\ residentBytes \in [Shard -> Nat] /\ residentTotal \in Nat
       /\ s \in Shard /\ StripeOK(entries, ahead, residentBytes[s], s)
  BY <1>1, CacheAssumption, StripesTyped, Zenon
<1>11. /\ filled[k].state = "resident" /\ filled[k].len = len
       /\ \A j \in Key : j # k => filled[j] = entries[j]
  BY <1>2 DEF StoreTypeOK, Resident
<1>12. Lengths(filled)
  BY <1>10, <1>11, Zenon DEF Lengths
<1>13. k \notin list /\ list \in SUBSET Key /\ lru \in SUBSET Key /\ lru = LruOf(filled, s)
  <2>1. k \notin list /\ list \in SUBSET Key /\ lru \in SUBSET Key
    BY <1>3, <1>4, <1>9 DEF LruOf
  <2>2. \A j \in Key : j \in lru <=> ShardFor(j) = s /\ filled[j].state = "resident"
    BY <1>1, <1>3, <1>4, <1>11, Zenon DEF LruOf
  <2>3. lru = LruOf(filled, s)
    BY <2>1, <2>2, Zenon DEF LruOf
  <2> QED BY <2>1, <2>3, Zenon
<1>14. IsFiniteSet(list) /\ InOrder(ahead, list) /\ residentBytes[s] = BytesOf(entries, list)
  BY <1>3, <1>10, Zenon DEF StripeOK
<1>15. IsFiniteSet(lru) /\ k \in lru
  BY <1>4, <1>14, FiniteAdd, Zenon
<1>16. InOrder(order, lru) /\ order[k] = {}
  <2>1. InOrder(order, list \cup {k})
    BY <1>5, <1>13, <1>14, FrontInOrder, Zenon
  <2> QED BY <1>4, <1>5, <2>1, Zenon DEF InFront
<1>17. n = BytesOf(filled, lru)
  <2>1. \A j \in list : filled[j].len = entries[j].len
    BY <1>11, <1>13, Zenon
  <2>2. filled[k].len \in Nat
    BY <1>11, Zenon
  <2>3. JoinsBytes(entries, list, k, filled)
    BY <1>10, <1>13, <1>14, <2>1, <2>2, BytesAdd, Zenon
  <2> QED BY <1>4, <1>6, <1>11, <1>14, <2>3, Zenon DEF JoinsBytes
<1>18. gone \subseteq lru /\ k \notin gone /\ LeftFits(filled, lru, gone)
  <2>1. LeftFits(filled, lru, gone)
    BY <1>7, <1>12, <1>13, <1>15, <1>16, <1>17, EvictFits, Zenon
  <2> QED BY <1>7, <1>16, <2>1, Zenon DEF EvictLocked
<1>19. StripeOK(entries', ahead', BytesOf(filled, lru \ gone), s)
  <2>1. StripeOK(Erased(filled, gone), Without(order, gone), BytesOf(filled, lru \ gone), s)
    BY <1>12, <1>13, <1>15, <1>16, <1>18, ErasedStripe, Zenon
  <2> QED BY <1>9, <2>1, Zenon
<1>20. freed \in Nat /\ BytesOf(filled, lru \ gone) \in Nat /\ n = freed + BytesOf(filled, lru \ gone)
  <2>1. SplitsBytes(filled, lru, gone)
    BY <1>12, <1>13, <1>15, <1>18, BytesSplit, Zenon
  <2> QED BY <1>8, <1>17, <2>1, Zenon DEF SplitsBytes
<1>21. /\ residentBytes'[s] = BytesOf(filled, lru \ gone)
       /\ residentBytes' \in [Shard -> Nat]
       /\ residentTotal' = residentTotal - residentBytes[s] + residentBytes'[s]
       /\ \A q \in Shard : q # s => residentBytes'[q] = residentBytes[q]
  <2>1. PICK m : m = BytesOf(filled, lru \ gone)
    BY Zenon
  <2> QED BY <1>6, <1>9, <1>10, <1>20, <2>1
<1>22. \A j \in Key : /\ j \in lru => ShardFor(j) = s
                      /\ j \notin lru => order[j] = ahead[j] /\ j # k
  BY <1>1, <1>3, <1>4, <1>5, Zenon DEF LruOf, InFront
<1>23. ElsewhereSame(s)
  <2>1. ASSUME NEW j \in Key, ShardFor(j) # s PROVE entries'[j] = entries[j]
    BY <1>9, <1>11, <1>18, <1>22, <2>1, Zenon DEF Erased
  <2>2. ASSUME NEW j \in Key, ShardFor(j) # s PROVE ahead'[j] = ahead[j]
    <3>1. \A i \in Key \cap gone : ShardFor(i) = s
      BY <1>18, <1>22, Zenon
    <3>2. \A i \in Key : ShardFor(i) # s => order[i] = ahead[i]
      BY <1>22, Zenon
    <3> QED BY <1>9, <2>2, <3>1, <3>2, LosesBlocks, Zenon
  <2> QED BY <1>21, <2>1, <2>2, Zenon DEF ElsewhereSame
<1>24. ASSUME NEW j \in Key, entries'[j].state # "resident" PROVE ahead'[j] = {}
  <2>1. CASE j \in gone
    BY <1>9, <2>1, Zenon DEF Without
  <2>2. CASE j \notin gone
    <3>1. entries'[j] = filled[j]
      BY <1>9, <2>2, Zenon DEF Erased
    <3>2. j # k /\ entries[j].state # "resident"
      BY <1>11, <1>24, <3>1, Zenon
    <3>3. j \notin lru
      BY <1>3, <1>4, <3>2, Zenon DEF LruOf
    <3>4. order[j] = {}
      BY <1>22, <3>2, <3>3, Zenon DEF Stripes, StripesOf
    <3> QED BY <1>9, <2>2, <3>4, Zenon DEF Without
  <2> QED BY <2>1, <2>2, Zenon
<1>25. StripeOK(entries', ahead', residentBytes'[s], s)
  BY <1>19, <1>21, Zenon
<1> QED BY <1>10, <1>21, <1>23, <1>24, <1>25, OneStripe, Zenon

LEMMA PurgeStripes ==
  ASSUME FiniteLaws, FiniteSums, StoreTypeOK, Stripes, NEW id, NEW s \in Shard, PurgeShard(id, s)
  PROVE  Stripes'
<1>1. PICK lru : lru = LruOf(entries, s)
  BY Zenon
<1>2. PICK mine : mine = {k \in Key : k[1] = id /\ ShardFor(k) = s}
  BY Zenon
<1>3. PICK counted : counted = mine \cap lru
  BY Zenon
<1>4. PICK freed : freed = BytesOf(entries, counted)
  BY Zenon
<1>5. /\ entries' = Erased(entries, mine)
      /\ ahead' = Without(ahead, mine)
      /\ residentBytes' = [residentBytes EXCEPT ![s] = @ - freed]
      /\ residentTotal' = residentTotal - freed
  <2>1. InLru(s) = lru
    BY <1>1, Zenon DEF InLru, LruOf
  <2> QED BY <1>2, <1>3, <1>4, <2>1, Zenon DEF PurgeShard
<1>6. /\ Lengths(entries) /\ residentBytes \in [Shard -> Nat] /\ residentTotal \in Nat
      /\ StripeOK(entries, ahead, residentBytes[s], s)
  BY StripesTyped, Zenon
<1>7. /\ lru \in SUBSET Key /\ IsFiniteSet(lru) /\ InOrder(ahead, lru)
      /\ residentBytes[s] = BytesOf(entries, lru)
      /\ residentBytes[s] > ShardBudget => Cardinality(lru) = 1
  BY <1>1, <1>6, Zenon DEF StripeOK, LruOf
<1>8. PICK left : left = lru \ mine
  BY Zenon
<1>9. left = lru \ counted /\ counted \in SUBSET lru
  BY <1>3, <1>8, Zenon
<1>10. /\ freed \in Nat /\ BytesOf(entries, left) \in Nat
       /\ residentBytes[s] = freed + BytesOf(entries, left)
  <2>1. SplitsBytes(entries, lru, counted)
    BY <1>6, <1>7, <1>9, BytesSplit, Zenon
  <2> QED BY <1>4, <1>7, <1>9, <2>1, Zenon DEF SplitsBytes
<1>11. LeftFits(entries, lru, mine)
  <2> SUFFICES ASSUME BytesOf(entries, left) > ShardBudget PROVE Cardinality(left) = 1
    BY <1>8, Zenon DEF LeftFits
  <2>1. Cardinality(lru) = 1
    BY <1>6, <1>7, <1>10, CacheAssumption
  <2>2. IsFiniteSet(left) /\ Cardinality(left) <= Cardinality(lru)
    BY <1>7, <1>8, FiniteSubset, Zenon
  <2>3. BytesOf(entries, left) # 0
    BY <1>10, CacheAssumption
  <2>4. left # {}
    BY <2>3, BytesNone, Zenon
  <2>5. Cardinality(left) \in Nat /\ Cardinality(left) # 0
    BY <2>2, <2>4, FiniteEmpty, Zenon
  <2> QED BY <2>1, <2>2, <2>5
<1>12. StripeOK(entries', ahead', BytesOf(entries, left), s)
  BY <1>1, <1>5, <1>6, <1>7, <1>8, <1>11, ErasedStripe, Zenon
<1>13. /\ residentBytes'[s] = BytesOf(entries, left)
       /\ residentBytes' \in [Shard -> Nat]
       /\ residentTotal' = residentTotal - residentBytes[s] + residentBytes'[s]
       /\ \A q \in Shard : q # s => residentBytes'[q] = residentBytes[q]
  <2>1. PICK m : m = BytesOf(entries, left)
    BY Zenon
  <2> QED BY <1>5, <1>6, <1>10, <2>1
<1>14. ElsewhereSame(s)
  <2>1. \A k \in Key : ShardFor(k) # s => k \notin mine
    BY <1>2, Zenon
  <2>2. \A k \in Key : ShardFor(k) # s => entries'[k] = entries[k]
    BY <1>5, <2>1, Zenon DEF Erased
  <2>3. ASSUME NEW k \in Key, ShardFor(k) # s PROVE ahead'[k] = ahead[k]
    <3>1. \A i \in Key \cap mine : ShardFor(i) = s
      BY <2>1, Zenon
    <3>2. Without(ahead, mine)[k] = ahead[k]
      BY <2>3, <3>1, LosesBlocks, Zenon
    <3> QED BY <1>5, <3>2, Zenon
  <2> QED BY <1>13, <2>2, <2>3, Zenon DEF ElsewhereSame
<1>15. ASSUME NEW k \in Key, entries'[k].state # "resident" PROVE ahead'[k] = {}
  <2>1. CASE k \in mine
    BY <1>5, <2>1, Zenon DEF Without
  <2>2. CASE k \notin mine
    <3>1. ahead[k] = {}
      BY <1>5, <1>15, <2>2, Zenon DEF Erased, Stripes, StripesOf
    <3> QED BY <1>5, <2>2, <3>1, Zenon DEF Without
  <2> QED BY <2>1, <2>2, Zenon
<1>16. StripeOK(entries', ahead', residentBytes'[s], s)
  BY <1>12, <1>13, Zenon
<1> QED BY <1>13, <1>14, <1>15, <1>16, OneStripe, Zenon

LEMMA StripesInit == FiniteLaws /\ FiniteSums /\ Init => Stripes
<1> SUFFICES ASSUME FiniteLaws, FiniteSums, Init PROVE Stripes
  BY Zenon
<1>1. /\ entries = [k \in Key |-> Absent] /\ ahead = [k \in Key |-> {}]
      /\ residentBytes = [s \in Shard |-> 0] /\ residentTotal = 0
  BY Zenon DEF Init, CacheInit
<1> QED BY <1>1, EmptyStripes, Zenon DEF Stripes

\* The loops that take, load, publish and abandon blocks, and those that wait.
LEMMA LoopStripes ==
  ASSUME FiniteLaws, FiniteSums, IInv, Stripes, NEW t \in Thread,
         \/ AcquireOne(t) \/ HitOne(t) \/ HitMismatch(t) \/ LoadOne(t) \/ PublishOne(t)
         \/ AwaitHit(t) \/ AwaitMiss(t) \/ AwaitPending(t) \/ AbandonOne(t)
  PROVE  Stripes'
<1>1. StoreTypeOK /\ read[t].owned \subseteq Block /\ read[t].todo \subseteq Block
  BY StoreType, ReadType, Zenon
<1>2. read[t].pc # "idle"
  BY Zenon DEF AcquireOne, HitOne, HitMismatch, LoadOne, PublishOne, AwaitHit, AwaitMiss,
               AwaitPending, AbandonOne
<1>3. \A b \in Block : KeyOf(t, b) \in Key /\ Extent(t, b).length \in Nat
  BY <1>2, ReadingThread, ExtentType, Zenon
<1>4. ASSUME UNCHANGED <<entries, ahead, residentBytes, residentTotal>> PROVE Stripes'
  BY <1>4, Zenon DEF Stripes
<1>5. ASSUME NEW b \in Block, AcquireHit(KeyOf(t, b)) \/ AwaitPublished(KeyOf(t, b))
      PROVE  Stripes'
  BY <1>1, <1>3, <1>5, TouchStripes, Zenon DEF AcquireHit, AwaitPublished
<1>6. ASSUME NEW b \in Block, NEW rev, Publish(KeyOf(t, b), Extent(t, b).length, rev)
      PROVE  Stripes'
  <2>1. PICK k, len : k = KeyOf(t, b) /\ len = Extent(t, b).length
    BY Zenon
  <2>2. CASE PublishFills(k, len, rev)
    BY <1>1, <1>3, <2>1, <2>2, PublishStripes, Zenon
  <2>3. CASE PublishIgnored(k)
    BY <1>4, <2>3, Zenon DEF PublishIgnored
  <2> QED BY <1>6, <2>1, <2>2, <2>3, Zenon DEF Publish
<1>7. CASE AcquireOne(t)
  <2>1. PICK b \in Block : AcquireOwned(KeyOf(t, b)) \/ AcquireBusy(KeyOf(t, b))
    BY <1>1, <1>7, Zenon DEF AcquireOne
  <2>2. CASE AcquireOwned(KeyOf(t, b))
    <3>1. PICK k \in Key : k = KeyOf(t, b)
      BY <1>3, Zenon
    <3>2. AcquireOwned(k)
      BY <2>2, <3>1, Zenon
    <3>3. \A j \in Key : \/ entries'[j] = entries[j]
                         \/ entries[j].state # "resident" /\ entries'[j].state # "resident"
      BY <1>1, <3>2, AcquireOwnedEffect
    <3> QED BY <1>1, <3>2, <3>3, OutsideStripes, Zenon DEF AcquireOwned
  <2>3. CASE AcquireBusy(KeyOf(t, b))
    BY <1>4, <2>3, Zenon DEF AcquireBusy, cacheVars
  <2> QED BY <2>1, <2>2, <2>3, Zenon
<1>8. CASE HitOne(t) \/ HitMismatch(t)
  BY <1>1, <1>5, <1>8, Zenon DEF HitOne, HitMismatch
<1>9. CASE LoadOne(t)
  <2>1. PICK b \in Block : \/ Publish(KeyOf(t, b), Extent(t, b).length, AssetOf(t).rev)
                           \/ UNCHANGED cacheVars
    BY <1>1, <1>9, Zenon DEF LoadOne
  <2> QED BY <1>4, <1>6, <2>1, Zenon DEF cacheVars
<1>10. CASE PublishOne(t)
  <2>1. \E b \in Block : \E rev : Publish(KeyOf(t, b), Extent(t, b).length, rev)
    BY <1>1, <1>10, Zenon DEF PublishOne
  <2> QED BY <1>6, <2>1, Zenon
<1>11. CASE AwaitHit(t) \/ AwaitMiss(t) \/ AwaitPending(t)
  BY <1>1, <1>4, <1>5, <1>11, Zenon DEF AwaitHit, AwaitMiss, AwaitPending, AwaitGone, AwaitSleep, cacheVars
<1>12. CASE AbandonOne(t)
  <2>1. PICK b \in Block : Abandon(KeyOf(t, b))
    BY <1>1, <1>12, Zenon DEF AbandonOne
  <2>2. PICK k \in Key : k = KeyOf(t, b) /\ Abandon(k)
    BY <1>3, <2>1, Zenon
  <2>3. \A j \in Key : \/ entries'[j] = entries[j]
                       \/ entries[j].state # "resident" /\ entries'[j].state # "resident"
    BY <1>1, <2>2 DEF Abandon, Absent, StoreTypeOK
  <2> QED BY <1>1, <2>2, <2>3, OutsideStripes, Zenon DEF Abandon
<1> QED BY <1>7, <1>8, <1>9, <1>10, <1>11, <1>12, Zenon

LEMMA StripesNext == FiniteLaws /\ FiniteSums /\ IInv /\ Stripes /\ [Next]_vars => Stripes'
<1> SUFFICES ASSUME FiniteLaws, FiniteSums, IInv, Stripes, [Next]_vars PROVE Stripes'
  BY Zenon
<1>1. ASSUME UNCHANGED <<entries, ahead, residentBytes, residentTotal>> PROVE Stripes'
  BY <1>1, Zenon DEF Stripes
<1>2. ASSUME NEW r \in Reader, Open(r) \/ Close(r) \/ CloseUnbind(r) PROVE Stripes'
  BY <1>1, <1>2, Zenon DEF Open, Close, CloseUnbind, cacheVars
<1>3. ASSUME NEW r \in Reader, ClosePurge(r) PROVE Stripes'
  <2>1. PICK s \in reader[r].purge : PurgeShard(reader[r].id, s)
    BY <1>3, Zenon DEF ClosePurge
  <2>2. s \in Shard
    BY <2>1, Zenon DEF IInv, TypeOK, ReaderState
  <2> QED BY <2>1, <2>2, StoreType, PurgeStripes, Zenon
<1>4. ASSUME NEW t \in Thread, StartRead(t) \/ SpuriousWake(t) PROVE Stripes'
  BY <1>1, <1>4, Zenon DEF StartRead, SpuriousWake, cacheVars
<1>5. ASSUME NEW t \in Thread, Step(t) PROVE Stripes'
  <2>1. CASE \/ AcquireOne(t) \/ HitOne(t) \/ HitMismatch(t) \/ LoadOne(t) \/ PublishOne(t)
             \/ AwaitHit(t) \/ AwaitMiss(t) \/ AwaitPending(t) \/ AbandonOne(t)
    BY <2>1, LoopStripes, Zenon
  <2>2. CASE \/ BypassRead(t) \/ ReadDirect(t) \/ AcquireEnd(t) \/ LoadEnd(t) \/ FetchOne(t)
             \/ FetchEnd(t) \/ PublishEnd(t)
    BY <1>1, <2>2, Zenon DEF BypassRead, ReadDirect, AcquireEnd, LoadEnd, FetchOne, FetchEnd,
                             PublishEnd, cacheVars
  <2>3. CASE Throws(t) \/ AwaitEnd(t) \/ AbandonEnd(t) \/ FallbackEnd(t) \/ Return(t)
    BY <1>1, <2>3, Zenon DEF Throws, AwaitEnd, AbandonEnd, FallbackEnd, Return, cacheVars
  <2> QED BY <1>5, <2>1, <2>2, <2>3, Zenon DEF Step
<1>6. CASE Configure
  <2>1. /\ entries' = [k \in Key |-> Absent] /\ ahead' = [k \in Key |-> {}]
        /\ residentBytes' = [s \in Shard |-> 0] /\ residentTotal' = 0
    BY <1>6, Zenon DEF Configure, ConfigureProcess
  <2> QED BY <2>1, EmptyStripes, Zenon DEF Stripes
<1>7. CASE UNCHANGED vars
  BY <1>1, <1>7, Zenon DEF vars, cacheVars
<1> QED BY <1>2, <1>3, <1>4, <1>5, <1>6, <1>7, Zenon DEF Next, Finished

LEMMA StripesSound == Stripes => StripesAreSound
<1> SUFFICES ASSUME Stripes PROVE StripesAreSound
  BY Zenon
<1>1. \A s \in Shard : /\ residentBytes[s] = BytesOf(entries, InLru(s))
                       /\ residentBytes[s] > ShardBudget => Cardinality(InLru(s)) = 1
                       /\ InOrder(ahead, InLru(s))
  <2>1. \A s \in Shard : LruOf(entries, s) = InLru(s)
    BY Zenon DEF LruOf, InLru
  <2> QED BY <2>1, Zenon DEF Stripes, StripesOf, StripeOK
<1>2. residentTotal = SumFunctionOnSet(residentBytes, Shard)
  BY Zenon DEF Stripes, StripesOf
<1>3. ASSUME NEW k \in Key
      PROVE  ahead[k] \subseteq (IF entries[k].state = "resident" THEN InLru(ShardFor(k)) \ {k} ELSE {})
  <2>1. CASE entries[k].state = "resident"
    <3>1. ShardFor(k) \in Shard /\ k \in InLru(ShardFor(k))
      BY <2>1, CacheAssumption, Zenon DEF InLru
    <3> QED BY <1>1, <2>1, <3>1, Zenon DEF InOrder
  <2>2. CASE entries[k].state # "resident"
    BY <2>2, Zenon DEF Stripes, StripesOf
  <2> QED BY <2>1, <2>2, Zenon
<1>4. ASSUME NEW k \in Key, NEW j \in Key, j # k, ShardFor(j) = ShardFor(k),
             entries[k].state = "resident", entries[j].state = "resident"
      PROVE  (j \in ahead[k]) # (k \in ahead[j])
  <2>1. PICK lru : lru = InLru(ShardFor(k))
    BY Zenon
  <2>2. j \in lru /\ k \in lru /\ InOrder(ahead, lru)
    BY <1>1, <1>4, <2>1, CacheAssumption, Zenon DEF InLru
  <2>3. (j \in ahead[k] \/ k \in ahead[j]) /\ ~(j \in ahead[k] /\ k \in ahead[j])
    BY <1>4, <2>2, Zenon DEF InOrder, Lined
  <2> QED BY <2>3, Zenon
<1> QED BY <1>1, <1>2, <1>3, <1>4, Zenon DEF StripesAreSound
==============================================================================

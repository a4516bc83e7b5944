--------------------------- MODULE CachedAssetReader ---------------------------
(***************************************************************************)
(* Threads reading through cached readers over one block store             *)
(* (libs/usd-asset-cache/src/CachedAssetReader.cpp).  A reader is opened   *)
(* on an asset, bound to an identity, read by any number of threads, and   *)
(* closed.  One read is the loop of ReadCached: up to three passes that    *)
(* acquire, load from disk, fetch, publish and await, then a fallback that *)
(* reads what is left directly.                                            *)
(*                                                                         *)
(* A step of a thread is one critical section of the store, one call of    *)
(* the inner reader, or one decision between them.  The inner reader is    *)
(* external: it returns the bytes of the revision it was opened on, or it  *)
(* fails, or it reports success with fewer bytes than asked.               *)
(***************************************************************************)
EXTENDS BlockCache, BlockPlan, RangeMath

CONSTANTS
  Reader,           \* handles; each is opened at most once
  NoReader,         \* the reader of a thread that is in no read
  Asset,            \* what an open may find, see AssetType
  Request,          \* the <<offset, size>> pairs threads ask for
  BlockSize,
  GapBlocks,        \* coalesceGapBlocks
  MaxRequestBytes,
  BypassBytes,      \* bypassThresholdBytes
  MaxOffset,        \* the largest value of an offset
  Byte,             \* byte offsets of the largest asset
  Passes            \* kMaxCooperativePasses

AssetType == [ident : Ident, rev : Rev, size : Nat,
              validator : [usable : BOOLEAN, strong : BOOLEAN], persists : BOOLEAN]

\* A strong validator names one revision: two opens that capture the same one
\* under the same identifier are of the same bytes.  They may still disagree
\* on the size, which is not part of the identity.
ASSUME ReaderAssumption ==
  /\ NoReader \notin Reader /\ IsFiniteSet(Reader)
  /\ Asset \subseteq AssetType
  /\ Request \subseteq Nat \X Nat
  /\ BlockSize \in Nat \ {0}
  /\ GapBlocks \in Nat
  /\ MaxRequestBytes \in Nat
  /\ BypassBytes \in Nat
  /\ MaxOffset \in Nat
  /\ Byte \subseteq Nat
  /\ Passes \in Nat \ {0}
  /\ \A a, b \in Asset :
       /\ a.ident = b.ident
       /\ IsShareable(a.validator)
       /\ IsShareable(b.validator)
       => a.rev = b.rev

\* Byte and Block hold every byte and every block of every asset.
ASSUME CoverAssumption ==
  \A a \in Asset : \A x \in 0 .. a.size - 1 : x \in Byte /\ x \div BlockSize \in Block

VARIABLES
  reader,   \* handle -> its life, the asset it opens, its identity number and,
            \*           while it closes, the stripes still to purge
  read,     \* thread -> the read it is in, see ReadState
  runs,     \* thread -> the requests planned and not issued yet
  count     \* thread -> served bytes, blocks from the store, blocks fetched

vars == <<cacheVars, identityVars, reader, read, runs, count>>

PC == {"idle", "acquire", "mismatch", "load", "fetch", "publish", "await", "fallback",
       "abandon", "bypass", "return"}

ReadState ==
  [pc       : PC,
   reader   : Reader \cup {NoReader},
   offset   : Nat,
   length   : Nat,
   pass     : 1 .. Passes,     \* cooperative pass, counted from 1
   todo     : SUBSET Block,    \* what the loop it is in has yet to visit
   resolved : SUBSET Block,    \* copied out already
   owned    : SUBSET Block,    \* OwnedBlocks: acquired and not settled
   busy     : SUBSET Block,    \* owned by another thread when it asked
   fetched  : SUBSET Block,    \* what the last request transferred
   after    : {"pass", "mismatch", "return"},  \* what follows AbandonAll
   dst      : [Byte -> Rev \cup {NoRev}],      \* the revision written to each byte
   result   : {"none", "ok", "error", "short", "threw"}]

ReaderState ==
  [life : {"new", "open", "closing", "closed"}, asset : Asset, id : 0 .. MaxId,
   purge : SUBSET Shard]

\* Types of the store, of the readers and of the reads in progress; a read is in
\* one of at most Passes passes.
TypeOK ==
  /\ CacheTypeOK
  /\ reader \in [Reader -> ReaderState]
  /\ read \in [Thread -> ReadState]

NoRead == [pc |-> "idle", reader |-> NoReader, offset |-> 0, length |-> 0, pass |-> 1,
           todo |-> {}, resolved |-> {}, owned |-> {}, busy |-> {}, fetched |-> {},
           after |-> "pass", dst |-> [x \in Byte |-> NoRev], result |-> "none"]
NoCount == [served |-> 0, hits |-> 0, misses |-> 0]

\* The asset a handle will be opened on is settled from the start.
Init ==
  /\ CacheInit
  /\ reader \in [Reader -> [life : {"new"}, asset : Asset, id : {0}, purge : {{}}]]
  /\ read = [t \in Thread |-> NoRead]
  /\ runs = [t \in Thread |-> <<>>]
  /\ count = [t \in Thread |-> NoCount]

------------------------------------------------------------------------------
\* What thread t is reading.
AssetOf(t)  == reader[read[t].reader].asset
KeyOf(t, b) == <<reader[read[t].reader].id, b>>
Extent(t, b) == ExtentOf(b, BlockSize, AssetOf(t).size)
Span(t) == CoveringBlocks(read[t].offset, read[t].length, BlockSize)
Unresolved(t) == (Block \cap Span(t)) \ read[t].resolved
InRange(t, x) == read[t].offset <= x /\ x < read[t].offset + read[t].length

\* CopyOverlap: the bytes of the caller's range that block b covers.
CopyOverlap(t, b) ==
  {x \in Byte : /\ InRange(t, x)
                /\ Extent(t, b).offset <= x
                /\ x < Extent(t, b).offset + Extent(t, b).length}

\* Loops over blocks visit them in ascending order.
Least(blocks, b) == b \in blocks /\ \A c \in blocks : b <= c

\* The read of t after block b, of revision rev, is copied to its buffer.
Copied(t, b, rev) ==
  [read[t] EXCEPT !.dst = [x \in Byte |-> IF x \in CopyOverlap(t, b) THEN rev ELSE @[x]],
                  !.resolved = @ \cup {b}]

\* Mutant: a block out of the store is not counted.
Count_MissesOnly(t, b, source) ==
  count' = [count EXCEPT ![t].served = @ + Cardinality(CopyOverlap(t, b)),
                         ![t].misses = IF source = "misses" THEN @ + 1 ELSE @]

\* ... and counted: by "hits" as out of the store, by "misses" as fetched.
Count(t, b, source) ==
  count' = [count EXCEPT ![t].served = @ + Cardinality(CopyOverlap(t, b)), ![t][source] = @ + 1]

\* AbandonAll is run, and the thread goes on to next.
AbandonThen(t, next) == [read[t] EXCEPT !.pc = "abandon", !.after = next]

\* Mutant: a way out that forgets the owned blocks.
Leave_KeepsBlocks(t, how) == [read[t] EXCEPT !.pc = "return", !.result = how]

\* The read is over once AbandonAll has run, as it does on every way out.
Leave(t, how) == [AbandonThen(t, "return") EXCEPT !.result = how]

\* The local state of t becomes s.
Becomes(t, s) == read' = [read EXCEPT ![t] = s]

------------------------------------------------------------------------------
\* Wrap: the reader is bound under the validator captured at open.
Open(r) ==
  /\ reader[r].life = "new"
  /\ LET a == reader[r].asset
     IN  /\ Bind(a.ident, a.validator)
         /\ reader' = [reader EXCEPT ![r].life = "open", ![r].id = BoundId(a.ident, a.validator)]
  /\ UNCHANGED <<cacheVars, read, runs, count>>

\* Mutant: only one stripe is purged.
Close_OneStripe(r) ==
  /\ reader[r].life = "open"
  /\ \A t \in Thread : read[t].reader # r
  /\ reader' = [reader EXCEPT
                  ![r].life = "closing",
                  ![r].purge = IF IsShareable(reader[r].asset.validator) THEN {}
                               ELSE {CHOOSE s \in Shard : TRUE}]
  /\ UNCHANGED <<cacheVars, identityVars, read, runs, count>>

\* The reader is destroyed, with no read in it.  A private identity takes its
\* blocks along, stripe by stripe; then the binding is gone.
Close(r) ==
  /\ reader[r].life = "open"
  /\ \A t \in Thread : read[t].reader # r
  /\ reader' = [reader EXCEPT
                  ![r].life = "closing",
                  ![r].purge = IF IsShareable(reader[r].asset.validator) THEN {} ELSE Shard]
  /\ UNCHANGED <<cacheVars, identityVars, read, runs, count>>

ClosePurge(r) ==
  /\ reader[r].life = "closing"
  /\ \E s \in reader[r].purge :
       /\ Least(reader[r].purge, s)
       /\ PurgeShard(reader[r].id, s)
       /\ reader' = [reader EXCEPT ![r].purge = @ \ {s}]
  /\ UNCHANGED <<identityVars, read, runs, count>>

CloseUnbind(r) ==
  /\ reader[r].life = "closing"
  /\ reader[r].purge = {}
  /\ Unbind
  /\ reader' = [reader EXCEPT ![r].life = "closed"]
  /\ UNCHANGED <<cacheVars, read, runs, count>>

Configure == ConfigureProcess /\ UNCHANGED <<reader, read, runs, count>>

------------------------------------------------------------------------------
\* Read: the request is clipped to the asset size.  One that is empty, or that
\* overflows, returns at once and touches nothing.  A long one bypasses the
\* store; any other starts the first pass.
StartRead(t) ==
  /\ read[t].pc = "idle"
  /\ \E r \in Reader, q \in Request :
       LET range == ResolveReadRange(q[1], q[2], reader[r].asset.size, MaxOffset)
           call  == [NoRead EXCEPT !.reader = r, !.offset = range.offset, !.length = range.length]
       IN  /\ reader[r].life = "open"
           /\ range.outcome = "Transfer"
           /\ \/ range.length >= BypassBytes /\ Becomes(t, [call EXCEPT !.pc = "bypass"])
              \/ /\ range.length < BypassBytes
                 /\ Becomes(t, [call EXCEPT
                      !.pc = "acquire",
                      !.todo = Block \cap CoveringBlocks(range.offset, range.length, BlockSize)])
  /\ UNCHANGED <<cacheVars, identityVars, reader, runs, count>>

\* The inner reader's answer is the caller's.
BypassRead(t) ==
  /\ read[t].pc = "bypass"
  /\ \/ /\ Becomes(t, [read[t] EXCEPT
             !.pc = "return", !.result = "ok",
             !.dst = [x \in Byte |-> IF InRange(t, x) THEN AssetOf(t).rev ELSE @[x]]])
     \/ Becomes(t, [read[t] EXCEPT !.pc = "return", !.result = "error"])
  /\ UNCHANGED <<cacheVars, identityVars, reader, runs, count>>

\* The acquisition loop, one block: absent and now owned, or busy, ...
AcquireOne(t) ==
  /\ read[t].pc = "acquire"
  /\ \E b \in read[t].todo :
       /\ Least(read[t].todo, b)
       /\ \/ /\ AcquireOwned(KeyOf(t, b))
             /\ Becomes(t, [read[t] EXCEPT !.todo = @ \ {b}, !.owned = @ \cup {b}])
          \/ /\ AcquireBusy(KeyOf(t, b))
             /\ Becomes(t, [read[t] EXCEPT !.todo = @ \ {b}, !.busy = @ \cup {b}])
  /\ UNCHANGED <<identityVars, reader, runs, count>>

\* ... or a hit of the length this reader expects, which is copied out, ...
HitOne(t) ==
  /\ read[t].pc = "acquire"
  /\ \E b \in read[t].todo :
       LET e == entries[KeyOf(t, b)]
       IN  /\ Least(read[t].todo, b)
           /\ AcquireHit(KeyOf(t, b))
           /\ e.len = Extent(t, b).length
           /\ Becomes(t, [Copied(t, b, e.rev) EXCEPT !.todo = @ \ {b}])
           /\ Count(t, b, "hits")
  /\ UNCHANGED <<identityVars, reader, runs>>

\* ... or a hit of another length, which is not used: the ownerships taken so
\* far are handed back and the block is read directly.
HitMismatch(t) ==
  /\ read[t].pc = "acquire"
  /\ \E b \in read[t].todo :
       /\ Least(read[t].todo, b)
       /\ AcquireHit(KeyOf(t, b))
       /\ entries[KeyOf(t, b)].len # Extent(t, b).length
  /\ Becomes(t, AbandonThen(t, "mismatch"))
  /\ UNCHANGED <<identityVars, reader, runs, count>>

\* ReadDirect of the block the loop is at.  Used for a mismatched block, after
\* which the acquisition loop goes on, and for each block of the fallback.
ReadDirect(t) ==
  /\ read[t].pc \in {"mismatch", "fallback"}
  /\ \E b \in read[t].todo :
       /\ Least(read[t].todo, b)
       /\ \/ /\ Becomes(t, [Copied(t, b, AssetOf(t).rev) EXCEPT
                              !.todo = @ \ {b},
                              !.pc = IF @ = "mismatch" THEN "acquire" ELSE @])
             /\ Count(t, b, "misses")
          \/ Becomes(t, Leave(t, "error")) /\ UNCHANGED count
  /\ UNCHANGED <<cacheVars, identityVars, reader, runs>>

\* What the pass does once it has acquired, and loaded what it could: nothing
\* owned and nothing busy ends the loop of passes; owned blocks are planned
\* and fetched; otherwise it waits.
AfterLoad(t) ==
  LET me == read[t]
  IN  \/ /\ me.owned = {} /\ me.busy = {}
         /\ Becomes(t, [me EXCEPT !.pc = "fallback", !.todo = Unresolved(t)])
         /\ UNCHANGED runs
      \/ /\ me.owned = {} /\ me.busy # {}
         /\ Becomes(t, [me EXCEPT !.pc = "await", !.todo = me.busy])
         /\ UNCHANGED runs
      \/ /\ me.owned # {}
         /\ Becomes(t, [me EXCEPT !.pc = "fetch"])
         /\ runs' = [runs EXCEPT ![t] =
                       PlanRuns(Ascending(me.owned), BlockSize, AssetOf(t).size, GapBlocks,
                                MaxRequestBytes)]

AcquireEnd(t) ==
  /\ read[t].pc = "acquire"
  /\ read[t].todo = {}
  /\ IF AssetOf(t).persists /\ read[t].owned # {}
       THEN /\ Becomes(t, [read[t] EXCEPT !.pc = "load", !.todo = read[t].owned])
            /\ UNCHANGED runs
       ELSE AfterLoad(t)
  /\ UNCHANGED <<cacheVars, identityVars, reader, count>>

\* The disk tier, one owned block: Load has it, under its key and at its
\* length, and it is published and settled; or Load has not.
LoadOne(t) ==
  /\ read[t].pc = "load"
  /\ \E b \in read[t].todo :
       /\ Least(read[t].todo, b)
       /\ \/ /\ Publish(KeyOf(t, b), Extent(t, b).length, AssetOf(t).rev)
             /\ Becomes(t, [Copied(t, b, AssetOf(t).rev) EXCEPT !.todo = @ \ {b},
                                                                !.owned = @ \ {b}])
             /\ Count(t, b, "hits")
          \/ /\ Becomes(t, [read[t] EXCEPT !.todo = @ \ {b}])
             /\ UNCHANGED <<cacheVars, count>>
  /\ UNCHANGED <<identityVars, reader, runs>>

LoadEnd(t) ==
  /\ read[t].pc = "load"
  /\ read[t].todo = {}
  /\ AfterLoad(t)
  /\ UNCHANGED <<cacheVars, identityVars, reader, count>>

\* The next planned request transfers its blocks, or fails the read.
FetchOne(t) ==
  /\ read[t].pc = "fetch"
  /\ runs[t] # <<>>
  /\ LET run == Head(runs[t])
     IN  \/ /\ Becomes(t, [read[t] EXCEPT
                 !.pc = "publish",
                 !.fetched = {b \in Block : run.firstBlock <= b /\ b <= LastBlock(run)}])
            /\ runs' = [runs EXCEPT ![t] = Tail(@)]
         \/ Becomes(t, Leave(t, "error")) /\ UNCHANGED runs
  /\ UNCHANGED <<cacheVars, identityVars, reader, count>>

\* No request is left, and the wait for busy blocks begins.
FetchEnd(t) ==
  /\ read[t].pc = "fetch"
  /\ runs[t] = <<>>
  /\ Becomes(t, [read[t] EXCEPT !.pc = "await", !.todo = read[t].busy])
  /\ UNCHANGED <<cacheVars, identityVars, reader, runs, count>>

\* The next owned block, if the request reached it, is published and copied.
PublishOne(t) ==
  /\ read[t].pc = "publish"
  /\ \E b \in read[t].owned :
       LET bytes == IF b \in read[t].fetched THEN AssetOf(t).rev ELSE NoRev
       IN  /\ Least(read[t].owned, b)
           /\ \E c \in read[t].fetched : b <= c
           /\ Publish(KeyOf(t, b), Extent(t, b).length, bytes)
           /\ Becomes(t, [Copied(t, b, bytes) EXCEPT !.owned = @ \ {b}])
           /\ Count(t, b, "misses")
  /\ UNCHANGED <<identityVars, reader, runs>>

PublishEnd(t) ==
  /\ read[t].pc = "publish"
  /\ \A b \in read[t].owned, c \in read[t].fetched : b > c
  /\ Becomes(t, [read[t] EXCEPT !.pc = "fetch", !.fetched = {}])
  /\ UNCHANGED <<cacheVars, identityVars, reader, runs, count>>

\* An allocation throws: the list of busy blocks, the buffer of Load or of the
\* transfer, or the copy Publish makes before it touches the store.
\* ~OwnedBlocks runs.
Throws(t) ==
  /\ read[t].pc \in {"acquire", "load", "fetch", "publish"}
  /\ Becomes(t, Leave(t, "threw"))
  /\ UNCHANGED <<cacheVars, identityVars, reader, runs, count>>

\* OwnedBlocks::Add throws: its vector cannot grow to record a block that
\* Acquire has just made this thread the owner of.
AddThrows(t) ==
  /\ read[t].pc = "acquire"
  /\ \E b \in read[t].todo : Least(read[t].todo, b) /\ AcquireOwned(KeyOf(t, b))
  /\ Becomes(t, Leave(t, "threw"))
  /\ UNCHANGED <<identityVars, reader, runs, count>>

\* Await of the next busy block: published at the expected length, ...
AwaitHit(t) ==
  /\ read[t].pc = "await"
  /\ \E b \in read[t].todo :
       LET e == entries[KeyOf(t, b)]
       IN  /\ Least(read[t].todo, b)
           /\ AwaitPublished(KeyOf(t, b))
           /\ e.len = Extent(t, b).length
           /\ Becomes(t, [Copied(t, b, e.rev) EXCEPT !.todo = @ \ {b}])
           /\ Count(t, b, "hits")
  /\ UNCHANGED <<identityVars, reader, runs>>

\* ... given up by its owner or of another length, which is left to the next
\* pass, ...
AwaitMiss(t) ==
  /\ read[t].pc = "await"
  /\ \E b \in read[t].todo :
       /\ Least(read[t].todo, b)
       /\ \/ AwaitGone(KeyOf(t, b))
          \/ /\ AwaitPublished(KeyOf(t, b))
             /\ entries[KeyOf(t, b)].len # Extent(t, b).length
       /\ Becomes(t, [read[t] EXCEPT !.todo = @ \ {b}])
  /\ UNCHANGED <<identityVars, reader, runs, count>>

\* ... or pending: the thread sleeps.
AwaitPending(t) ==
  /\ read[t].pc = "await"
  /\ \E b \in read[t].todo : Least(read[t].todo, b) /\ AwaitSleep(t, KeyOf(t, b))
  /\ UNCHANGED <<identityVars, reader, read, runs, count>>

\* The pass is over and its OwnedBlocks is destroyed.
AwaitEnd(t) ==
  /\ read[t].pc = "await"
  /\ read[t].todo = {}
  /\ Becomes(t, AbandonThen(t, "pass"))
  /\ UNCHANGED <<cacheVars, identityVars, reader, runs, count>>

\* AbandonAll, one block; then on to what follows it.  A new pass visits what
\* is not resolved yet; after the last one, so does the fallback.
AbandonOne(t) ==
  /\ read[t].pc = "abandon"
  /\ \E b \in read[t].owned :
       /\ Least(read[t].owned, b)
       /\ Abandon(KeyOf(t, b))
       /\ Becomes(t, [read[t] EXCEPT !.owned = @ \ {b}])
  /\ UNCHANGED <<identityVars, reader, runs, count>>

\* Mutant: one pass more.
LastPass_OneMore(t) == read[t].pass > Passes

LastPass(t) == read[t].pass >= Passes

AbandonEnd(t) ==
  /\ read[t].pc = "abandon"
  /\ read[t].owned = {}
  /\ LET me    == read[t]
         again == [me EXCEPT !.todo = Unresolved(t), !.busy = {}]
     IN  \/ me.after # "pass" /\ Becomes(t, [me EXCEPT !.pc = me.after])
         \/ /\ me.after = "pass" /\ ~LastPass(t)
            /\ Becomes(t, [again EXCEPT !.pc = "acquire", !.pass = @ + 1])
         \/ /\ me.after = "pass" /\ LastPass(t)
            /\ Becomes(t, [again EXCEPT !.pc = "fallback"])
  /\ UNCHANGED <<cacheVars, identityVars, reader, runs, count>>

\* The last check before success: every byte asked for has been served.
FallbackEnd(t) ==
  /\ read[t].pc = "fallback"
  /\ read[t].todo = {}
  /\ Becomes(t, [read[t] EXCEPT
       !.pc = "return",
       !.result = IF count[t].served = read[t].length THEN "ok" ELSE "short"])
  /\ UNCHANGED <<cacheVars, identityVars, reader, runs, count>>

\* Control is back with the caller, and the read's locals are gone.
Return(t) ==
  /\ read[t].pc = "return"
  /\ Becomes(t, NoRead)
  /\ runs' = [runs EXCEPT ![t] = <<>>]
  /\ count' = [count EXCEPT ![t] = NoCount]
  /\ UNCHANGED <<cacheVars, identityVars, reader>>

\* A condition variable may wake a thread for no reason.
SpuriousWake(t) ==
  /\ \E s \in Shard : t \in waiters[s] /\ waiters' = [waiters EXCEPT ![s] = @ \ {t}]
  /\ UNCHANGED <<entries, ahead, residentBytes, residentTotal, identityVars, reader, read, runs,
                 count>>

------------------------------------------------------------------------------
Asleep(t) == \E s \in Shard : t \in waiters[s]

\* A step of a read in progress.
Step(t) ==
  /\ ~Asleep(t)
  /\ \/ BypassRead(t)
     \/ AcquireOne(t) \/ HitOne(t) \/ HitMismatch(t) \/ ReadDirect(t) \/ AcquireEnd(t)
     \/ LoadOne(t) \/ LoadEnd(t)
     \/ FetchOne(t) \/ FetchEnd(t) \/ PublishOne(t) \/ PublishEnd(t) \/ Throws(t)
     \/ AwaitHit(t) \/ AwaitMiss(t) \/ AwaitPending(t) \/ AwaitEnd(t)
     \/ AbandonOne(t) \/ AbandonEnd(t) \/ FallbackEnd(t) \/ Return(t)

\* Every reader has been opened and closed; the process may stop here.
Finished == (\A r \in Reader : reader[r].life = "closed") /\ UNCHANGED vars

Next ==
  \/ \E r \in Reader : Open(r) \/ Close(r) \/ ClosePurge(r) \/ CloseUnbind(r)
  \/ \E t \in Thread : StartRead(t) \/ Step(t) \/ SpuriousWake(t)
  \/ Configure
  \/ Finished

Spec == Init /\ [][Next]_vars

\* A thread inside a read keeps running and its calls into the inner reader
\* return: the transport has a timeout on every request.
FairSpec == Spec /\ \A t \in Thread : WF_vars(Step(t))

\* The same readers when the list of owned blocks may fail to grow.
OomSpec == Init /\ [][Next \/ \E t \in Thread : AddThrows(t)]_vars

------------------------------------------------------------------------------
\* The keys a thread owns: acquired, and neither published nor abandoned.
OwnedKeys(t) == {KeyOf(t, b) : b \in read[t].owned}

\* No block is left pending with nobody obliged to settle it, which would make
\* every later reader of it wait forever: each pending entry is owned by a
\* thread still inside its read (OwnedBlocks and ~OwnedBlocks).
PendingHasOwner ==
  \A k \in Key : entries[k].state = "pending" => \E t \in Thread : k \in OwnedKeys(t)

\* Single flight: two threads never own the same block of the same identity at
\* once, so Acquire says Owned to exactly one of them.
SingleOwner ==
  \A t, u \in Thread : t # u => OwnedKeys(t) \cap OwnedKeys(u) = {}

\* A thread owns nothing while it waits for another, so two reads that own
\* what the other waits for cannot arise: every planned run has been fetched,
\* and the runs cover every owned block, before the first Await.
HoldNothingWhileAwaiting ==
  \A t \in Thread : read[t].pc = "await" => read[t].owned = {}

\* A read as the contract of AssetReader sees it.  A failure of ReadCached
\* counts no bytes; that of a bypass is the inner reader's own answer.
CallOf(t) ==
  LET me      == read[t]
      over    == me.pc = "return"
      success == over /\ me.result = "ok"
  IN  IF me.pc = "idle"
      THEN [pc |-> "idle", rev |-> NoRev, asked |-> <<0, 0>>, status |-> "none", given |-> {}]
      ELSE [pc     |-> IF over THEN "returned" ELSE "reading",
            rev    |-> AssetOf(t).rev,
            asked  |-> <<me.offset, me.length>>,
            status |-> IF success THEN "Ok" ELSE IF over THEN "Failed" ELSE "none",
            given  |-> IF success THEN {<<x, me.dst[x]>> : x \in {y \in Byte : me.dst[y] # NoRev}}
                                  ELSE {}]

Contract == INSTANCE AssetReaderContract
              WITH Caller <- Thread, call <- [t \in Thread |-> CallOf(t)]

\* Reads through the cache keep the contract of the reader they decorate, for
\* every interleaving with the readers of other revisions: each returns every
\* byte of its range and no other, all of the revision its own reader opened,
\* or fails.  Identities of weak validators are private, a block of another
\* length is not used, and Load, Publish and Await fill only their own.
ImplementsContract == Contract!Spec

\* The numbers of a cached read add up.  The bytes served are the range, so
\* that the check at the end of ReadCached, which its comment calls unreachable,
\* never fails; and every block is counted once, as served from the store or as
\* fetched by this reader, which is what blockHits, partialHits and blockMisses
\* are made of.
EveryBlockCountedOnce ==
  \A t \in Thread :
    /\ read[t].result # "short"
    /\ (read[t].pc = "return" /\ read[t].result = "ok" /\ read[t].resolved # {})
         => count[t].hits + count[t].misses = Cardinality(Span(t))

\* A stripe's account of itself is right.  Its counter is the bytes it holds, the
\* process-wide one is the sum over the stripes, and a stripe is over budget
\* only with a single block; its LRU list is a list, of exactly the resident
\* keys, any two of which are ordered one way.
StripesAreSound ==
  /\ \A s \in Shard :
       /\ residentBytes[s] = BytesOf(entries, InLru(s))
       /\ residentBytes[s] > ShardBudget => Cardinality(InLru(s)) = 1
  /\ residentTotal = SumFunctionOnSet(residentBytes, Shard)
  /\ \A k \in Key :
       /\ ahead[k] \subseteq (IF entries[k].state = "resident" THEN InLru(ShardFor(k)) \ {k} ELSE {})
       /\ \A j \in Key :
            (j # k /\ ShardFor(j) = ShardFor(k)
               /\ entries[k].state = "resident" /\ entries[j].state = "resident")
              => (j \in ahead[k]) # (k \in ahead[j])

\* Once a reader of a private identity is closed, nothing is left in the store
\* under its number: those bytes could not be reached and would hold budget.
PrivateBlocksDieWithReader ==
  \A r \in Reader, k \in Key :
    (reader[r].life = "closed" /\ ~IsShareable(reader[r].asset.validator) /\ k[1] = reader[r].id)
      => entries[k].state = "absent"

\* ConfigureProcess never rebuilds the stripes under a binding that may still
\* touch them: one whose reader is open, or whose destructor is still walking
\* the stripes.
RebuildOnlyUnbound ==
  [][ConfigureProcess => \A r \in Reader : reader[r].life \in {"new", "closed"}]_vars

\* Every read returns if reads stop being started: no wakeup is lost, and
\* nobody waits on a block that is never settled.
ReadsReturn ==
  <>[][\A t \in Thread : read[t].pc = "idle" => read'[t].pc = "idle"]_vars
    => \A t \in Thread : read[t].pc # "idle" ~> read[t].pc = "idle"
==============================================================================

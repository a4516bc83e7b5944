# A verification of usd-http-resolver

TLA+ models of the I/O substrate beneath the OpenUSD HTTP resolver, the
instances TLC checks, and machine-checked proofs of the properties that matter
most. The C++ is the reference: every definition names the source lines it
stands for in the `map` of `PROJECT.json`.

## The system

```text
ArResolver calls of many threads
        |
  http-resolver      retained opens, single flight per entry, identities
        |
  CachedAssetReader  three cooperative passes, then direct reads
     |        |
 BlockCache  DiskBlockStore
     |
  HttpAssetReader    retry, resume, redirect, one revision per reader
        |
  CurlTransport      one request over a pooled handle
```

`LocalAssetReader` takes the place of `HttpAssetReader` for files. Every reader,
cached or not, is an `AssetReader`.

| part | state | operations | what is hard |
|------|-------|-----------|--------------|
| `BlockCache` | stripes of entries (pending or resident), LRU lists, byte counters, identity numbers, live bindings | `Bind`, `~Binding`, `Acquire`, `Await`, `Publish`, `Abandon`, `ConfigureProcess` | single flight, waiting, eviction at the limit, rebuilding under readers |
| `CachedAssetReader` | per read: resolved, owned and busy blocks, buffer, pass | `Wrap`, `Read`, destruction | every owned block settled on every path, no waiting while owning, whole buffers |
| `BlockPlan`, `RangeMath`, `CacheOptions` | none | pure functions | boundaries, merge policy, clamps |
| `DiskBlockStore` | a directory shared by processes; budget accounting, epoch, sweep flag | `Configure`, `Load`, `Store`, `Clear`, sweep | crashes, unlocked walks, replaced files, stale counts |
| `HttpAssetReader` | metadata captured at open; per operation: retries, redirects, bytes so far | `Open`, `Read` | an origin that changes between requests, bounded work |
| `CurlTransport` | pool of idle handles, the connection each keeps; per request: headers, body, deadline | `Perform` and its callbacks | handles lost or shared, a policy checked in two places, streams of interim headers |
| `LocalAssetReader` | a file and the identity captured at open | `Open`, `Read` | a file rewritten under a read |
| `Metrics` | counters per reader, a registry with a bounded table, latency buckets | add, absorb, fold, summary | folds when decorated readers die, ranks at bucket bounds |
| `HttpResolver` | bounded table of opens, remembered identities, fingerprints that are never dropped | `_Resolve`, `_OpenAsset`, `_GetAssetInfo` | entries taken, forgotten and evicted while another thread opens them; republished assets |
| `Identifier`, `Uri`, `Destination` | none | naming, redirection, classification | two implementations of one rule, spellings of one address |
| `Configuration`, `Context` | none | parsing, layering, canonical text | one refused value among several |

## Modules

| module | models | extends or instantiates |
|--------|--------|---------|
| `AssetReaderContract` | what one `Read` promises, as an abstract specification | |
| `BlockPlan`, `RangeMath`, `CacheOptions` | the pure functions of the cache, under their own names | |
| `BlockCache` | the block store: each critical section is one action | |
| `CachedAssetReader` | threads, readers and the store together | `BlockCache`, `BlockPlan`, `RangeMath`; instance of `AssetReaderContract` |
| `DiskBlockStore` | the persistent tier | |
| `HttpAssetReader` | one HTTP reader and its origin | instance of `AssetReaderContract` |
| `CurlTransport` | the handle pool and the requests of many threads | |
| `Metrics` | counters and registry | |
| `LocalAssetReader` | local readers, bare or inside a cache, and the files they read | `RangeMath`, `Metrics`; instance of `AssetReaderContract` |
| `HttpResolver` | the resolver's tables and calls | |
| `UriText`, `Identifier`, `Uri` | a reference after its cuts; the resolver's and the backend's functions on it | |
| `Destination` | address literals and their classes | |
| `Configuration` | variables, contexts, what is in force | `CacheOptions` |
| `Calls` | one call of a pure function, and its result | |
| `CacheArithmetic`, `AssetNames`, `Contexts`, `LatencyHistogram` | calls of those functions, with reference definitions | `Calls`; `CacheArithmetic`: `PlanLaws` |
| `DataLaws`, `PlanLaws` | what the proofs use of finite sets, sums, ranges and plans | `PlanLaws`: `BlockPlan`, `RangeMath` |
| `DataTheorems` | proofs of those laws | both, `TLAPS` |
| `CachedStoreProofs` | the invariants of the block store under cached reads | `CachedAssetReader`, `DataLaws`, `TLAPS` |
| `*Proofs` | inductive invariants and theorems | the module they are named after (`CachedAssetReaderProofs`: `CachedStoreProofs`), `TLAPS`; instance of `DataTheorems` where sets are counted or summed |
| `MC*` | constants for TLC | one each |

**The contract and what implements it.** `AssetReaderContract` has one variable,
what each caller's `Read` is doing: nothing, reading a range under the revision
its reader was opened on, or returned with a status and a set of counted bytes,
each with the revision it is of. A success has the whole range, a failure a part
of it, `AssetChanged` nothing, and no byte is of another revision. `CallOf` in
`HttpAssetReader`, `LocalAssetReader` and `CachedAssetReader` is the refinement
mapping; `ImplementsContract` is the contract's `Spec` under it. The cache
assumes of its inner reader nothing but the contract, so the three results
compose: a cache over either backend is again a reader that keeps it. A read
through an HTTP reader with no strong validator is outside the mapping
(`IsBound`): nothing in its answers tells which revision a byte is of, and the
cache gives each such reader an identity of its own.

**BlockCache and CachedAssetReader.** `entries` maps a key (identity number,
block) to absent, pending or resident; `ahead` is the LRU list as an order
(`ahead[k]`: the keys used more recently than `k` in its stripe); `waiters` are
the threads asleep on a stripe's condition variable. A thread's `read` holds the
locals of `ReadCached`; `pc` is the loop it is in and `todo` what that loop has
yet to visit, so that a step is one critical section of the store, one call of
the inner reader, or one decision between them. Each byte of the buffer is the
revision it came from. `AbandonOne` and `AbandonEnd` are `~OwnedBlocks`: every
way out of a pass, exceptions (`Throws`) included, goes through them. Whether the
disk tier has a block is a choice: `DiskBlockStore` shows that what it returns is
of the key.

**DiskBlockStore.** `files` is the directory; a file is its key, length, write
time, the thread that wrote it, if it is of this process, and whether its
checksums hold. A thread in `Load`, `Store` or a sweep keeps the path it took
under the lock and works on it without. `ReadWholeFile` takes the size and opens
the file in two steps, and a removal is a third, by name. `Crash` ends every
call and leaves the files; other processes publish and delete; names may
collide, because a name is a prefix of a digest.

**HttpAssetReader.** One request with its answer is one step. An answer is what
the code distinguishes: status, transport error, validator and length it states,
the range it covers, the bytes delivered. Between two requests the origin may be
at any revision. The origin is assumed to honour `If-Range` or else to state the
validator of what it sends; an origin that does neither cannot be told from an
honest one. A transfer may end with an error or a deadline after its status
line, and the answer then has both. Assets have at least one byte: in the module
a size of zero is one that was not stated, where the code also binds to an empty
asset, on which every read is empty. Operations on one reader share no mutable
state other than counters, so the module has one at a time.

**HttpResolver.** The table lock and the identity lock make one step each, an
entry's mutex is held over a request. `_Opened` objects are reference counted:
`Collect` destroys those nothing refers to, so a freed object in use would show.
What a consumer holds and what was published are history variables. An asset
with a reader is always wrapped (`WrapAsset` fails only without one), so
the failure return of `_OpenAsset` after it has no step.

**CurlTransport.** `Perform` step by step: take a handle from the pool or create
one, build the headers, then libcurl, which is external, reuses a connection or
opens one address after another through `OnOpenSocket`, and delivers header
lines, body and progress to the callbacks in any order it may; `Conclude` is what
follows `curl_easy_perform`. A host is a name or an address literal, an address
is its class. With a proxy `OnOpenSocket` sees the proxy's address, which is why
`PermittedByClient` judges the host before anything is sent. One transport
belongs to one open, so there is one policy.

**LocalAssetReader and Metrics.** A byte is the time it was last written, a
revision the modification time, as `FileIdentity` sees it: two writes within one
tick, which the module's README names as the limit of the backend, are one
revision here. Other processes write in place, append and truncate between any
two system calls. A reader may be decorated by a cache that takes over its
counters (`AbsorbTransport`), and the destructors fold what they have into the
registry. Reads through a decorated reader follow the path that goes straight to
the reader inside it.

**Names.** `UriText` is a reference after the cuts at `#`, `?`, `//` and `:`,
with a scheme where what is before the colon can be one. `Uri` cuts at every
colon ahead of the first slash (`HasColonAhead`) and then refuses what is no
scheme, where `Identifier` takes it for a part of the first segment. A segment
is a sequence of characters and whole escapes. `Identifier` (RFC 3986's
rewriting of an input and an output buffer) and `Uri` (a stack of segments)
implement the same rules twice; `AssetNames` compares them. `Destination` has
the bytes, groups and quads of a literal as numbers; only the split of the text
at dots and colons is taken as done.

**Configuration.** A lookup is a function from variables to texts, a number's
text the sequence of its digits. `Contexts` compares what a context keeps with
what is in force under it. What a context reports as adjusted is of two kinds, a
value that was clamped and a name that was set more than once; the last value of
a repeated name is the one that is judged.

## Runs

| run | instance | result |
|-----|----------|--------|
| `cached` | two threads, two readers of one identifier, each opened on one of three: two strong opens that disagree on the size (4 and 3 bytes, blocks of 2) and one under a weak validator; two stripes of 3 bytes, one pass, rebuilds | `ImplementsContract`, `StripesAreSound`, `PrivateBlocksDieWithReader`, `RebuildOnlyUnbound` hold (750 thousand states) |
| `cached_live` | two threads on one reader with the disk tier, two blocks, room for one, two passes, a read that bypasses the store, fairness | `EveryBlockCountedOnce`, `TypeOK`, `PendingHasOwner`, `SingleOwner`, `HoldNothingWhileAwaiting`, `ReadsReturn` hold (140 thousand) |
| `cached_oom` | the same, and the list of owned blocks may fail to grow | `PendingHasOwner` is violated |
| `functions` | see below | the nine agreements hold (1.3 million calls) |
| `disk` | two threads, one directory, two colliding keys and one that may not persist, three calls or outside events, two reconfigurations, clears or crashes | `LoadIsFaithful`, `PublishedWhole`, `CountIsOfThisDirectory`, `SweepingIsHeld`, `NeverUnderReported` hold (2.5 million) |
| `http_read` | two bytes, three revisions (one shorter, two alike to a weak validator), four hosts, three attempts, one redirect | `ImplementsContract`, `RequestsAreBounded`, `TimeoutsEndTheOperation`, `OperationsReturn` hold (560 thousand) |
| `http_budget` | the same | `RequestsAsDocumented` is violated |
| `transport` | two threads, a pool of one, three classes of address of which one is permitted, with and without a proxy, up to two addresses per name, header limit of four, body of one | `PoolIsSound`, `PolicyHolds`, `RefusalIsExact`, `ResponseIsOne`, `PerformReturns` hold (190 thousand) |
| `local` | two threads, two readers, two files of two bytes, two writes, one tracked asset | `ImplementsContract`, `EveryTransferFoldedOnce` hold (1.6 million) |
| `local_stat` | the same, and `Stat` may fail on an open file | `ImplementsContract` is violated |
| `resolver` | two threads, two identifiers, two policies, both tables of size one, a republished asset | `TableIsQueued`, `AtMostOneVersion`, `VersionIsWhatIsHeld`, `RetainedUntilClaimed`, `AnswersWithinPolicy` hold (1.8 million) |
| `resolver_flight` | the same | `ResolutionsShareARequest` is violated |

`functions` makes one call of a pure function per behaviour:

- plans and ranges: every block set of assets of up to five blocks, every range
  in an offset type of eight values, options on both sides of each clamp;
- names: every path of up to four segments among dots, escapes, empty and plain
  ones; every spelling of the authority; every reference of up to three segments
  against every anchor of up to three, a colon in a first segment included;
- hosts: addresses on both sides of every range of the classification, in every
  IPv6 form that carries an IPv4 address, with every place of `::`;
- contexts: every text of two entries and of three with a repeated name over
  fifteen environments;
- latencies: every multiset of up to fifteen samples at the bucket bounds, and
  up to five more folded in, with four buckets.

The bounds make the interesting cases happen: a budget of one and a half blocks
makes two full blocks evict each other while a full and a short one fit, sizes
that differ make the last block mismatch, with two passes reads end in each of
them and in the fallback (`cached_live`; with two readers one pass and the
fallback are what fits), a table one entry too small evicts what another thread
is opening, three calls are enough for a store, a sweep and an event in between,
a pool of one makes the second thread's handle surplus, and a header limit of
four fits an interim and a final answer but no endless sequence. Threads and
readers are symmetric wherever no liveness is checked. The remaining bounds are
`MaxId` on the identity numbers handed out (one per reader), `MaxOps` and
`MaxEpoch` on the calls and reconfigurations of the disk tier, `MaxTicks` and
`MaxReads` on writes and reads of local files, `Handles` (one per thread), and
the number of `Entry` objects (more than can be referred to at once). No cached
run merges a request across a block another thread owns (`GapBlocks` is 0); the
plan itself is checked with gaps in `functions`, and the theorems on cached reads
hold for every gap. Deadlock is checked in every run but `functions`, whose
behaviours are one call.

**Fairness.** `FairSpec` of the cached reads assumes weak fairness of each
thread's steps inside a read: the scheduler runs it, the stripe mutexes are held
for a few instructions, and each inner read ends because the transport has a
deadline for every phase. A thread asleep on the condition variable is given
nothing; it has to be woken. `ReadsReturn` is about reads after which no new ones
start: while they do, a waiter may be overtaken for ever (see the observations).
`HttpAssetReader` assumes weak fairness of an operation's steps, for the same
deadlines, and `CurlTransport` that of a `Perform`'s steps, libcurl's callbacks
included: libcurl goes on with a transfer that can go on, and ends a stalled one
at its deadline.

### What the violated runs show

- `cached_oom`: `Acquire` makes a block pending before `OwnedBlocks::Add`
  records it, and the `push_back` in `Add` may throw; the block is then pending
  with nobody to settle it, against `BlockCache.h` ("Every `Owned` acquisition
  ends in exactly one `Publish` or one `Abandon`").
- `http_budget`: redirects are counted per exchange and a resume is an exchange
  of its own, so a read may send `(1 + retries) * (1 + maxRedirects)` requests,
  against "bounded by `maxRedirects + maxAttempts` requests".
- `resolver_flight`: `_Take` removes an entry whose resolution is unfinished, be
  it inside `http::Open` or just obtained from the table, and the next `_Resolve`
  sends its own request, against "Concurrent resolutions of one
  identifier make one request".
- `local_stat`: `Read` compares identities only if `Stat` succeeded, so a failing
  `Stat` lets bytes of another revision through, against "One `AssetReader` is
  bound, for its whole lifetime, to one asset revision."

### Observations

Where the code and a comment, or two parts of the code, differ without a run of
their own:

- `Await` (`BlockCache.cpp:379`) looks at the entry only when its thread runs; a
  block abandoned and acquired again in between keeps it waiting, although the
  header says it returns null when the owner abandons.
- A `Load` may take the size of one file and read the bytes of the next one of
  that name, and then judge an intact entry corrupt and delete it
  (`DiskBlockStore.cpp:660`), although an intact entry is "left where it is"
  (line 242). `LoadIsFaithful` says that the entry whose size was taken is not
  deleted so; one published after that may be.
- A deadline that elapses after a 503 or a redirect status has arrived does not
  end the operation: `PerformExchange` looks at the status first
  (`HttpAssetReader.cpp:563`), retries the one and follows the other. The
  library's README says "A timeout is never retried".
  `TimeoutsEndTheOperation` excepts those statuses.
- A context whose `MAX_REQUEST_BYTES` is refused has its gap judged against the
  built-in ceiling and not the environment's; `ContextIsInForce` excludes the case.
- `OnProgressWithClock` reports `ResponseTimeout` for a phase in which no
  connection existed; `Transport.h` says of it that one did.
- `CURLE_TOO_LARGE` ends with the headers kept, where the reader's own header
  limit clears them.
- `CreateIdentifier` accepts port 0, which `ParseUri` refuses; `ParseUri` accepts
  an authority that is only a port, which `CreateIdentifier` refuses; a host that
  is not in brackets and has a colon of its own is cut at the last colon by the
  one and at the first by the other; a `Location` such as `tile_1:2.usda`, with a
  colon ahead of any slash that ends no scheme, is refused by `ResolveReference`
  (`Uri.cpp:267`) and relative to `CreateIdentifier` (`Identifier.cpp:200`).
  `NamesAreStable` and `RedirectsAgree` name all but the third, which is outside
  `UriText`.
- `Identifier.cpp:127` says that a segment vector differs from the RFC's
  rewriting on a trailing `..` and at the root, `Uri.cpp:199`, which has one, that
  the two agree. `RedirectsAgree` shows that they do.
- A latency summary taken while samples are recorded may be of a count that the
  buckets do not yet add up to, and a sample beyond the bound of the last bucket
  is reported as that bound, although the comment says quantiles never
  under-report; `QuantilesBracket` is about a histogram at rest, and samples
  within the buckets.
- In a resolve scope the first recorded answer stays, while a racing caller
  returns its own.

## Proofs

Each theorem holds for every value of the constants that satisfies the
assumptions named in the module it is about: the types of the constants and what
is listed with each module here. TLC evaluates them in every run.

**Finite sets, sums and plans.** `DataLaws` states what the proofs use of finite
sets and of sums over them, `PlanLaws` what the block arithmetic promises.
`DataTheorems` proves both. The proofs of the components take the laws as
hypotheses and discharge them at their end, so that no prover has the library's
theorems before it in a step that does not need them. The prover has no induction
over data that can be used here; what a recursive function computes is shown by
the least input it would fail for: the least subset for `SumFunctionOnSet`
(`SumsObey`), the first place of the ascending sequence for `PlanRuns`. For every
set of blocks and every policy:

- `PlanCoversOnce`: the requests ascend without touching, each starts and ends
  with a block asked for, and every block asked for is in one;
- `PlansFetch`: each is the bytes of its blocks, not empty and not past the asset
  (the blocks asked for are blocks of the asset);
- `PlansAreLeast`: they obey the gap and the length ceiling, and no way to cut
  the blocks that obeys them has fewer requests. Between the first block of a
  request and that of the next every such cut has to start a group, because the
  greedy plan went on as long as it could (`WalkGreedy`, `CutMeets`).

`RangesCovered` is about `ResolveReadRange` and `CoveringBlocks`: for every read,
asset and offset limit, refused exactly on overflow, clamped to the asset, and
each byte in exactly one covering block with none idle. The predicates of
`PlansFetch`, `PlansAreLeast` and `RangesCovered` are those of the properties
`PlanFetchesOnce`, `PlanIsLeast` and `RangeIsCovered` of `functions`.

**`CachedStoreProofs` and `CachedAssetReaderProofs`** (`CacheAssumption`: every
key has a stripe and there are finitely many; `ReaderAssumption`: readers are
finite in number, and two opens that capture the same strong validator of one
identifier are of the same revision; `CoverAssumption`: `Block` and `Byte` reach
to the end of every asset). The first module has the invariants of the store,
the second those of a read, and the theorems: `TypeCorrect`, `SingleFlight`,
`NothingLeftPending`, `NoRebuildUnderReaders`, `PrivateBlocksGone`,
`StripeAccounts`, `NothingHeldWhileAwaiting`, `BlocksCountedOnce` and the
refinement `CachedReadsKeepTheContract`. No property is inductive alone. `IInv`
adds to ownership:

- `OwnedIsPending`: what a thread owns is pending, so a block that `Acquire`
  finds absent has no owner;
- `ReadsOK`: a thread in a read is on an open reader, owns nothing on the steps
  that no `AbandonAll` follows, and looks up on disk only what it owns;
- `Numbered`, `PrivateIsAlone`, `PurgesPrivate`: numbers are handed out once and
  a private one has one reader, so the purge in `~Binding` takes no block from
  under another reader's thread;
- `BindingsCounted`: `liveBindings` is the number of readers open or closing, so
  zero under the lock means that nobody is inside the stripes.

There is one lemma per action of `Next`. Three lemmas carry most of them: a step
keeps (`KeepsBlocks`), takes (`TakesBlock`) or settles (`SettlesBlock`) a block
of its own thread, and does nothing to the blocks of another. On `IInv` rest

- `Purged`: a stripe a closing reader has been through holds nothing under its
  private number;
- `Stripes`: the bytes a stripe is charged with are those of its resident
  blocks, above its share only with a single block, and the blocks are in order.
  That the order is transitive is not part of `StripesAreSound` and is needed
  for it: an eviction drops blocks from the back until the stripe fits or one is
  left, and only in a transitive order is there a last one, and are those that
  stay still in order;
- `Shares` and `Faithful`: readers under one number are of one revision, and a
  resident block is of that revision;
- `Good`: the blocks of a read are sifted into resolved, owned and awaited ones,
  the requests still to be sent cover what it owns (by `PlanCoversOnce`), the
  buffer holds the resolved blocks, and the counters count each of them once.

**`DiskBlockStoreProofs`** (`DiskAssumption`: finitely many threads and file
names). `LoadsAreFaithful`, `EntriesAreWhole`, `OneSweep`,
`CountsOfTheirDirectory`, `ReportsEnough`. `Temps`: a temporary about to be
renamed is whole, or gone. `Sweeps`: at most one sweep, whose epoch tells
whether its directory is still the current one. `Walks`: a walk meets a path
once and leaves none out unless it was cut. `Counted` carries `ReportsEnough`:
what occupies the directory, or was counted there by the sweep in progress, is
at most the sweep's total, the bytes written since it began, and what waits to
be counted, as sums over paths and threads. `LoadsAreFaithful` is about two
steps of one `Load` with anything in between. A hit needs `DecodeEntry` alone.
That a removal does not meet the intact file whose size was taken needs that no
file comes back once it is gone: `Unrepeated`, by which the files of one writer
differ in their write times and no write to come can make again one that was
sized; and `Sized`, that the size is still that file's when the bytes are read.

**`LocalAssetReaderProofs`** (`LocalAssumption`: finitely many readers).
`LocalReadsKeepTheContract` rests on `Captured` (a file whose modification time
is the captured one has the captured bytes) and `ReadsOK` (the buffer of a read
is as captured, or the file has moved on since). `TransfersFoldedOnce` rests on
`Books`: which layer of a stack still has its counters, and that the table has an
entry for every folded asset it ever had room for.

**`HttpAssetReaderProofs`** (`HttpAssumption`: every revision has a size above
zero). `ReadsKeepTheContract` is the refinement: initial states map to initial
states and each step to a step of the contract or a stutter. It rests on `IInv`:
what the open captured is of one revision (`ReaderOK`), every byte that counts
is of the captured revision (`OpOK`), and an answer about to be judged says the
truth about its representation (`JudgeOK`). `RequestsBounded` adds `WorkOK`: the
requests sent so far are at most what the retries and redirects spent so far
account for. `DeadlinesEndOperations` adds `Waiting`: an error is looked at only
in the step that judges it, which for a deadline without a retried or a redirect
status is one that returns.

**`HttpResolverProofs`** (`ResolverAssumption`: tables have room for at least one
entry, there are more `_Opened` objects than can be referred to, and a policy
that covers another reaches whatever that one reaches). `OneVersion` and
`VersionsAreHeld`: the fingerprints, which are never dropped, carry the argument.
All that was published or handed out, and all that is about to be (`Remembered`),
agrees with the last fingerprint or the identifier is contradicted for good, and
a remembered identity is the last fingerprint's (`Told`). `TableAndQueueAgree`
rests on `Queued`; `UnclaimedOpensAreKept` and `ToldWithinPolicy`, both about
steps, on `Retained`: which thread is in which entry, that a failed open has no
reader, and that an object nothing refers to is as new.

**`CurlTransportProofs`** (`TransportAssumption`: the limits are above zero and
the policy permits addresses). `PoolSound` and `PolicyKept` need what the locals
of `Perform` do not say: it has a handle exactly while it builds, connects or
transfers, that handle exists, a host that got past `PermittedByClient` is a name
or permitted, and a handle that does not exist keeps no connection.
`RefusalsAreExact` and `ResponsesAreOne`, both about the step that returns, need
`Progressing`: nothing is received before something was sent, and nothing is sent
where every address was refused.

Only model-checked: liveness (`ReadsReturn`, `OperationsReturn`,
`PerformReturns`), which the prover does not reason about under fairness; what
`OptionsConsistent`, `NamesAreStable`, `RedirectsAgree`, `SpellingsAgree`,
`ContextIsInForce` and `QuantilesBracket` say of powers of two, of rewritten
paths and texts, and of ranks among samples, whose definitions recurse on data
or are stated with `RECURSIVE` operators. The run properties `PlanFetchesOnce`,
`PlanIsLeast` and `RangeIsCovered` are TLC's as statements about the calls of
`functions`; the proofs have their predicates. Checked from nothing, the longest
proof module takes about a quarter of an hour.

## Not modelled

- Statuses as text, diagnostics, elision of secrets, reports and the `ArAsset`
  adapter: they change no state the properties are about.
- `Sha256`: that names may collide is all the disk tier relies on.
- The allocations of `Publish`, `Bind` and `RunSweep` that may throw after state
  has changed. In `RunSweep` the flag would stay set, in `Bind` the count of
  bindings; both are listed as hazards or under the store's component.
- The scoped resolve cache of `HttpResolver`: a memo in front of `_ResolveOnce`,
  whose entries multiply the states of the resolver some twenty-five times.
- libcurl, the file system and the origin, which are choices of the models.
- `ClearForTesting`, eviction and peak statistics, `OverFetchedBytes`, the
  destruction of the handle pool.
- The text of a URI, an address or a setting before its cuts at delimiters.
- `tests/`.

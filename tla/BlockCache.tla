------------------------------ MODULE BlockCache ------------------------------
(***************************************************************************)
(* The process-wide block store (libs/usd-asset-cache/src/BlockCache.cpp): *)
(* striped entries with single-flight acquisition, LRU eviction under a    *)
(* per-stripe budget, interned shared identities and private ones.         *)
(*                                                                         *)
(* Every operator below is one critical section of the code: what happens  *)
(* between taking and releasing one stripe's mutex, or the identity mutex. *)
(* CachedAssetReader.tla puts them together.                               *)
(***************************************************************************)
EXTENDS Integers, FiniteSets, Functions

CONSTANTS
  Ident,        \* asset identities: resolved identifier, validator, block size
  Rev,          \* what the bytes of a block are: the revision they came from
  NoRev,        \* no bytes
  Block,        \* block indices
  Shard,        \* stripe indices, 0 .. n-1
  ShardFor(_),  \* the stripe of a key, a hash in the code
  ShardBudget,  \* bytes one stripe may hold
  Thread,       \* the threads that may sleep on a stripe's condition variable
  MaxId         \* bound on the identity numbers handed out

Id  == 1 .. MaxId
Key == Id \X Block

ASSUME CacheAssumption ==
  /\ NoRev \notin Rev
  /\ Block \subseteq Nat
  /\ MaxId \in Nat
  /\ Shard \subseteq Nat /\ IsFiniteSet(Shard)
  /\ ShardBudget \in Nat
  /\ \A k \in Key : ShardFor(k) \in Shard

VARIABLES
  entries,         \* key -> absent, pending, or resident with its bytes
  ahead,           \* key -> the keys in front of it in its stripe's LRU list
  residentBytes,   \* stripe -> its byte counter
  residentTotal,   \* the relaxed process-wide byte counter
  waiters,         \* stripe -> the threads asleep on its condition variable
  identities,      \* identity -> its interned number, 0 if it has none
  nextIdentityId,
  liveBindings

cacheVars == <<entries, ahead, residentBytes, residentTotal, waiters>>
identityVars == <<identities, nextIdentityId, liveBindings>>

Entry == [state : {"absent", "pending", "resident"}, len : Nat, rev : Rev \cup {NoRev}]

Absent  == [state |-> "absent", len |-> 0, rev |-> NoRev]
Pending == [state |-> "pending", len |-> 0, rev |-> NoRev]
Resident(len, rev) == [state |-> "resident", len |-> len, rev |-> rev]

CacheTypeOK ==
  /\ entries \in [Key -> Entry]
  /\ ahead \in [Key -> SUBSET Key]
  /\ waiters \in [Shard -> SUBSET Thread]
  /\ identities \in [Ident -> 0 .. MaxId]
  /\ nextIdentityId \in 1 .. MaxId + 1
  /\ liveBindings \in Int

\* ResetLocked: empty stripes, no interned identity; the identity numbers go on.
CacheInit ==
  /\ entries = [k \in Key |-> Absent]
  /\ ahead = [k \in Key |-> {}]
  /\ residentBytes = [s \in Shard |-> 0]
  /\ residentTotal = 0
  /\ waiters = [s \in Shard |-> {}]
  /\ identities = [i \in Ident |-> 0]
  /\ nextIdentityId = 1
  /\ liveBindings = 0

------------------------------------------------------------------------------
\* Keys in a stripe's LRU list are the resident ones; a pending entry is not
\* in it and so cannot be evicted.
InLru(s) == {k \in Key : ShardFor(k) = s /\ entries[k].state = "resident"}

BytesOf(e, keys) == SumFunctionOnSet([k \in Key |-> e[k].len], keys)

\* published.notify_all() on stripe s.
NotifyAll(s) == waiters' = [waiters EXCEPT ![s] = {}]

\* Mutant: k is put in front and not taken out of where it was.
InFront_Twice(a, lru, k) == [j \in Key |-> IF j \in lru \ {k} THEN a[j] \cup {k} ELSE a[j]]

\* Moves k to the front of its stripe's list: nothing is ahead of it and it
\* is ahead of everything else there.
InFront(a, lru, k) ==
  [j \in Key |-> IF j = k THEN {} ELSE IF j \in lru THEN a[j] \cup {k} ELSE a[j]]

TouchLocked(k) == ahead' = InFront(ahead, InLru(ShardFor(k)), k)

\* Takes keys out of the LRU list and out of the entries.
Without(a, keys) == [j \in Key |-> IF j \in keys THEN {} ELSE a[j] \ keys]
Erased(e, keys)  == [j \in Key |-> IF j \in keys THEN Absent ELSE e[j]]

\* The keys EvictLocked pops from the back of the list while the stripe is
\* over budget and more than one key is left.  Key j is popped if, with
\* everything behind it gone, the stripe is still over budget and j is not
\* the front.
EvictLocked(e, a, lru, resident) ==
  {j \in lru : /\ a[j] # {}
               /\ resident - BytesOf(e, {i \in lru : j \in a[i]}) > ShardBudget}

------------------------------------------------------------------------------
\* Mutant: an entry that is pending is taken over.
AcquireOwned_TakesOver(k) ==
  /\ entries[k].state # "resident"
  /\ entries' = [entries EXCEPT ![k] = Pending]
  /\ UNCHANGED <<ahead, residentBytes, residentTotal, waiters>>

\* Acquire: an absent entry becomes pending and its caller owns it.
AcquireOwned(k) ==
  /\ entries[k].state = "absent"
  /\ entries' = [entries EXCEPT ![k] = Pending]
  /\ UNCHANGED <<ahead, residentBytes, residentTotal, waiters>>

AcquireBusy(k) ==
  /\ entries[k].state = "pending"
  /\ UNCHANGED cacheVars

AcquireHit(k) ==
  /\ entries[k].state = "resident"
  /\ TouchLocked(k)
  /\ UNCHANGED <<entries, residentBytes, residentTotal, waiters>>

\* Await, one turn of its loop: the owner gave the block up, ...
AwaitGone(k) ==
  /\ entries[k].state = "absent"
  /\ UNCHANGED cacheVars

\* ... it is resident, ...
AwaitPublished(k) ==
  /\ entries[k].state = "resident"
  /\ TouchLocked(k)
  /\ UNCHANGED <<entries, residentBytes, residentTotal, waiters>>

\* ... or thread t sleeps until the stripe is notified.
AwaitSleep(t, k) ==
  /\ entries[k].state = "pending"
  /\ waiters' = [waiters EXCEPT ![ShardFor(k)] = @ \cup {t}]
  /\ UNCHANGED <<entries, ahead, residentBytes, residentTotal>>

\* Publish fills a pending entry, puts it in front, evicts and notifies.  An
\* entry that is no longer pending is left alone: the stripe is only notified.
PublishFills(k, len, rev) ==
  LET s        == ShardFor(k)
      filled   == [entries EXCEPT ![k] = Resident(len, rev)]
      lru      == InLru(s) \cup {k}
      order    == InFront(ahead, InLru(s), k)
      resident == residentBytes[s] + len
      victims  == EvictLocked(filled, order, lru, resident)
      freed    == BytesOf(filled, victims)
  IN  /\ entries[k].state = "pending"
      /\ entries' = Erased(filled, victims)
      /\ ahead' = Without(order, victims)
      /\ residentBytes' = [residentBytes EXCEPT ![s] = resident - freed]
      /\ residentTotal' = residentTotal + len - freed
      /\ NotifyAll(s)

PublishIgnored(k) ==
  /\ entries[k].state # "pending"
  /\ NotifyAll(ShardFor(k))
  /\ UNCHANGED <<entries, ahead, residentBytes, residentTotal>>

Publish(k, len, rev) == PublishFills(k, len, rev) \/ PublishIgnored(k)

\* Mutant: nobody is told.
Abandon_Silent(k) ==
  /\ entries' = IF entries[k].state = "pending" THEN [entries EXCEPT ![k] = Absent] ELSE entries
  /\ UNCHANGED <<ahead, residentBytes, residentTotal, waiters>>

\* Abandon erases the entry if it is still pending, and notifies either way.
Abandon(k) ==
  /\ entries' = IF entries[k].state = "pending" THEN [entries EXCEPT ![k] = Absent] ELSE entries
  /\ NotifyAll(ShardFor(k))
  /\ UNCHANGED <<ahead, residentBytes, residentTotal>>

------------------------------------------------------------------------------
\* IsShareable: only a usable strong validator lets two readers share blocks.
IsShareable(validator) == validator.usable /\ validator.strong

\* Bind: the number the binding works under.  A private identity is never
\* interned; a shared one is found, or interned under the next number.
BoundId(ident, validator) ==
  IF IsShareable(validator) /\ identities[ident] # 0
    THEN identities[ident] ELSE nextIdentityId

\* Mutant: only an interned identity uses up its number.
Bind_ReusesPrivate(ident, validator) ==
  LET id == BoundId(ident, validator)
  IN  /\ id \in Id
      /\ liveBindings' = liveBindings + 1
      /\ IF IsShareable(validator)
           THEN /\ identities' = [identities EXCEPT ![ident] = id]
                /\ nextIdentityId' = IF id = nextIdentityId THEN id + 1 ELSE nextIdentityId
           ELSE UNCHANGED <<identities, nextIdentityId>>

Bind(ident, validator) ==
  LET id == BoundId(ident, validator)
  IN  /\ id \in Id
      /\ liveBindings' = liveBindings + 1
      /\ nextIdentityId' = IF id = nextIdentityId THEN nextIdentityId + 1 ELSE nextIdentityId
      /\ identities' = IF IsShareable(validator)
                         THEN [identities EXCEPT ![ident] = id] ELSE identities

\* ~Binding, under one stripe's mutex: every entry of a private identity goes.
PurgeShard(id, s) ==
  LET mine    == {k \in Key : k[1] = id /\ ShardFor(k) = s}
      counted == mine \cap InLru(s)
      freed   == BytesOf(entries, counted)
  IN  /\ entries' = Erased(entries, mine)
      /\ ahead' = Without(ahead, mine)
      /\ residentBytes' = [residentBytes EXCEPT ![s] = @ - freed]
      /\ residentTotal' = residentTotal - freed
      /\ NotifyAll(s)

\* Mutant: the binding is released twice.
Unbind_Twice == liveBindings' = liveBindings - 2 /\ UNCHANGED <<identities, nextIdentityId>>

\* ~Binding, its last act, under the identity mutex.
Unbind == liveBindings' = liveBindings - 1 /\ UNCHANGED <<identities, nextIdentityId>>

\* ConfigureProcess: refused while a binding is alive, a rebuild otherwise.
ConfigureProcess ==
  /\ liveBindings = 0
  /\ entries' = [k \in Key |-> Absent]
  /\ ahead' = [k \in Key |-> {}]
  /\ residentBytes' = [s \in Shard |-> 0]
  /\ residentTotal' = 0
  /\ waiters' = [s \in Shard |-> {}]
  /\ identities' = [i \in Ident |-> 0]
  /\ UNCHANGED <<nextIdentityId, liveBindings>>
==============================================================================

---------------------------- MODULE DiskBlockStore ----------------------------
(***************************************************************************)
(* The persistent tier (libs/usd-asset-cache/src/DiskBlockStore.cpp): a    *)
(* directory of entries that several processes share, written by rename,   *)
(* read outside the lock, and trimmed by sweeps that walk it outside the   *)
(* lock too.                                                               *)
(*                                                                         *)
(* The threads of one process are modelled step by step.  What another     *)
(* process does to the directory is Other*: it publishes whole entries and *)
(* deletes files.  The process may crash between any two steps.  A file is *)
(* its key, its length, whether its checksums hold, its write time         *)
(* (opCount when it was written: two writes may share a timestamp), and    *)
(* the thread of this process that wrote it, if one did.  The statistics   *)
(* are left out, except the two that Snapshot adds up.                     *)
(***************************************************************************)
EXTENDS Integers, FiniteSets, Functions

CONSTANTS
  Thread,
  Root,             \* directories the store may be pointed at
  NoRoot,           \* no directory: persistence is off
  EntryKey,         \* identity and block index, as the digest sees them
  NoKey,
  NameOf(_),        \* the file name of a key: a prefix of its digest
  Length,           \* payload lengths
  BudgetBytes,
  MinBudgetBytes,   \* kMinPersistentBudgetBytes
  MinBudgetEntries, \* kMinBudgetEntries
  MaxOps,           \* bound on the calls of Load and Store and on outside events
  MaxEpoch          \* bound on the calls of Configure and Clear

ASSUME DiskAssumption ==
  /\ Length \subseteq Nat \ {0}
  /\ {BudgetBytes, MinBudgetBytes, MinBudgetEntries, MaxOps, MaxEpoch} \subseteq Nat
  /\ NoRoot \notin Root /\ NoKey \notin EntryKey
  /\ IsFiniteSet(Thread) /\ IsFiniteSet({NameOf(k) : k \in EntryKey})

VARIABLES
  files,   \* root -> path -> the file there
  store,   \* the members of Impl that mutex guards; cut is not one of them,
           \* it records that knownBytes comes from a walk that broke off
  op,      \* thread -> the call it is in
  opCount  \* calls started and outside events

diskVars == <<files, store, op, opCount>>

\* An entry is at the name of its key; a temporary belongs to one thread.
Path == {<<"entry", NameOf(k)>> : k \in EntryKey} \cup {<<"temp", t>> : t \in Thread}
EntryPath(k) == <<"entry", NameOf(k)>>
TempPath(t)  == <<"temp", t>>

NoFile == [state |-> "none", key |-> NoKey, len |-> 0, written |-> 0, by |-> {}]
Empty  == [p \in Path |-> NoFile]

NoOp == [pc |-> "idle", key |-> NoKey, len |-> 0, root |-> NoRoot, size |-> 0, raw |-> NoFile,
         todo |-> {}, entries |-> {}, total |-> 0, budget |-> 0, epoch |-> 0, cut |-> FALSE]

Off == [root |-> NoRoot, swept |-> FALSE, knownBytes |-> 0, bytesSinceSweep |-> 0,
        largestEntryBytes |-> 0]

Init ==
  /\ files = [r \in Root |-> Empty]
  /\ store = [impl |-> Off, epoch |-> 0, sweeping |-> FALSE, cut |-> FALSE]
  /\ op = [t \in Thread |-> NoOp]
  /\ opCount = 0

Enabled == store.impl.root # NoRoot
Larger(a, b) == IF a < b THEN b ELSE a
Put(root, path, file) == files' = [files EXCEPT ![root][path] = file]
Goes(t, where) == op' = [op EXCEPT ![t].pc = where]
Done(t) == op' = [op EXCEPT ![t] = NoOp]

------------------------------------------------------------------------------
\* Configure: everything the store knows about a directory is forgotten, and a
\* sweep in flight can tell.  The directory could be prepared, or persistence
\* is off.
Configure(root) ==
  /\ store.epoch < MaxEpoch
  /\ store' = [store EXCEPT !.impl = [Off EXCEPT !.root = root], !.epoch = @ + 1]
  /\ UNCHANGED <<files, op, opCount>>

\* Clear: the directory is emptied, temporaries of calls in flight included.
Clear ==
  /\ Enabled
  /\ store.epoch < MaxEpoch
  /\ files' = [files EXCEPT ![store.impl.root] = Empty]
  /\ store' = [store EXCEPT !.impl = [Off EXCEPT !.root = store.impl.root], !.epoch = @ + 1]
  /\ UNCHANGED <<op, opCount>>

Persistable(k) == k.strength = "Strong" /\ k.kind = "EntityTag"

\* Load and Store take the path under the lock, and work on it without.  A
\* call on a store that is off, or of a block that may not persist, ends here.
Call(t, where, keys) ==
  /\ op[t].pc = "idle"
  /\ opCount < MaxOps
  /\ Enabled
  /\ \E k \in keys, len \in Length :
       op' = [op EXCEPT ![t] = [NoOp EXCEPT !.pc = where, !.key = k, !.len = len,
                                            !.root = store.impl.root]]
  /\ opCount' = opCount + 1
  /\ UNCHANGED <<files, store>>

LoadStart(t) == Call(t, "stat", EntryKey)

StoreStart(t) == Call(t, "write", {k \in EntryKey : Persistable(k)})

MyFile(t) == files[op[t].root][EntryPath(op[t].key)]

\* ReadWholeFile: the size first (raw records whose it is), ...
LoadStat(t) ==
  /\ op[t].pc = "stat"
  /\ \/ MyFile(t) = NoFile /\ Done(t)
     \/ /\ MyFile(t) # NoFile
        /\ op' = [op EXCEPT ![t].pc = "open", ![t].size = MyFile(t).len, ![t].raw = MyFile(t)]
  /\ UNCHANGED <<files, store, opCount>>

\* Mutant: how many bytes were read is not held against the length they state.
DecodeEntry_AnySize(t, file) ==
  IF file.state # "whole" THEN "Corrupt"
  ELSE IF file.key # op[t].key THEN "OtherKey"
  ELSE IF file.len # op[t].len THEN "WrongShape"
  ELSE "Ok"

\* DecodeEntry of what was read under that size.
DecodeEntry(t, file) ==
  IF file.state # "whole" \/ file.len # op[t].size THEN "Corrupt"
  ELSE IF file.key # op[t].key THEN "OtherKey"
  ELSE IF file.len # op[t].len THEN "WrongShape"
  ELSE "Ok"

\* ... then that many bytes of the file that is there now.  One that is gone
\* or shorter was not read at all and is left alone.
LoadOpen(t) ==
  /\ op[t].pc = "open"
  /\ LET file == MyFile(t)
     IN  \/ (file = NoFile \/ file.len < op[t].size) /\ Done(t)
         \/ /\ file # NoFile /\ file.len >= op[t].size
            /\ \/ DecodeEntry(t, file) = "Corrupt" /\ Goes(t, "remove")
               \/ DecodeEntry(t, file) \in {"OtherKey", "WrongShape"} /\ Done(t)
               \/ /\ DecodeEntry(t, file) = "Ok"
                  /\ op' = [op EXCEPT ![t].pc = "hit", ![t].raw = file]
  /\ UNCHANGED <<files, store, opCount>>

\* A corrupt entry is deleted by name, whatever is there by now.
LoadRemove(t) ==
  /\ op[t].pc = "remove"
  /\ Put(op[t].root, EntryPath(op[t].key), NoFile)
  /\ Done(t)
  /\ UNCHANGED <<store, opCount>>

LoadReturn(t) == op[t].pc = "hit" /\ Done(t) /\ UNCHANGED <<files, store, opCount>>

------------------------------------------------------------------------------
\* Store: the temporary is created, unless the directory or the file cannot
\* be.  The name is new; a thread has one temporary at a time, and one that a
\* crash left behind keeps the thread from storing there (bound on litter).
StoreWrite(t) ==
  /\ op[t].pc = "write"
  /\ \/ /\ files[op[t].root][TempPath(t)] = NoFile
        /\ Put(op[t].root, TempPath(t), [state |-> "partial", key |-> op[t].key, by |-> {t},
                                         len |-> op[t].len, written |-> opCount])
        /\ Goes(t, "flush")
     \/ Done(t) /\ UNCHANGED files
  /\ UNCHANGED <<store, opCount>>

\* Mutant: whether the write succeeded is not looked at.
StoreFlush_Unchecked(t) ==
  /\ op[t].pc = "flush"
  /\ Goes(t, "rename")
  /\ UNCHANGED <<files, store, opCount>>

\* It is written and flushed; when that fails it is removed.  A file that was
\* unlinked meanwhile takes the bytes all the same, and stays unlinked.
StoreFlush(t) ==
  /\ op[t].pc = "flush"
  /\ \/ /\ files' = [files EXCEPT ![op[t].root][TempPath(t)] =
                      IF @ = NoFile THEN @ ELSE [@ EXCEPT !.state = "whole", !.written = opCount]]
        /\ Goes(t, "rename")
     \/ Put(op[t].root, TempPath(t), NoFile) /\ Done(t)
  /\ UNCHANGED <<store, opCount>>

\* The rename replaces what is at the name.  It fails when the temporary is
\* gone, and may fail otherwise; then the temporary is removed.
StoreRename(t) ==
  /\ op[t].pc = "rename"
  /\ LET temp == files[op[t].root][TempPath(t)]
     IN  \/ /\ temp # NoFile
            /\ files' = [files EXCEPT ![op[t].root][EntryPath(op[t].key)] = temp,
                                      ![op[t].root][TempPath(t)] = NoFile]
            /\ Goes(t, "account")
         \/ Put(op[t].root, TempPath(t), NoFile) /\ Done(t)
  /\ UNCHANGED <<store, opCount>>

EffectiveBudget(impl) ==
  Larger(Larger(BudgetBytes, MinBudgetBytes), impl.largestEntryBytes * MinBudgetEntries)
SweepInterval(impl) == Larger(EffectiveBudget(impl) \div 8, MinBudgetBytes)

\* Mutant: two threads sweep at once.
MayBegin_Sweeping == Enabled

\* BeginSweepLocked refuses while a sweep runs, or with no directory.
MayBegin == ~store.sweeping /\ Enabled

\* Back under the lock, of whatever the store is configured to by now: the
\* write is counted, and the first one or an interval's worth starts a sweep.
StoreAccount(t) ==
  /\ op[t].pc = "account"
  /\ LET impl == [store.impl EXCEPT !.bytesSinceSweep = @ + op[t].len,
                                    !.largestEntryBytes = Larger(@, op[t].len)]
         due  == ~impl.swept \/ impl.bytesSinceSweep >= SweepInterval(impl)
     IN  \/ /\ due /\ MayBegin
            /\ store' = [store EXCEPT
                 !.impl = [impl EXCEPT !.swept = TRUE, !.bytesSinceSweep = 0],
                 !.sweeping = TRUE]
            /\ op' = [op EXCEPT ![t] = [NoOp EXCEPT
                 !.pc = "walk", !.root = impl.root, !.todo = Path,
                 !.budget = EffectiveBudget(impl), !.epoch = store.epoch]]
         \/ /\ ~(due /\ MayBegin)
            /\ store' = [store EXCEPT !.impl = impl]
            /\ Done(t)
  /\ UNCHANGED <<files, opCount>>

------------------------------------------------------------------------------
\* RunSweep, outside the lock.  A temporary no call is writing is litter of a
\* crash, and may be over an hour old by now.
Litter(root, p) ==
  \E t \in Thread : p = TempPath(t) /\ ~(op[t].pc \in {"flush", "rename"} /\ op[t].root = root)

\* The walk meets the files in any order; one that appears at a name the walk
\* has passed is missed.
WalkOne(t) ==
  /\ op[t].pc = "walk"
  /\ \E p \in op[t].todo :
       LET file == files[op[t].root][p]
       IN  \/ /\ file = NoFile
              /\ op' = [op EXCEPT ![t].todo = @ \ {p}]
              /\ UNCHANGED files
           \/ /\ file # NoFile
              /\ op' = [op EXCEPT ![t].todo = @ \ {p}, ![t].total = @ + file.len,
                                  ![t].entries = @ \cup {<<p, file>>}]
              /\ UNCHANGED files
           \/ /\ file # NoFile /\ Litter(op[t].root, p)
              /\ Put(op[t].root, p, NoFile)
              /\ op' = [op EXCEPT ![t].todo = @ \ {p}]
  /\ UNCHANGED <<store, opCount>>

\* The iteration is over, or broke off on an error.
WalkEnd(t) ==
  /\ op[t].pc = "walk"
  /\ op' = [op EXCEPT ![t].pc = IF op[t].total > op[t].budget THEN "trim" ELSE "swept",
                      ![t].cut = op[t].todo # {}]
  /\ UNCHANGED <<files, store, opCount>>

Oldest(entries) ==
  {e \in entries : \A f \in entries : e[2].written <= f[2].written}

\* Oldest first, until an eighth below the budget; a file that cannot be
\* removed stays.
TrimOne(t) ==
  /\ op[t].pc = "trim"
  /\ op[t].total > op[t].budget - op[t].budget \div 8
  /\ \E e \in Oldest(op[t].entries) :
       \/ /\ files[op[t].root][e[1]] # NoFile
          /\ Put(op[t].root, e[1], NoFile)
          /\ op' = [op EXCEPT ![t].entries = @ \ {e}, ![t].total = @ - e[2].len]
       \/ op' = [op EXCEPT ![t].entries = @ \ {e}] /\ UNCHANGED files
  /\ UNCHANGED <<store, opCount>>

TrimEnd(t) ==
  /\ op[t].pc = "trim"
  /\ op[t].total <= op[t].budget - op[t].budget \div 8 \/ op[t].entries = {}
  /\ Goes(t, "swept")
  /\ UNCHANGED <<files, store, opCount>>

\* Mutants: the count is adopted whatever happened since; what was written
\* during the sweep is taken to be in it.
SweepEnd_AnyEpoch(t) ==
  /\ op[t].pc = "swept"
  /\ store' = [store EXCEPT !.sweeping = FALSE, !.cut = op[t].cut, !.impl.knownBytes = op[t].total]
  /\ Done(t)
  /\ UNCHANGED <<files, opCount>>
SweepEnd_Resets(t) ==
  /\ op[t].pc = "swept"
  /\ store' = [store EXCEPT
       !.sweeping = FALSE,
       !.cut = IF store.epoch = op[t].epoch THEN op[t].cut ELSE @,
       !.impl.bytesSinceSweep = 0,
       !.impl.knownBytes = IF store.epoch = op[t].epoch THEN op[t].total ELSE @]
  /\ Done(t)
  /\ UNCHANGED <<files, opCount>>

\* Under the lock again: the count is adopted only if it is of this epoch.
SweepEnd(t) ==
  /\ op[t].pc = "swept"
  /\ store' = [store EXCEPT
       !.sweeping = FALSE,
       !.cut = IF store.epoch = op[t].epoch THEN op[t].cut ELSE @,
       !.impl.knownBytes = IF store.epoch = op[t].epoch THEN op[t].total ELSE @]
  /\ Done(t)
  /\ UNCHANGED <<files, opCount>>

------------------------------------------------------------------------------
\* The process dies: its calls are gone, its files stay, and the next one
\* starts with a store that is off.
Crash ==
  /\ store.epoch < MaxEpoch
  /\ store' = [impl |-> Off, epoch |-> store.epoch + 1, sweeping |-> FALSE, cut |-> FALSE]
  /\ op' = [t \in Thread |-> NoOp]
  /\ UNCHANGED <<files, opCount>>

\* Another process publishes an entry,
Outside == opCount < MaxOps /\ opCount' = opCount + 1 /\ UNCHANGED <<store, op>>
OtherPublish ==
  /\ Outside
  /\ \E r \in Root, k \in EntryKey, len \in Length :
       /\ Persistable(k)
       /\ Put(r, EntryPath(k), [state |-> "whole", key |-> k, by |-> {},
                                len |-> len, written |-> opCount])

\* trims, clears or discards a file,
OtherRemove ==
  /\ Outside
  /\ \E r \in Root, p \in Path : files[r][p] # NoFile /\ Put(r, p, NoFile)

\* or the medium damages an entry.
Spoil ==
  /\ Outside
  /\ \E r \in Root, k \in EntryKey :
       /\ files[r][EntryPath(k)].state = "whole"
       /\ files' = [files EXCEPT ![r][EntryPath(k)].state = "spoiled"]

\* Nothing is left to do: the bounds are used up and every call returned.
Finished ==
  /\ opCount = MaxOps /\ \A t \in Thread : op[t] = NoOp
  /\ UNCHANGED diskVars

Step(t) ==
  \/ LoadStart(t) \/ LoadStat(t) \/ LoadOpen(t) \/ LoadRemove(t) \/ LoadReturn(t)
  \/ StoreStart(t) \/ StoreWrite(t) \/ StoreFlush(t) \/ StoreRename(t) \/ StoreAccount(t)
  \/ WalkOne(t) \/ WalkEnd(t) \/ TrimOne(t) \/ TrimEnd(t) \/ SweepEnd(t)

Next ==
  \/ \E t \in Thread : Step(t)
  \/ \E r \in Root \cup {NoRoot} : Configure(r)
  \/ Clear \/ Crash \/ OtherPublish \/ OtherRemove \/ Spoil \/ Finished

Spec == Init /\ [][Next]_diskVars

------------------------------------------------------------------------------
\* What a Load makes of a file that is replaced between its size, its bytes and
\* its removal.  A hit has as many bytes as were asked for, although the count
\* is of one file and the bytes may be of another; and an intact entry that was
\* there when the size was taken is never deleted for corrupt, be it another
\* key's of the same name or of another length, whichever files come and go in
\* between (ReadWholeFile, DecodeEntry, Load).  One that is published after the
\* size was taken may be deleted: the removal is by name.
LoadIsFaithful ==
  \A t \in Thread :
    /\ op[t].pc = "hit" =>
         op[t].size = op[t].len /\ op[t].raw.state = "whole" /\ op[t].raw.key = op[t].key
    /\ op[t].pc = "remove" /\ MyFile(t).state = "whole" => MyFile(t) # op[t].raw

\* No entry is ever a partly written one, whatever crashes and whoever deletes
\* files: only a rename publishes, and only what was flushed (Store).
PublishedWhole ==
  \A r \in Root, k \in EntryKey : files[r][EntryPath(k)].state # "partial"

\* The count of one directory is never adopted for another, nor for one that
\* was emptied since: until a sweep of the current epoch began, no bytes are
\* known (the epoch in Configure, Clear and RunSweep).
CountIsOfThisDirectory == ~store.impl.swept => store.impl.knownBytes = 0

\* The threads that are in RunSweep.
Sweeper == {t \in Thread : op[t].pc \in {"walk", "trim", "swept"}}

\* sweeping is held exactly while a thread of the process is in a sweep, and
\* only one is: the flag is what keeps the unlocked walks apart, and a flag
\* left behind would end sweeping for good (BeginSweepLocked, RunSweep).
SweepingIsHeld == Cardinality(Sweeper) = IF store.sweeping THEN 1 ELSE 0

\* residentBytes errs upwards only: once the first sweep has counted what was
\* there, and while no write waits to be counted, what this process's writes
\* occupy is at most knownBytes + bytesSinceSweep.  Races of writes with walks
\* may count an entry twice and never lose one (Snapshot, RunSweep; a walk
\* that broke off on an error counts what it saw).
NeverUnderReported ==
  LET impl == store.impl
      ours == {p \in Path : p[1] = "entry" /\ files[impl.root][p].by # {}}
  IN  /\ impl.swept /\ ~store.sweeping /\ ~store.cut
      /\ \A t \in Thread : op[t].pc # "account"
      => SumFunction([p \in ours |-> files[impl.root][p].len])
           <= impl.knownBytes + impl.bytesSinceSweep
==============================================================================

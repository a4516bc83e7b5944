----------------------------- MODULE HttpResolver -----------------------------
(***************************************************************************)
(* The resolver plug-in (plugins/http-resolver/src/HttpResolver.cpp):      *)
(* _Resolve, _OpenAsset and _GetAssetInfo called from several threads, the *)
(* bounded table of retained opens with its per-entry single flight, and   *)
(* the identity each open discovered.                                      *)
(*                                                                         *)
(* The table lock and the identity lock make one step each; an entry's     *)
(* mutex is held across a request.  What an open captures is a validator:  *)
(* the origin may answer each request with another one, or fail.           *)
(***************************************************************************)
EXTENDS Integers, Sequences, FiniteSetsExt, Functions

CONSTANTS
  Thread, NoThread,
  Ident,                     \* normalized identifiers
  Key,                       \* _OpenKey: an identifier and a configuration
  Policy,                    \* effective configurations, by their destination policy
  Covers(_, _),              \* DestinationPolicy::Covers
  Captures(_, _),            \* validators an open of the identifier under the policy may meet
  Validator, NoValidator,
  IsStable(_),               \* ClassifyStability: a usable strong validator
  Entry, NoEntry,            \* the shared _Opened objects
  kMaxRetainedOpens,
  kMaxRememberedIdentities

ASSUME ResolverAssumption ==
  /\ Key \subseteq Ident \X Policy
  /\ \A i \in Ident, p \in Policy : Captures(i, p) \subseteq Validator
  /\ kMaxRetainedOpens \in Nat \ {0} /\ kMaxRememberedIdentities \in Nat \ {0}
  /\ NoThread \notin Thread /\ NoEntry \notin Entry /\ NoValidator \notin Validator
  /\ Cardinality(Entry) > Cardinality(Thread) + kMaxRetainedOpens
  /\ \A i \in Ident, p, q \in Policy : Covers(p, q) => Captures(i, q) \subseteq Captures(i, p)

VARIABLES
  table,         \* _table: key -> entry
  order,         \* _order
  opened,        \* the _Opened objects
  identities,    \* _identities: identifier -> metadata and policies, or none
  identityOrder,
  fingerprints,
  call,          \* thread -> the call it is in
  held,          \* identifier -> validators of the assets handed out
  published      \* identifier -> versions asset info has published, and whether one
                 \* differed from what was held at that moment

tableVars    == <<table, order>>
identityVars == <<identities, identityOrder, fingerprints>>
vars == <<table, order, opened, identities, identityOrder, fingerprints, call, held, published>>

NewEntry   == [opened |-> FALSE, validator |-> NoValidator, reader |-> FALSE, mutex |-> NoThread]
NoIdentity == [validator |-> NoValidator, reachedUnder |-> {}, known |-> FALSE]
Unseen     == [validator |-> NoValidator, seen |-> FALSE, contradicted |-> FALSE]
NoKey      == <<>>
NoCall     == [pc |-> "idle", what |-> "none", key |-> NoKey, entry |-> NoEntry,
               validator |-> NoValidator]

Init ==
  /\ table = [k \in Key |-> NoEntry] /\ order = <<>>
  /\ opened = [e \in Entry |-> NewEntry]
  /\ identities = [i \in Ident |-> NoIdentity] /\ identityOrder = <<>>
  /\ fingerprints = [i \in Ident |-> Unseen]
  /\ call = [t \in Thread |-> NoCall]
  /\ held = [i \in Ident |-> {}] /\ published = [i \in Ident |-> [versions |-> {}, astray |-> FALSE]]

IdOf(t)     == call[t].key[1]
PolicyOf(t) == call[t].key[2]
At(t, pc)   == call[t].pc = pc
Goes(t, pc) == call' = [call EXCEPT ![t].pc = pc]
Returns(t)  == call' = [call EXCEPT ![t] = NoCall]

\* The _Opened objects become o; one that neither the table nor a call refers to
\* any more is destroyed.
Collect(o) ==
  opened' = [e \in Entry |-> IF \/ \E k \in Key : table'[k] = e
                                \/ \E t \in Thread : call'[t].entry = e
                             THEN o[e] ELSE NewEntry]

------------------------------------------------------------------------------
\* A call of the ArResolver interface, under the context of its thread.
Begins(t, what, pc) ==
  /\ At(t, "idle")
  /\ \E k \in Key :
       call' = [call EXCEPT ![t] = [NoCall EXCEPT !.what = what, !.pc = pc, !.key = k]]
  /\ UNCHANGED <<table, order, opened, identityVars, held, published>>

Resolve(t)      == Begins(t, "resolve", "get")
OpenAsset(t)    == Begins(t, "open", "take")
GetAssetInfo(t) == Begins(t, "info", "known")

\* An object nothing refers to, as make_shared would return it; there are enough.
Free == {e \in Entry : /\ \A k \in Key : table[k] # e
                       /\ \A t \in Thread : call[t].entry # e}

\* _GetOrCreate: find, or create and evict the oldest beyond the bound.
GetOrCreate(t) ==
  /\ At(t, "get")
  /\ \/ /\ table[call[t].key] # NoEntry
        /\ call' = [call EXCEPT ![t].pc = "lock", ![t].entry = table[call[t].key]]
        /\ UNCHANGED <<table, order, opened>>
     \/ /\ table[call[t].key] = NoEntry /\ Free # {}
        /\ LET e     == CHOOSE e \in Free : TRUE
               queue == Append(order, call[t].key)
               drop  == IF Len(queue) > kMaxRetainedOpens THEN 1 ELSE 0
           IN  /\ order' = SubSeq(queue, 1 + drop, Len(queue))
               /\ table' = [k \in Key |-> IF drop = 1 /\ k = queue[1] THEN NoEntry
                                          ELSE IF k = call[t].key THEN e ELSE table[k]]
               /\ call' = [call EXCEPT ![t].pc = "lock", ![t].entry = e]
        /\ Collect(opened)
  /\ UNCHANGED <<identityVars, held, published>>

\* entry->mutex, and whether somebody has opened it meanwhile.
Lock(t) ==
  /\ At(t, "lock")
  /\ LET e == call[t].entry
     IN  /\ opened[e].mutex = NoThread
         /\ opened' = [opened EXCEPT ![e].mutex = t]
         /\ Goes(t, IF opened[e].opened THEN "look" ELSE "request")
  /\ UNCHANGED <<table, order, identityVars, held, published>>

\* http::Open, with the mutex held: a validator, or a failure.
Request(t) ==
  /\ At(t, "request")
  /\ \/ \E v \in Captures(IdOf(t), PolicyOf(t)) :
          opened' = [opened EXCEPT ![call[t].entry].opened = TRUE, ![call[t].entry].reader = TRUE,
                                   ![call[t].entry].validator = v]
     \/ opened' = [opened EXCEPT ![call[t].entry].opened = TRUE]
  /\ Goes(t, "look")
  /\ UNCHANGED <<table, order, identityVars, held, published>>

\* Mutant: a contradiction is forgotten by the next answer that agrees.
Contradicted_NotLatched(seen, v) == seen.seen /\ seen.validator # v

\* Two answers differed, this one or any before it.
Contradicted(seen, v) == seen.contradicted \/ (seen.seen /\ seen.validator # v)

\* _RememberIdentity.
Remember(id, policy, v) ==
  LET seen == fingerprints[id]
  IN  /\ fingerprints' = [fingerprints EXCEPT ![id] =
           [validator |-> v, seen |-> TRUE, contradicted |-> Contradicted(seen, v)]]
      /\ \/ /\ identities[id].known
            /\ identities' = [identities EXCEPT ![id].validator = v,
                                                ![id].reachedUnder = @ \cup {policy}]
            /\ UNCHANGED identityOrder
         \/ /\ ~identities[id].known
            /\ LET queue == Append(identityOrder, id)
                   drop  == IF Len(queue) > kMaxRememberedIdentities THEN 1 ELSE 0
               IN  /\ identityOrder' = SubSeq(queue, 1 + drop, Len(queue))
                   /\ identities' = [i \in Ident |->
                        IF drop = 1 /\ i = queue[1] THEN NoIdentity
                        ELSE IF i = id
                        THEN [validator |-> v, reachedUnder |-> {policy}, known |-> TRUE]
                        ELSE identities[i]]

\* PublishIdentity: a stable token that never contradicted itself is a version.
\* What it is given was read under the identity lock, which is the moment the
\* publication is judged at.
Publish(id, v, contradicted) ==
  published' = IF IsStable(v) /\ ~contradicted
               THEN [published EXCEPT ![id].versions = @ \cup {v},
                                      ![id].astray = @ \/ ~(held[id] \subseteq {v})]
               ELSE published

\* What the entry says is used, whether or not its reader is still there.
Succeeded(t) == opened[call[t].entry].validator # NoValidator

Found(t) ==
  /\ At(t, "look") /\ Succeeded(t)
  /\ LET v == opened[call[t].entry].validator
     IN  /\ Remember(IdOf(t), PolicyOf(t), v)
         /\ IF call[t].what = "info" THEN Publish(IdOf(t), v, fingerprints'[IdOf(t)].contradicted)
            ELSE UNCHANGED published
  /\ Returns(t)
  /\ UNCHANGED <<table, order, held>>
  /\ Collect([opened EXCEPT ![call[t].entry].mutex = NoThread])

\* _IdentityFor lets go of the mutex before it forgets; _ResolveOnce holds it.
Unlock(t) ==
  /\ At(t, "look") /\ ~Succeeded(t)
  /\ IF call[t].what = "info" THEN opened' = [opened EXCEPT ![call[t].entry].mutex = NoThread]
     ELSE UNCHANGED opened
  /\ Goes(t, "forget")
  /\ UNCHANGED <<table, order, identityVars, held, published>>

\* Mutant: what is under the name is taken for what was looked up.
IsMine_ByName(t) == table[call[t].key] # NoEntry

\* The entry under the call's key is still the one the call got.
IsMine(t) == table[call[t].key] = call[t].entry

\* Mutant: the queue keeps the key.
Erase_KeepsOrder(k) == table' = [table EXCEPT ![k] = NoEntry] /\ UNCHANGED order

\* The key leaves a queue where it is met first.
Without(queue, k) ==
  LET at == {i \in DOMAIN queue : queue[i] = k}
  IN  IF at = {} THEN queue
      ELSE [i \in 1 .. Len(queue) - 1 |-> IF i < Min(at) THEN queue[i] ELSE queue[i + 1]]

\* The key leaves the table and the queue.
Erase(k) ==
  /\ table' = [table EXCEPT ![k] = NoEntry]
  /\ order' = Without(order, k)

\* _Forget: by identity, not by name.
Forget(t) ==
  /\ At(t, "forget")
  /\ \/ IsMine(t) /\ Erase(call[t].key)
     \/ ~IsMine(t) /\ UNCHANGED tableVars
  /\ Returns(t)
  /\ Collect([opened EXCEPT ![call[t].entry].mutex = IF @ = t THEN NoThread ELSE @])
  /\ UNCHANGED <<identityVars, held, published>>

------------------------------------------------------------------------------
\* _OpenAsset: the retained entry is taken out of the table, ...
Take(t) ==
  /\ At(t, "take")
  /\ LET k == call[t].key
     IN  \/ table[k] = NoEntry /\ Goes(t, "reopen") /\ UNCHANGED tableVars
         \/ /\ table[k] # NoEntry
            /\ Erase(k)
            /\ call' = [call EXCEPT ![t].pc = "claim", ![t].entry = table[k]]
  /\ UNCHANGED <<opened, identityVars, held, published>>

\* ... its reader out of the entry, once whoever opens it is done, ...
Claim(t) ==
  /\ At(t, "claim")
  /\ LET e == call[t].entry
     IN  /\ opened[e].mutex = NoThread
         /\ \/ /\ opened[e].reader
               /\ call' = [call EXCEPT ![t].pc = "hand", ![t].entry = NoEntry,
                                       ![t].validator = opened[e].validator]
            \/ /\ ~opened[e].reader
               /\ call' = [call EXCEPT ![t].pc = "reopen", ![t].entry = NoEntry]
         /\ UNCHANGED <<table, order, identityVars, held, published>>
         /\ Collect([opened EXCEPT ![e].reader = FALSE])

\* Mutant: its identity is not remembered.
Reopen_Unremembered(t) ==
  /\ At(t, "reopen")
  /\ \/ Returns(t)
     \/ \E v \in Captures(IdOf(t), PolicyOf(t)) :
          call' = [call EXCEPT ![t].pc = "wrap", ![t].validator = v]
  /\ UNCHANGED <<table, order, opened, identityVars, held, published>>

\* ... or this call opens its own, under no lock.
Reopen(t) ==
  /\ At(t, "reopen")
  /\ \/ Returns(t)
     \/ \E v \in Captures(IdOf(t), PolicyOf(t)) :
          call' = [call EXCEPT ![t].pc = "hand", ![t].validator = v]
  /\ UNCHANGED <<table, order, opened, identityVars, held, published>>

\* The identity is remembered before the asset is handed out.
RememberOpened(t) ==
  /\ At(t, "hand")
  /\ Remember(IdOf(t), PolicyOf(t), call[t].validator)
  /\ Goes(t, "wrap")
  /\ UNCHANGED <<table, order, opened, held, published>>

\* WrapAsset fails only when it is given no reader, and here there is one.
HandOut(t) ==
  /\ At(t, "wrap")
  /\ held' = [held EXCEPT ![IdOf(t)] = @ \cup {call[t].validator}]
  /\ Returns(t)
  /\ UNCHANGED <<table, order, opened, identityVars, published>>

------------------------------------------------------------------------------
\* Mutant: whatever is remembered is told.
Reachable_Known(t) == identities[IdOf(t)].known

\* _GetAssetInfo: from memory, for a caller that could have reached the asset
\* itself; otherwise through the table, if the caller has a resolved path.
Reachable(t) ==
  \E p \in identities[IdOf(t)].reachedUnder : Covers(PolicyOf(t), p)

KnownIdentity(t) ==
  /\ At(t, "known")
  /\ \/ /\ Reachable(t)
        /\ Publish(IdOf(t), identities[IdOf(t)].validator, fingerprints[IdOf(t)].contradicted)
        /\ Returns(t)
     \/ /\ ~Reachable(t)
        /\ Returns(t) \/ Goes(t, "get")
        /\ UNCHANGED published
  /\ UNCHANGED <<table, order, opened, identityVars, held>>

Step(t) ==
  \/ GetOrCreate(t) \/ Lock(t) \/ Request(t) \/ Found(t) \/ Unlock(t) \/ Forget(t)
  \/ Take(t) \/ Claim(t) \/ Reopen(t) \/ RememberOpened(t) \/ HandOut(t) \/ KnownIdentity(t)

Next == \E t \in Thread : Resolve(t) \/ OpenAsset(t) \/ GetAssetInfo(t) \/ Step(t)
Spec == Init /\ [][Next]_vars

------------------------------------------------------------------------------
\* _table and _order say the same: each retained key is queued once, nothing
\* else is, and the bound holds, whatever is taken, forgotten and evicted
\* concurrently (_GetOrCreate, _Take, _Forget).
TableIsQueued ==
  /\ Range(order) = {k \in Key : table[k] # NoEntry}
  /\ IsInjective(order)
  /\ Len(order) <= kMaxRetainedOpens

\* In one process at most one version is ever published for an identifier: a
\* republish withdraws reusability for good, although the answer it is compared
\* with may have aged out of the bounded table (_RememberIdentity, PublishIdentity).
AtMostOneVersion ==
  \A i \in Ident : \A v, w \in published[i].versions : v = w

\* A version that is published is, when the identity is looked up for it, the one
\* of every asset handed out for the identifier so far: asset info describes the
\* bytes the consumers hold, because an open is remembered before its asset is
\* returned (_OpenAsset, _RememberIdentity, _KnownIdentity).
VersionIsWhatIsHeld ==
  \A i \in Ident : ~published[i].astray

\* What another stage's open discovered is told only to a caller whose own
\* configuration could have reached the asset: a narrower policy never learns a
\* version from memory, whichever of the identifier's opens was remembered last
\* or aged out and came back (_KnownIdentity, DestinationPolicy::Covers).
AnswersWithinPolicy ==
  [][\A t \in Thread :
       At(t, "known") /\ call'[t] # call[t] /\ published' # published
         => Captures(IdOf(t), PolicyOf(t)) # {}]_vars

\* An open that succeeded and whose reader nobody claimed leaves the table only
\* by being taken or by making room in a full table as the oldest: a thread that forgets
\* a failure never discards a later success under the same key (_Forget).
RetainedUntilClaimed ==
  [][\A k \in Key :
       /\ table[k] # NoEntry /\ table'[k] # table[k]
       /\ opened[table[k]].reader
       => \/ \E t \in Thread : At(t, "take") /\ call'[t].entry = table[k]
          \/ order[1] = k /\ Len(order) = kMaxRetainedOpens /\ Len(order') = kMaxRetainedOpens]_vars

\* Concurrent resolutions of one identifier make one request: no two of them
\* are in http::Open at the same time.
ResolutionsShareARequest ==
  \A t, u \in Thread :
    /\ t # u /\ At(t, "request") /\ At(u, "request")
    /\ call[t].what = "resolve" /\ call[u].what = "resolve"
    => call[t].key # call[u].key
==============================================================================

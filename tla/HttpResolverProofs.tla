--------------------------- MODULE HttpResolverProofs ---------------------------
(***************************************************************************)
(* What asset info publishes and what the table of opens retains, for any  *)
(* number of threads, identifiers, policies and validators and for tables  *)
(* of any size: at most one version per identifier, and the one of every   *)
(* asset handed out, told only within the caller's policy; and an open     *)
(* that nobody claimed stays until it is the oldest of a full table.       *)
(*                                                                         *)
(* None is inductive. What is published rests on the fingerprints, which   *)
(* are never dropped: all that was published or handed out, and all that   *)
(* is about to be, agrees with the last fingerprint or the identifier is   *)
(* contradicted, and an identity that is remembered is the last            *)
(* fingerprint's. What is retained rests on which thread is in which       *)
(* entry, and on a failed open having no reader.                           *)
(***************************************************************************)
EXTENDS HttpResolver, TLAPS

Token == Validator \cup {NoValidator}

OpenedType == [opened : BOOLEAN, validator : Token, reader : BOOLEAN, mutex : Thread \cup {NoThread}]
OpenedOK(o) ==
  /\ o \in [Entry -> OpenedType]
  /\ \A e \in Entry : o[e].reader => o[e].validator \in Validator
StateOK ==
  /\ table \in [Key -> Entry \cup {NoEntry}]
  /\ OpenedOK(opened)
  /\ identities \in [Ident -> [validator : Token, reachedUnder : SUBSET Policy, known : BOOLEAN]]
  /\ fingerprints \in [Ident -> [validator : Token, seen : BOOLEAN, contradicted : BOOLEAN]]
  /\ held \in [Ident -> SUBSET Validator]
  /\ published \in [Ident -> [versions : SUBSET Validator, astray : BOOLEAN]]

\* A call has a key, and where it uses an entry or a validator it has one.
InEntry == {"lock", "request", "look", "forget", "claim"}
CallOK(c) ==
  /\ c.pc # "idle" => c.key \in Key
  /\ c.pc \in InEntry => c.entry \in Entry
  /\ c.pc \in {"hand", "wrap"} => c.validator \in Validator
CallPC == InEntry \cup {"idle", "get", "take", "reopen", "hand", "wrap", "known"}
CallType == [pc : CallPC, what : {"none", "resolve", "open", "info"}, key : Key \cup {NoKey},
             entry : Entry \cup {NoEntry}, validator : Token]
CallsOK ==
  /\ call \in [Thread -> CallType]
  /\ \A t \in Thread : CallOK(call[t])

\* The validator is the last that was seen, or the identifier has shown two.
Agrees(i, v) ==
  fingerprints[i].seen /\ (fingerprints[i].contradicted \/ fingerprints[i].validator = v)

Told(i) ==
  /\ identities[i].reachedUnder # {} => identities[i].known
  /\ identities[i].known
       => fingerprints[i].seen /\ fingerprints[i].validator = identities[i].validator
            /\ identities[i].validator \in Validator
  /\ \A v \in held[i] \cup published[i].versions : Agrees(i, v)
  /\ \A v, w \in published[i].versions : v = w
  /\ ~published[i].astray

Remembered == \A t \in Thread : At(t, "wrap") => Agrees(IdOf(t), call[t].validator)

IInv == StateOK /\ CallsOK /\ (\A i \in Ident : Told(i)) /\ Remembered

------------------------------------------------------------------------------
\* A key names an identifier and a policy.
LEMMA KeyParts ==
  ASSUME NEW k \in Key
  PROVE  k[1] \in Ident /\ k[2] \in Policy
BY ResolverAssumption, Zenon

\* No call is a call.
LEMMA IdleIsACall == NoCall \in CallType /\ NoCall.pc = "idle" /\ CallOK(NoCall)
<1>1. NoCall \in CallType
  BY Zenon DEF NoCall, CallType, CallPC, Token
<1>2. NoCall.pc = "idle"
  BY Zenon DEF NoCall
<1>3. CallOK(NoCall)
  BY <1>2, Zenon DEF CallOK, InEntry
<1> QED BY <1>1, <1>2, <1>3, Zenon

\* Types and agreements hold at the start.
LEMMA InitIsGood == Init => IInv
<1> SUFFICES ASSUME Init PROVE IInv
  BY Zenon
<1>1. StateOK
  BY ResolverAssumption, Zenon DEF Init, StateOK, OpenedOK, OpenedType, NewEntry, NoIdentity, Unseen, Token
<1>2. CallsOK
  BY IdleIsACall, Zenon DEF Init, CallsOK
<1>3. \A i \in Ident : Told(i)
  BY Zenon DEF Init, Told, NoIdentity
<1>4. Remembered
  BY Zenon DEF Init, Remembered, At, NoCall
<1> QED BY <1>1, <1>2, <1>3, <1>4, Zenon DEF IInv
------------------------------------------------------------------------------
\* Destroying what nothing refers to keeps the types.
LEMMA CollectKeepsTypes ==
  ASSUME NEW o, OpenedOK(o), Collect(o)
  PROVE  OpenedOK(opened')
BY Zenon DEF OpenedOK, OpenedType, Collect, NewEntry, Token

\* A step that leaves the identities alone, of a call that is not about to hand
\* out an asset after it.
LEMMA QuietStep ==
  ASSUME IInv, NEW t \in Thread, NEW c, call' = [call EXCEPT ![t] = c], c.pc # "wrap",
         c \in CallType, CallOK(c), StateOK', UNCHANGED <<identityVars, held, published>>
  PROVE  IInv'
<1>1. CallsOK'
  BY Zenon DEF IInv, CallsOK
<1>2. ASSUME NEW i \in Ident PROVE Told(i)'
  BY Zenon DEF IInv, Told, Agrees, identityVars
<1>3. Remembered'
  BY Zenon DEF IInv, CallsOK, Remembered, At, IdOf, Agrees, identityVars
<1> QED BY <1>1, <1>2, <1>3, Zenon DEF IInv

\* The call of a thread, and what it has.
LEMMA CallOf ==
  ASSUME IInv, NEW t \in Thread
  PROVE  /\ call[t] \in CallType /\ CallOK(call[t])
         /\ call[t].pc # "idle" => call[t].key \in Key /\ IdOf(t) \in Ident /\ PolicyOf(t) \in Policy
BY KeyParts, Zenon DEF IInv, CallsOK, CallOK, IdOf, PolicyOf

\* A call that begins.
LEMMA BeginsStep ==
  ASSUME IInv, NEW t \in Thread, Resolve(t) \/ OpenAsset(t) \/ GetAssetInfo(t)
  PROVE  IInv'
<1>1. PICK what \in {"resolve", "open", "info"}, pc \in {"get", "take", "known"} : Begins(t, what, pc)
  BY Zenon DEF Resolve, OpenAsset, GetAssetInfo
<1>2. PICK k \in Key :
        call' = [call EXCEPT ![t] = [NoCall EXCEPT !.what = what, !.pc = pc, !.key = k]]
  BY <1>1, Zenon DEF Begins
<1> DEFINE c == [NoCall EXCEPT !.what = what, !.pc = pc, !.key = k]
<1>3. c \in CallType /\ c.pc = pc /\ c.key = k
  BY IdleIsACall, Zenon DEF CallType, CallPC
<1>4. CallOK(c) /\ c.pc # "wrap"
  BY <1>3, Zenon DEF CallOK, InEntry
<1>5. StateOK' /\ UNCHANGED <<identityVars, held, published>>
  BY <1>1, Zenon DEF Begins, IInv, StateOK, identityVars
<1> HIDE DEF c
<1> QED BY <1>2, <1>3, <1>4, <1>5, QuietStep, Zenon DEF c
\* _GetOrCreate: the entry that is found, or a new one.
LEMMA GetOrCreateStep ==
  ASSUME IInv, NEW t \in Thread, GetOrCreate(t)
  PROVE  IInv'
<1>1. call[t] \in CallType /\ call[t].key \in Key
  BY CallOf, Zenon DEF GetOrCreate, At
<1>2. PICK e \in Entry : call' = [call EXCEPT ![t].pc = "lock", ![t].entry = e]
  <2>1. CASE table[call[t].key] # NoEntry
    BY <1>1, <2>1, Zenon DEF GetOrCreate, IInv, StateOK
  <2>2. CASE table[call[t].key] = NoEntry
    <3>1. (CHOOSE e \in Free : TRUE) \in Entry
      BY <2>2, Zenon DEF GetOrCreate, Free
    <3> QED BY <2>2, <3>1, Zenon DEF GetOrCreate
  <2> QED BY <2>1, <2>2, Zenon
<1> DEFINE c == [call[t] EXCEPT !.pc = "lock", !.entry = e]
<1>3. call' = [call EXCEPT ![t] = c]
  BY <1>1, <1>2, Zenon DEF IInv, CallsOK, CallType
<1>4. c \in CallType /\ CallOK(c) /\ c.pc # "wrap"
  BY <1>1, Zenon DEF CallType, CallPC, CallOK, InEntry
<1>5. OpenedOK(opened')
  BY CollectKeepsTypes, Zenon DEF GetOrCreate, IInv, StateOK
<1>6. table' \in [Key -> Entry \cup {NoEntry}]
  <2>1. CASE table[call[t].key] # NoEntry
    BY <2>1, Zenon DEF GetOrCreate, IInv, StateOK
  <2>2. CASE table[call[t].key] = NoEntry
    <3>1. (CHOOSE x \in Free : TRUE) \in Entry
      BY <2>2, Zenon DEF GetOrCreate, Free
    <3> QED BY <2>2, <3>1, Zenon DEF GetOrCreate, IInv, StateOK
  <2> QED BY <2>1, <2>2, Zenon
<1>7. StateOK' /\ UNCHANGED <<identityVars, held, published>>
  BY <1>5, <1>6, Zenon DEF GetOrCreate, IInv, StateOK, identityVars
<1> HIDE DEF c
<1> QED BY <1>3, <1>4, <1>7, QuietStep, Zenon

\* The step of a call that goes on at pc, or with another entry or validator.
LEMMA GoesOn ==
  ASSUME IInv, NEW t \in Thread, call[t].pc # "idle", NEW pc \in CallPC, Goes(t, pc),
         pc \in InEntry => call[t].entry \in Entry,
         pc \notin {"hand", "wrap"}, StateOK', UNCHANGED <<identityVars, held, published>>
  PROVE  IInv'
<1> DEFINE c == [call[t] EXCEPT !.pc = pc]
<1>1. call[t] \in CallType /\ call[t].key \in Key
  BY CallOf, Zenon
<1>2. call' = [call EXCEPT ![t] = c]
  BY <1>1, Zenon DEF Goes, IInv, CallsOK, CallType
<1>3. c \in CallType /\ CallOK(c) /\ c.pc # "wrap"
  BY <1>1, Zenon DEF CallType, CallOK
<1> HIDE DEF c
<1> QED BY <1>2, <1>3, QuietStep, Zenon

\* The step of a call that returns.
LEMMA ReturnsStep ==
  ASSUME IInv, NEW t \in Thread, Returns(t), StateOK', UNCHANGED <<identityVars, held, published>>
  PROVE  IInv'
BY IdleIsACall, QuietStep, Zenon DEF Returns

\* One entry is written.
LEMMA UpdateKeepsTypes ==
  ASSUME NEW o, OpenedOK(o), NEW e \in Entry, NEW r \in OpenedType,
         r.reader => r.validator \in Validator
  PROVE  OpenedOK([o EXCEPT ![e] = r])
BY Zenon DEF OpenedOK

\* What an entry becomes when it is locked or unlocked, opened, or gives up its reader.
LEMMA EntryUpdates ==
  ASSUME NEW o, OpenedOK(o), NEW e \in Entry, NEW m \in Thread \cup {NoThread}
  PROVE  /\ OpenedOK([o EXCEPT ![e].mutex = m])
         /\ OpenedOK([o EXCEPT ![e].reader = FALSE])
         /\ OpenedOK([o EXCEPT ![e].opened = TRUE])
         /\ \A v \in Validator :
              OpenedOK([o EXCEPT ![e].opened = TRUE, ![e].reader = TRUE, ![e].validator = v])
<1>1. o[e] \in OpenedType /\ (o[e].reader => o[e].validator \in Validator)
  BY Zenon DEF OpenedOK
<1>2. OpenedOK([o EXCEPT ![e].mutex = m])
  <2>1. [o[e] EXCEPT !.mutex = m] \in OpenedType
    BY <1>1, Zenon DEF OpenedType
  <2>2. [o[e] EXCEPT !.mutex = m].reader = o[e].reader
    BY <1>1, Zenon DEF OpenedType
  <2>3. [o[e] EXCEPT !.mutex = m].validator = o[e].validator
    BY <1>1, Zenon DEF OpenedType
  <2> QED BY <1>1, <2>1, <2>2, <2>3, UpdateKeepsTypes, Zenon
<1>3. OpenedOK([o EXCEPT ![e].reader = FALSE])
  <2>1. [o[e] EXCEPT !.reader = FALSE] \in OpenedType
    BY <1>1, Zenon DEF OpenedType
  <2>2. ~[o[e] EXCEPT !.reader = FALSE].reader
    BY <1>1, Zenon DEF OpenedType
  <2> QED BY <2>1, <2>2, UpdateKeepsTypes, Zenon
<1>4. OpenedOK([o EXCEPT ![e].opened = TRUE])
  <2>1. [o[e] EXCEPT !.opened = TRUE] \in OpenedType
    BY <1>1, Zenon DEF OpenedType
  <2>2. [o[e] EXCEPT !.opened = TRUE].reader = o[e].reader
    BY <1>1, Zenon DEF OpenedType
  <2>3. [o[e] EXCEPT !.opened = TRUE].validator = o[e].validator
    BY <1>1, Zenon DEF OpenedType
  <2> QED BY <1>1, <2>1, <2>2, <2>3, UpdateKeepsTypes, Zenon
<1>5. ASSUME NEW v \in Validator
      PROVE  OpenedOK([o EXCEPT ![e].opened = TRUE, ![e].reader = TRUE, ![e].validator = v])
  <2> DEFINE r == [o[e] EXCEPT !.opened = TRUE, !.reader = TRUE, !.validator = v]
  <2>1. r \in OpenedType /\ r.validator = v
    BY <1>1, Zenon DEF OpenedType, Token
  <2>2. [o EXCEPT ![e].opened = TRUE, ![e].reader = TRUE, ![e].validator = v] = [o EXCEPT ![e] = r]
    BY Zenon DEF OpenedOK
  <2> QED BY <2>1, <2>2, UpdateKeepsTypes, Zenon
<1> QED BY <1>2, <1>3, <1>4, <1>5, Zenon

\* entry->mutex, http::Open under it, and what follows a failure.
LEMMA EntryStep ==
  ASSUME IInv, NEW t \in Thread, Lock(t) \/ Request(t) \/ Unlock(t)
  PROVE  IInv'
<1>1. /\ call[t] \in CallType /\ call[t].entry \in Entry /\ call[t].pc # "idle"
      /\ IdOf(t) \in Ident /\ PolicyOf(t) \in Policy
  BY CallOf, Zenon DEF Lock, Request, Unlock, At, CallOK, InEntry
<1>2. PICK pc \in {"look", "request", "forget"} : Goes(t, pc)
  BY Zenon DEF Lock, Request, Unlock
<1>3. OpenedOK(opened')
  <2>1. OpenedOK(opened)
    BY Zenon DEF IInv, StateOK
  <2>2. \A v \in Captures(IdOf(t), PolicyOf(t)) : v \in Validator
    BY <1>1, ResolverAssumption, Zenon
  <2>3. CASE Lock(t)
    <3>1. opened' = [opened EXCEPT ![call[t].entry].mutex = t]
      BY <2>3, Zenon DEF Lock
    <3> QED BY <1>1, <2>1, <3>1, EntryUpdates, Zenon
  <2>4. CASE Request(t)
    <3> DEFINE e == call[t].entry
    <3>1. \/ opened' = [opened EXCEPT ![e].opened = TRUE]
          \/ \E v \in Validator :
               opened' = [opened EXCEPT ![e].opened = TRUE, ![e].reader = TRUE, ![e].validator = v]
      BY <2>2, <2>4, Zenon DEF Request
    <3>2. NoThread \in Thread \cup {NoThread} /\ e \in Entry
      BY <1>1, Zenon
    <3> HIDE DEF e
    <3>3. /\ OpenedOK([opened EXCEPT ![e].opened = TRUE])
          /\ \A v \in Validator :
               OpenedOK([opened EXCEPT ![e].opened = TRUE, ![e].reader = TRUE, ![e].validator = v])
      BY <2>1, <3>2, EntryUpdates, Zenon
    <3> QED BY <3>1, <3>3, Zenon
  <2>5. CASE Unlock(t)
    <3>1. \/ opened' = opened
          \/ opened' = [opened EXCEPT ![call[t].entry].mutex = NoThread]
      BY <2>5, Zenon DEF Unlock
    <3>2. NoThread \in Thread \cup {NoThread}
      BY Zenon
    <3>3. OpenedOK([opened EXCEPT ![call[t].entry].mutex = NoThread])
      BY <1>1, <2>1, <3>2, EntryUpdates, Zenon
    <3> QED BY <2>1, <3>1, <3>3, Zenon
  <2> QED BY <2>3, <2>4, <2>5, Zenon
<1>4. StateOK' /\ UNCHANGED <<identityVars, held, published>>
  BY <1>3, Zenon DEF Lock, Request, Unlock, IInv, StateOK, identityVars
<1>5. pc \in CallPC /\ pc \notin {"hand", "wrap"}
  BY Zenon DEF CallPC, InEntry
<1> QED BY <1>1, <1>2, <1>4, <1>5, GoesOn, Zenon
\* _Forget, whether or not the entry is still the one under the key.
LEMMA ForgetStep ==
  ASSUME IInv, NEW t \in Thread, Forget(t)
  PROVE  IInv'
<1>1. call[t].entry \in Entry
  BY CallOf, Zenon DEF Forget, At, CallOK, InEntry
<1>2. OpenedOK(opened')
  <2> DEFINE m == IF opened[call[t].entry].mutex = t THEN NoThread ELSE opened[call[t].entry].mutex
  <2>1. m \in Thread \cup {NoThread} /\ OpenedOK(opened)
    BY <1>1, Zenon DEF IInv, StateOK, OpenedOK, OpenedType
  <2>2. Collect([opened EXCEPT ![call[t].entry].mutex = m])
    BY Zenon DEF Forget
  <2> HIDE DEF m
  <2>3. OpenedOK([opened EXCEPT ![call[t].entry].mutex = m])
    BY <1>1, <2>1, EntryUpdates, Zenon
  <2> QED BY <2>2, <2>3, CollectKeepsTypes, Zenon
<1>3. StateOK' /\ UNCHANGED <<identityVars, held, published>>
  BY <1>2, Zenon DEF Forget, Erase, tableVars, IInv, StateOK, identityVars
<1> QED BY <1>3, ReturnsStep, Zenon DEF Forget

\* _Take: the entry under the key, out of the table.
LEMMA TakeStep ==
  ASSUME IInv, NEW t \in Thread, Take(t)
  PROVE  IInv'
<1>1. call[t] \in CallType /\ call[t].key \in Key /\ call[t].pc # "idle"
  BY CallOf, Zenon DEF Take, At
<1>2. StateOK' /\ UNCHANGED <<identityVars, held, published>>
  BY Zenon DEF Take, Erase, tableVars, IInv, StateOK, identityVars
<1>3. CASE table[call[t].key] = NoEntry
  BY <1>1, <1>2, <1>3, GoesOn, Zenon DEF Take, CallPC, InEntry
<1>4. CASE table[call[t].key] # NoEntry
  <2> DEFINE c == [call[t] EXCEPT !.pc = "claim", !.entry = table[call[t].key]]
  <2>1. table[call[t].key] \in Entry
    BY <1>1, <1>4, Zenon DEF IInv, StateOK
  <2>2. call' = [call EXCEPT ![t] = c]
    BY <1>1, <1>4, Zenon DEF Take, IInv, CallsOK, CallType
  <2>3. c \in CallType /\ CallOK(c) /\ c.pc # "wrap"
    BY <1>1, <2>1, Zenon DEF CallType, CallPC, CallOK, InEntry
  <2> HIDE DEF c
  <2> QED BY <1>2, <2>2, <2>3, QuietStep, Zenon
<1> QED BY <1>3, <1>4, Zenon

\* The reader leaves its entry, if nobody has taken it.
LEMMA ClaimStep ==
  ASSUME IInv, NEW t \in Thread, Claim(t)
  PROVE  IInv'
<1>1. call[t] \in CallType /\ call[t].key \in Key /\ call[t].entry \in Entry
  BY CallOf, Zenon DEF Claim, At, CallOK, InEntry
<1>2. StateOK' /\ UNCHANGED <<identityVars, held, published>>
  <2>1. OpenedOK([opened EXCEPT ![call[t].entry].reader = FALSE])
    BY <1>1, EntryUpdates, Zenon DEF IInv, StateOK
  <2>2. OpenedOK(opened')
    BY <2>1, CollectKeepsTypes, Zenon DEF Claim
  <2> QED BY <2>2, Zenon DEF Claim, IInv, StateOK, identityVars
<1>3. CASE opened[call[t].entry].reader
  <2> DEFINE c == [call[t] EXCEPT !.pc = "hand", !.entry = NoEntry,
                                  !.validator = opened[call[t].entry].validator]
  <2>1. opened[call[t].entry].validator \in Validator
    BY <1>1, <1>3, Zenon DEF IInv, StateOK, OpenedOK
  <2>2. call' = [call EXCEPT ![t] = c]
    BY <1>1, <1>3, Zenon DEF Claim, IInv, CallsOK, CallType
  <2>3. c \in CallType /\ CallOK(c) /\ c.pc # "wrap"
    BY <1>1, <2>1, Zenon DEF CallType, CallPC, CallOK, InEntry, Token
  <2> HIDE DEF c
  <2> QED BY <1>2, <2>2, <2>3, QuietStep, Zenon
<1>4. CASE ~opened[call[t].entry].reader
  <2> DEFINE c == [call[t] EXCEPT !.pc = "reopen", !.entry = NoEntry]
  <2>1. call' = [call EXCEPT ![t] = c]
    BY <1>1, <1>4, Zenon DEF Claim, IInv, CallsOK, CallType
  <2>2. c \in CallType /\ CallOK(c) /\ c.pc # "wrap"
    BY <1>1, Zenon DEF CallType, CallPC, CallOK, InEntry
  <2> HIDE DEF c
  <2> QED BY <1>2, <2>1, <2>2, QuietStep, Zenon
<1> QED BY <1>3, <1>4, Zenon

\* An open of the call's own.
LEMMA ReopenStep ==
  ASSUME IInv, NEW t \in Thread, Reopen(t)
  PROVE  IInv'
<1>1. /\ call[t] \in CallType /\ call[t].key \in Key
      /\ IdOf(t) \in Ident /\ PolicyOf(t) \in Policy
  BY CallOf, Zenon DEF Reopen, At
<1>2. StateOK' /\ UNCHANGED <<identityVars, held, published>>
  BY Zenon DEF Reopen, IInv, StateOK, identityVars
<1>3. CASE Returns(t)
  BY <1>2, <1>3, ReturnsStep, Zenon
<1>4. ASSUME NEW v \in Captures(IdOf(t), PolicyOf(t)),
             call' = [call EXCEPT ![t].pc = "hand", ![t].validator = v]
      PROVE  IInv'
  <2> DEFINE c == [call[t] EXCEPT !.pc = "hand", !.validator = v]
  <2>1. v \in Validator
    BY <1>1, ResolverAssumption, Zenon
  <2>2. call' = [call EXCEPT ![t] = c]
    BY <1>1, <1>4, Zenon DEF IInv, CallsOK, CallType
  <2>3. c \in CallType /\ CallOK(c) /\ c.pc # "wrap"
    BY <1>1, <2>1, Zenon DEF CallType, CallPC, CallOK, InEntry, Token
  <2> HIDE DEF c
  <2> QED BY <1>2, <2>2, <2>3, QuietStep, Zenon
<1> QED BY <1>3, <1>4, Zenon DEF Reopen
------------------------------------------------------------------------------
\* What is remembered of an identifier is its last fingerprint.
IdentityTypes ==
  /\ identities \in [Ident -> [validator : Token, reachedUnder : SUBSET Policy, known : BOOLEAN]]
  /\ fingerprints \in [Ident -> [validator : Token, seen : BOOLEAN, contradicted : BOOLEAN]]
Known(i) ==
  /\ identities[i].reachedUnder # {} => identities[i].known
  /\ identities[i].known
       => fingerprints[i].seen /\ fingerprints[i].validator = identities[i].validator
            /\ identities[i].validator \in Validator

\* _RememberIdentity: what agreed still does, and the new validator does.
LEMMA RememberAgrees ==
  ASSUME IInv, NEW id \in Ident, NEW policy \in Policy, NEW v \in Validator, Remember(id, policy, v)
  PROVE  /\ IdentityTypes'
         /\ \A i \in Ident : Known(i)'
         /\ \A i \in Ident : \A w : Agrees(i, w) => Agrees(i, w)'
         /\ Agrees(id, v)'
         /\ fingerprints'[id].validator = v
         /\ ~fingerprints'[id].contradicted => \A w : Agrees(id, w) => w = v
<1> DEFINE f == [validator |-> v, seen |-> TRUE, contradicted |-> Contradicted(fingerprints[id], v)]
<1>1. IdentityTypes /\ \A i \in Ident : Known(i)
  BY Zenon DEF IInv, StateOK, IdentityTypes, Told, Known
<1>2. fingerprints' = [fingerprints EXCEPT ![id] = f]
  BY Zenon DEF Remember
<1>3. f \in [validator : Token, seen : BOOLEAN, contradicted : BOOLEAN]
  BY <1>1, Zenon DEF Contradicted, IdentityTypes, Token
<1>4. fingerprints' \in [Ident -> [validator : Token, seen : BOOLEAN, contradicted : BOOLEAN]]
  BY <1>1, <1>2, <1>3, Zenon DEF IdentityTypes
<1>5. fingerprints'[id] = f /\ \A i \in Ident \ {id} : fingerprints'[i] = fingerprints[i]
  BY <1>1, <1>2, Zenon DEF IdentityTypes
<1>11. /\ f.seen /\ f.validator = v
       /\ fingerprints[id].contradicted => f.contradicted
       /\ fingerprints[id].seen /\ fingerprints[id].validator # v => f.contradicted
  BY Zenon DEF Contradicted
<1> HIDE DEF f
<1>6. ASSUME NEW i \in Ident, NEW w, Agrees(i, w) PROVE Agrees(i, w)'
  <2>1. CASE i # id
    BY <1>5, <1>6, <2>1, Zenon DEF Agrees
  <2>2. CASE i = id
    BY <1>5, <1>6, <1>11, <2>2, Zenon DEF Agrees
  <2> QED BY <2>1, <2>2, Zenon
<1>7. Agrees(id, v)' /\ fingerprints'[id].validator = v
  BY <1>5, <1>11, Zenon DEF Agrees
<1>8. ~fingerprints'[id].contradicted => \A w : Agrees(id, w) => w = v
  BY <1>5, <1>11, Zenon DEF Agrees
<1>9. /\ identities' \in [Ident -> [validator : Token, reachedUnder : SUBSET Policy, known : BOOLEAN]]
      /\ identities'[id].known => identities'[id].validator = v
      /\ identities'[id].reachedUnder # {} => identities'[id].known
      /\ \A i \in Ident \ {id} : identities'[i] = identities[i] \/ identities'[i] = NoIdentity
  <2>1. CASE identities[id].known
    <3>1. PICK r \in [validator : Token, reachedUnder : SUBSET Policy, known : BOOLEAN] :
            r = identities[id]
      BY <1>1, Zenon DEF IdentityTypes
    <3>2. PICK w : w = [r EXCEPT !.validator = v, !.reachedUnder = r.reachedUnder \cup {policy}]
      BY Zenon
    <3>3. v \in Token /\ policy \in Policy /\ r.known
      BY <1>1, <2>1, <3>1, Zenon DEF Token
    <3>4. /\ w \in [validator : Token, reachedUnder : SUBSET Policy, known : BOOLEAN]
          /\ w.known /\ w.validator = v
      BY <3>2, <3>3, Zenon
    <3>5. identities' = [identities EXCEPT ![id] = w]
      BY <1>1, <2>1, <3>1, <3>2, Zenon DEF Remember, IdentityTypes
    <3> QED BY <1>1, <3>4, <3>5, Zenon DEF IdentityTypes
  <2>2. CASE ~identities[id].known
    <3> DEFINE r == [validator |-> v, reachedUnder |-> {policy}, known |-> TRUE]
    <3>1. PICK gone : identities' = [i \in Ident |-> IF gone[i] THEN NoIdentity
                                                     ELSE IF i = id THEN r ELSE identities[i]]
      <4> DEFINE queue == Append(identityOrder, id)
                 drop  == IF Len(queue) > kMaxRememberedIdentities THEN 1 ELSE 0
                 gone  == [i \in Ident |-> drop = 1 /\ i = queue[1]]
      <4>1. identities' = [i \in Ident |-> IF drop = 1 /\ i = queue[1] THEN NoIdentity
                                           ELSE IF i = id THEN r ELSE identities[i]]
        BY <2>2, Zenon DEF Remember
      <4>2. \A i \in Ident : gone[i] <=> (drop = 1 /\ i = queue[1])
        BY Zenon
      <4> HIDE DEF queue, drop, gone, r
      <4> QED BY <4>1, <4>2, Zenon
    <3>2. /\ NoIdentity \in [validator : Token, reachedUnder : SUBSET Policy, known : BOOLEAN]
          /\ ~NoIdentity.known /\ NoIdentity.reachedUnder = {}
      BY Zenon DEF NoIdentity, Token
    <3>3. /\ r \in [validator : Token, reachedUnder : SUBSET Policy, known : BOOLEAN]
          /\ r.known /\ r.validator = v
      BY Zenon DEF Token
    <3> HIDE DEF r
    <3> QED BY <1>1, <3>1, <3>2, <3>3, Zenon DEF IdentityTypes
  <2> QED BY <2>1, <2>2, Zenon DEF Remember
<1>10. ASSUME NEW i \in Ident PROVE Known(i)'
  <2>1. CASE i = id
    BY <1>5, <1>7, <1>9, <1>11, <2>1, Zenon DEF Known
  <2>2. CASE i # id
    <3>1. ~NoIdentity.known /\ NoIdentity.reachedUnder = {}
      BY Zenon DEF NoIdentity
    <3> QED BY <1>1, <1>5, <1>9, <2>2, <3>1, Zenon DEF Known
  <2> QED BY <2>1, <2>2, Zenon
<1> QED BY <1>4, <1>6, <1>7, <1>8, <1>9, <1>10, Zenon DEF IdentityTypes
\* What was published or handed out agrees, and is one version.
Shown(i) ==
  /\ \A v \in held[i] \cup published[i].versions : Agrees(i, v)
  /\ \A v, w \in published[i].versions : v = w
  /\ ~published[i].astray
PublishedType == [versions : SUBSET Validator, astray : BOOLEAN]

\* PublishIdentity, of the last fingerprint.
LEMMA PublishShows ==
  ASSUME IInv, NEW id \in Ident, NEW v \in Validator, NEW c, Publish(id, v, c), UNCHANGED held,
         \A i \in Ident : \A w : Agrees(i, w) => Agrees(i, w)',
         Agrees(id, v)',
         ~c => \A w : Agrees(id, w) => w = v
  PROVE  published' \in [Ident -> PublishedType] /\ \A i \in Ident : Shown(i)'
<1>1. published \in [Ident -> PublishedType] /\ \A i \in Ident : Shown(i)
  BY Zenon DEF IInv, StateOK, Told, Shown, PublishedType
<1>2. CASE UNCHANGED published
  BY <1>1, <1>2, Zenon DEF Shown
<1>3. CASE ~c /\ published' = [published EXCEPT ![id].versions = @ \cup {v},
                                                ![id].astray = @ \/ ~(held[id] \subseteq {v})]
  <2> DEFINE p == [versions |-> published[id].versions \cup {v}, astray |-> FALSE]
  <2>1. \A w \in held[id] \cup published[id].versions : w = v
    BY <1>1, <1>3, Zenon DEF Shown
  <2>2. published[id] \in PublishedType /\ ~published[id].astray
    BY <1>1, Zenon DEF Shown
  <2>3. published' = [published EXCEPT ![id] = p]
    <3>1. (published[id].astray \/ ~(held[id] \subseteq {v})) = FALSE
      BY <2>1, <2>2, Zenon
    <3>2. published'[id] = p
      BY <1>1, <1>3, <2>2, <3>1, Zenon DEF PublishedType
    <3> QED BY <1>1, <1>3, <3>2, Zenon
  <2>4. p \in PublishedType
    BY <2>2, Zenon DEF PublishedType
  <2>5. published' \in [Ident -> PublishedType]
    BY <1>1, <2>3, <2>4, Zenon
  <2>6. ASSUME NEW i \in Ident PROVE Shown(i)'
    <3>1. CASE i # id
      BY <1>1, <2>3, <3>1, Zenon DEF Shown
    <3>2. CASE i = id
      <4>1. published'[i] = p
        BY <1>1, <2>3, <3>2, Zenon
      <4>2. \A w \in held[id] \cup p.versions : w = v
        BY <2>1, Zenon
      <4> QED BY <3>2, <4>1, <4>2 DEF Shown
    <3> QED BY <3>1, <3>2, Zenon
  <2> QED BY <2>5, <2>6, Zenon
<1> QED BY <1>2, <1>3, Zenon DEF Publish

\* A step after which what is remembered and what is shown is in order.
LEMMA ToldStep ==
  ASSUME IInv, OpenedOK(opened'), table' \in [Key -> Entry \cup {NoEntry}], IdentityTypes',
         held' \in [Ident -> SUBSET Validator], published' \in [Ident -> PublishedType],
         \A i \in Ident : Known(i)' /\ Shown(i)',
         \A i \in Ident : \A w : Agrees(i, w) => Agrees(i, w)',
         NEW t \in Thread, NEW c \in CallType, CallOK(c), call' = [call EXCEPT ![t] = c],
         c.pc = "wrap" => Agrees(c.key[1], c.validator)'
  PROVE  IInv'
<1>1. StateOK'
  BY Zenon DEF StateOK, IdentityTypes, PublishedType
<1>2. CallsOK'
  BY Zenon DEF IInv, CallsOK
<1>3. \A i \in Ident : Told(i)'
  BY Zenon DEF Told, Known, Shown
<1>4. ASSUME NEW u \in Thread, At(u, "wrap")' PROVE Agrees(IdOf(u), call[u].validator)'
  <2>1. CASE u = t
    BY <1>4, <2>1, Zenon DEF IInv, CallsOK, At, IdOf, Agrees
  <2>2. CASE u # t
    <3>1. call'[u] = call[u]
      BY <2>2, Zenon DEF IInv, CallsOK
    <3>2. At(u, "wrap") /\ IdOf(u) \in Ident
      BY <1>4, <3>1, CallOf, Zenon DEF At
    <3>3. Agrees(IdOf(u), call[u].validator)
      BY <3>2, Zenon DEF IInv, Remembered
    <3> DEFINE i == IdOf(u)
               w == call[u].validator
    <3>4. IdOf(u)' = i /\ call'[u].validator = w
      BY <3>1, Zenon DEF IdOf
    <3> QED BY <3>2, <3>3, <3>4, Zenon DEF Agrees
  <2> QED BY <2>1, <2>2, Zenon
<1>5. Remembered'
  BY <1>4, Zenon DEF Remembered
<1> QED BY <1>1, <1>2, <1>3, <1>5, Zenon DEF IInv
\* The identity of an open is remembered before its asset is handed out.
LEMMA RememberOpenedStep ==
  ASSUME IInv, NEW t \in Thread, RememberOpened(t)
  PROVE  IInv'
<1>1. /\ call[t] \in CallType /\ call[t].key \in Key /\ call[t].validator \in Validator
      /\ IdOf(t) \in Ident /\ PolicyOf(t) \in Policy
  BY CallOf, Zenon DEF RememberOpened, At, CallOK
<1>2. PICK c : c = [call[t] EXCEPT !.pc = "wrap"]
  BY Zenon
<1>3. /\ call' = [call EXCEPT ![t] = c]
      /\ c \in CallType /\ CallOK(c) /\ c.key = call[t].key /\ c.validator = call[t].validator
  <2>1. call' = [call EXCEPT ![t] = c]
    BY <1>1, <1>2, Zenon DEF RememberOpened, Goes, IInv, CallsOK, CallType
  <2> QED BY <1>1, <1>2, <2>1, Zenon DEF CallType, CallPC, CallOK, InEntry
<1>4. PICK id \in Ident, v \in Validator : id = IdOf(t) /\ v = call[t].validator
  BY <1>1, Zenon
<1>5. /\ IdentityTypes' /\ \A i \in Ident : Known(i)'
      /\ \A i \in Ident : \A w : Agrees(i, w) => Agrees(i, w)'
      /\ Agrees(id, v)'
  <2>1. Remember(id, PolicyOf(t), v)
    BY <1>4, Zenon DEF RememberOpened
  <2> QED BY <1>1, <2>1, RememberAgrees, Zenon
<1>6. UNCHANGED <<table, opened, held, published>>
  BY Zenon DEF RememberOpened
<1>7. \A i \in Ident : Shown(i)'
  BY <1>5, <1>6, Zenon DEF IInv, Told, Shown
<1>8. Agrees(c.key[1], c.validator)'
  BY <1>3, <1>4, <1>5, Zenon DEF IdOf
<1>9. /\ OpenedOK(opened') /\ table' \in [Key -> Entry \cup {NoEntry}]
      /\ held' \in [Ident -> SUBSET Validator] /\ published' \in [Ident -> PublishedType]
  BY <1>6, Zenon DEF IInv, StateOK, PublishedType
<1> QED BY <1>3, <1>5, <1>7, <1>8, <1>9, ToldStep, Zenon
\* The asset is handed out.
LEMMA HandOutStep ==
  ASSUME IInv, NEW t \in Thread, HandOut(t)
  PROVE  IInv'
<1>1. /\ At(t, "wrap") /\ IdOf(t) \in Ident /\ call[t].validator \in Validator
      /\ Agrees(IdOf(t), call[t].validator)
  BY CallOf, Zenon DEF HandOut, At, CallOK, IInv, Remembered
<1>2. PICK id \in Ident, v \in Validator : id = IdOf(t) /\ v = call[t].validator
  BY <1>1, Zenon
<1>3. /\ held' = [held EXCEPT ![id] = @ \cup {v}]
      /\ UNCHANGED <<table, opened, identityVars, published>> /\ Returns(t)
  BY <1>2, Zenon DEF HandOut
<1>4. held' \in [Ident -> SUBSET Validator]
  BY <1>3, Zenon DEF IInv, StateOK
<1>5. /\ IdentityTypes' /\ OpenedOK(opened') /\ table' \in [Key -> Entry \cup {NoEntry}]
      /\ published' \in [Ident -> PublishedType]
  BY <1>3, Zenon DEF IInv, StateOK, IdentityTypes, PublishedType, identityVars
<1>6. \A i \in Ident : \A w : Agrees(i, w)' <=> Agrees(i, w)
  BY <1>3, Zenon DEF Agrees, identityVars
<1>7. ASSUME NEW i \in Ident PROVE Known(i)' /\ Shown(i)'
  <2>1. Known(i)'
    BY <1>3, Zenon DEF IInv, Told, Known, identityVars
  <2>2. held'[i] \subseteq held[i] \cup {v} /\ (i # id => held'[i] = held[i])
    BY <1>3, Zenon DEF IInv, StateOK
  <2>3. \A w \in held'[i] \cup published'[i].versions : Agrees(i, w)'
    BY <1>1, <1>2, <1>3, <1>6, <2>2 DEF IInv, Told
  <2> QED BY <1>3, <2>1, <2>3, Zenon DEF IInv, Told, Shown
<1>8. PICK c \in CallType : c = NoCall
  BY IdleIsACall, Zenon
<1>9. CallOK(c) /\ c.pc # "wrap" /\ call' = [call EXCEPT ![t] = c]
  BY <1>3, <1>8, IdleIsACall, Zenon DEF Returns
<1> QED BY <1>4, <1>5, <1>6, <1>7, <1>9, ToldStep, Zenon

\* _ResolveOnce and _IdentityFor once the entry succeeded.
LEMMA FoundStep ==
  ASSUME IInv, NEW t \in Thread, Found(t)
  PROVE  IInv'
<1>1. /\ call[t].entry \in Entry /\ IdOf(t) \in Ident /\ PolicyOf(t) \in Policy
      /\ opened[call[t].entry].validator \in Validator
  <2>1. call[t].entry \in Entry /\ IdOf(t) \in Ident /\ PolicyOf(t) \in Policy
    BY CallOf, Zenon DEF Found, At, CallOK, InEntry
  <2> QED BY <2>1, Zenon DEF Found, Succeeded, IInv, StateOK, OpenedOK, OpenedType, Token
<1>2. PICK id \in Ident, v \in Validator : id = IdOf(t) /\ v = opened[call[t].entry].validator
  BY <1>1, Zenon
<1>3. /\ Remember(id, PolicyOf(t), v)
      /\ Publish(id, v, fingerprints'[id].contradicted) \/ UNCHANGED published
      /\ Returns(t) /\ UNCHANGED <<table, held>>
      /\ Collect([opened EXCEPT ![call[t].entry].mutex = NoThread])
  BY <1>2, Zenon DEF Found
<1>4. /\ IdentityTypes' /\ \A i \in Ident : Known(i)'
      /\ \A i \in Ident : \A w : Agrees(i, w) => Agrees(i, w)'
      /\ Agrees(id, v)'
      /\ ~fingerprints'[id].contradicted => \A w : Agrees(id, w) => w = v
  BY <1>1, <1>3, RememberAgrees, Zenon
<1>5. published' \in [Ident -> PublishedType] /\ \A i \in Ident : Shown(i)'
  <2>1. CASE UNCHANGED published
    BY <1>3, <1>4, <2>1 DEF IInv, StateOK, Told, Shown, PublishedType
  <2>2. CASE Publish(id, v, fingerprints'[id].contradicted)
    <3>1. PICK c : c = fingerprints'[id].contradicted
      BY Zenon
    <3> QED BY <1>3, <1>4, <2>2, <3>1, PublishShows, Zenon
  <2> QED BY <1>3, <2>1, <2>2, Zenon
<1>6. OpenedOK(opened')
  <2>1. OpenedOK([opened EXCEPT ![call[t].entry].mutex = NoThread])
    BY <1>1, EntryUpdates, Zenon DEF IInv, StateOK
  <2> QED BY <1>3, <2>1, CollectKeepsTypes, Zenon
<1>7. table' \in [Key -> Entry \cup {NoEntry}] /\ held' \in [Ident -> SUBSET Validator]
  BY <1>3, Zenon DEF IInv, StateOK
<1>8. PICK c \in CallType : c = NoCall
  BY IdleIsACall
<1>9. CallOK(c) /\ c.pc # "wrap" /\ call' = [call EXCEPT ![t] = c]
  BY <1>3, <1>8, IdleIsACall, Zenon DEF Returns
<1> QED BY <1>4, <1>5, <1>6, <1>7, <1>9, ToldStep, Zenon
\* _KnownIdentity, and the two ways on from it.
LEMMA KnownIdentityStep ==
  ASSUME IInv, NEW t \in Thread, KnownIdentity(t)
  PROVE  IInv'
<1>1. call[t].pc # "idle" /\ IdOf(t) \in Ident
  BY CallOf, Zenon DEF KnownIdentity, At
<1>2. UNCHANGED <<table, opened, identityVars, held>>
  BY Zenon DEF KnownIdentity
<1>3. CASE ~Reachable(t)
  <2>1. StateOK' /\ UNCHANGED <<identityVars, held, published>>
    BY <1>2, <1>3, Zenon DEF KnownIdentity, IInv, StateOK, identityVars
  <2>2. Returns(t) \/ Goes(t, "get")
    BY <1>3, Zenon DEF KnownIdentity
  <2>3. "get" \in CallPC /\ "get" \notin InEntry
    BY Zenon DEF CallPC, InEntry
  <2> QED BY <1>1, <2>1, <2>2, <2>3, GoesOn, ReturnsStep, Zenon
<1>4. CASE Reachable(t)
  <2>1. Known(IdOf(t)) /\ identities[IdOf(t)].known
    BY <1>1, <1>4, Zenon DEF Reachable, IInv, Told, Known
  <2>2. PICK id \in Ident, v \in Validator : id = IdOf(t) /\ v = identities[id].validator
    BY <1>1, <2>1, Zenon DEF Known
  <2>3. PICK c : c = fingerprints[id].contradicted
    BY Zenon
  <2>4. Publish(id, v, c) /\ Returns(t)
    BY <1>4, <2>2, <2>3, Zenon DEF KnownIdentity
  <2>5. /\ Agrees(id, v)
        /\ ~c => \A w : Agrees(id, w) => w = v
    BY <2>1, <2>2, <2>3, Zenon DEF Known, Agrees
  <2>6. \A i \in Ident : \A w : Agrees(i, w)' <=> Agrees(i, w)
    BY <1>2, Zenon DEF Agrees, identityVars
  <2>7. published' \in [Ident -> PublishedType] /\ \A i \in Ident : Shown(i)'
    BY <1>2, <2>4, <2>5, <2>6, PublishShows, Zenon
  <2>8. /\ IdentityTypes' /\ OpenedOK(opened') /\ table' \in [Key -> Entry \cup {NoEntry}]
        /\ held' \in [Ident -> SUBSET Validator] /\ \A i \in Ident : Known(i)'
    BY <1>2, Zenon DEF IInv, StateOK, IdentityTypes, Told, Known, identityVars
  <2>9. PICK d \in CallType : d = NoCall
    BY IdleIsACall
  <2>10. CallOK(d) /\ d.pc # "wrap" /\ call' = [call EXCEPT ![t] = d]
    BY <2>4, <2>9, IdleIsACall, Zenon DEF Returns
  <2> QED BY <2>6, <2>7, <2>8, <2>10, ToldStep, Zenon
<1> QED BY <1>3, <1>4, Zenon

------------------------------------------------------------------------------
\* Every step of every call keeps what is remembered and what is shown in agreement.
LEMMA StepsAgree == IInv /\ [Next]_vars => IInv'
<1> SUFFICES ASSUME IInv, [Next]_vars PROVE IInv'
  BY Zenon
<1>1. CASE UNCHANGED vars
  <2>1. StateOK'
    BY <1>1, Zenon DEF vars, IInv, StateOK
  <2>2. CallsOK' /\ Remembered'
    BY <1>1, Zenon DEF vars, IInv, CallsOK, Remembered, At, IdOf, Agrees
  <2>3. \A i \in Ident : Told(i)'
    BY <1>1, Zenon DEF vars, IInv, Told, Agrees
  <2> QED BY <2>1, <2>2, <2>3, Zenon DEF IInv
<1>2. ASSUME NEW t \in Thread, Resolve(t) \/ OpenAsset(t) \/ GetAssetInfo(t) PROVE IInv'
  BY <1>2, BeginsStep, Zenon
<1>3. ASSUME NEW t \in Thread, Step(t) PROVE IInv'
  BY <1>3, GetOrCreateStep, EntryStep, FoundStep, ForgetStep, TakeStep, ClaimStep, ReopenStep,
     RememberOpenedStep, HandOutStep, KnownIdentityStep, Zenon DEF Step
<1> QED BY <1>1, <1>2, <1>3, Zenon DEF Next

\* In one process at most one version is ever published for an identifier, however
\* often the asset is republished and whatever the bounded tables drop
\* (_RememberIdentity, PublishIdentity).
THEOREM OneVersion == Spec => []AtMostOneVersion
<1>1. IInv => AtMostOneVersion
  BY Zenon DEF IInv, Told, AtMostOneVersion
<1> QED BY InitIsGood, StepsAgree, <1>1, PTL DEF Spec

\* Whatever asset info publishes is, when it is looked up, the version of every
\* asset handed out for the identifier (_OpenAsset, _KnownIdentity).
THEOREM VersionsAreHeld == Spec => []VersionIsWhatIsHeld
<1>1. IInv => VersionIsWhatIsHeld
  BY Zenon DEF IInv, Told, VersionIsWhatIsHeld
<1> QED BY InitIsGood, StepsAgree, <1>1, PTL DEF Spec

------------------------------------------------------------------------------
(***************************************************************************)
(* The table and its queue.                                                *)
(***************************************************************************)

\* A key that joins at the end of a queue.
LEMMA QueueAppend ==
  ASSUME NEW s \in Seq(Key), IsInjective(s), NEW k \in Key, k \notin Range(s),
         NEW q, q = Append(s, k)
  PROVE  /\ q \in Seq(Key) /\ Len(q) = Len(s) + 1 /\ IsInjective(q) /\ Range(q) = Range(s) \cup {k}
         /\ Len(s) > 0 => q[1] = s[1]
<1>1. /\ q \in Seq(Key) /\ Len(q) = Len(s) + 1 /\ q[Len(s) + 1] = k /\ Len(s) \in Nat
      /\ \A i \in 1 .. Len(s) : q[i] = s[i]
  OBVIOUS
<1>2. DOMAIN s = 1 .. Len(s) /\ DOMAIN q = 1 .. Len(s) + 1
  BY <1>1
<1>3. \A i \in 1 .. Len(s) : s[i] # k
  BY <1>2, Zenon DEF Range
<1>4. \A i \in 1 .. Len(s) + 1 : i \in 1 .. Len(s) \/ i = Len(s) + 1
  BY <1>1
<1>5. IsInjective(q)
  BY <1>1, <1>2, <1>3, <1>4 DEF IsInjective
<1>6. Range(q) = Range(s) \cup {k}
  BY <1>1, <1>2, <1>4 DEF Range
<1> QED BY <1>1, <1>5, <1>6

\* The oldest leaves.
LEMMA QueueTail ==
  ASSUME NEW s \in Seq(Key), IsInjective(s), Len(s) > 0, NEW q, q = SubSeq(s, 2, Len(s))
  PROVE  /\ q \in Seq(Key) /\ Len(q) = Len(s) - 1 /\ IsInjective(q) /\ Range(q) = Range(s) \ {s[1]}
<1>1. PICK n \in Nat : n = Len(s)
  OBVIOUS
<1>2. DOMAIN s = 1 .. n /\ n > 0
  BY <1>1
<1>3. /\ q \in Seq(Key) /\ Len(q) = n - 1 /\ \A i \in 1 .. n - 1 : q[i] = s[1 + i]
  <2>1. q = SubSeq(s, 2, n)
    BY <1>1, Zenon
  <2>2. q = [i \in 1 .. n - 1 |-> s[1 + i]]
    BY <1>1, <1>2, <2>1
  <2> QED BY <1>1, <1>2, <2>2
<1>4. DOMAIN q = 1 .. n - 1
  BY <1>3
<1>5. IsInjective(q)
  BY <1>2, <1>3, <1>4 DEF IsInjective
<1>6. Range(q) = Range(s) \ {s[1]}
  <2>1. ASSUME NEW x \in Range(s), x # s[1]
        PROVE  x \in Range(q)
    <3>1. PICK i \in 1 .. n : s[i] = x
      BY <1>2, <2>1, Zenon DEF Range
    <3>2. i # 1 /\ i - 1 \in 1 .. n - 1 /\ 1 + (i - 1) = i
      BY <1>2, <2>1, <3>1
    <3> QED BY <1>3, <1>4, <3>1, <3>2, Zenon DEF Range
  <2>2. ASSUME NEW x \in Range(q)
        PROVE  x \in Range(s) /\ x # s[1]
    <3>1. PICK i \in 1 .. n - 1 : q[i] = x
      BY <1>4, <2>2, Zenon DEF Range
    <3>2. 1 + i \in 1 .. n /\ 1 + i # 1 /\ 1 \in 1 .. n
      BY <1>2, <3>1
    <3> QED BY <1>2, <1>3, <3>1, <3>2, Zenon DEF Range, IsInjective
  <2> QED BY <2>1, <2>2, Zenon
<1> QED BY <1>1, <1>3, <1>5, <1>6, Zenon

\* A key leaves from wherever it is.
LEMMA QueueRemove ==
  ASSUME NEW s \in Seq(Key), IsInjective(s), NEW k \in Key, k \in Range(s),
         NEW q, q = Without(s, k)
  PROVE  q \in Seq(Key) /\ Len(q) = Len(s) - 1 /\ IsInjective(q) /\ Range(q) = Range(s) \ {k}
<1>1. PICK n \in Nat : n = Len(s) /\ DOMAIN s = 1 .. n
  OBVIOUS
<1>2. PICK j \in 1 .. n : s[j] = k
  BY <1>1, Zenon DEF Range
<1>3. {i \in 1 .. n : s[i] = k} = {j}
  BY <1>1, <1>2, Zenon DEF IsInjective
<1>4. Min({j}) = j
  <2>1. \A x \in {j} : (\A y \in {j} : x <= y) <=> x = j
    BY <1>2
  <2>2. (CHOOSE x \in {j} : \A y \in {j} : x <= y) = j
    BY <2>1, Zenon
  <2> QED BY <2>2, Zenon DEF Min
<1>5. q = [i \in 1 .. n - 1 |-> IF i < j THEN s[i] ELSE s[i + 1]]
  <2>1. {i \in DOMAIN s : s[i] = k} = {j}
    BY <1>1, <1>3, Zenon
  <2> QED BY <1>1, <1>4, <2>1, Zenon DEF Without
<1>6. \A i \in 1 .. n - 1 : (IF i < j THEN s[i] ELSE s[i + 1]) \in Key
  BY <1>1, <1>2
<1>7. n - 1 \in Nat
  BY <1>2
<1>10. /\ q \in Seq(Key) /\ Len(q) = n - 1
       /\ \A i \in 1 .. n - 1 : q[i] = IF i < j THEN s[i] ELSE s[i + 1]
  BY <1>5, <1>6, <1>7
<1>11. DOMAIN q = 1 .. n - 1
  BY <1>10
<1> DEFINE at(i) == IF i < j THEN i ELSE i + 1
<1>12. \A i \in 1 .. n - 1 : q[i] = s[at(i)] /\ at(i) \in 1 .. n /\ at(i) # j
  BY <1>2, <1>10
<1>13. \A i, m \in 1 .. n - 1 : at(i) = at(m) => i = m
  BY <1>2
<1>14. \A i \in 1 .. n : i # j => \E m \in 1 .. n - 1 : at(m) = i
  <2> SUFFICES ASSUME NEW i \in 1 .. n, i # j
               PROVE  \E m \in 1 .. n - 1 : at(m) = i
    BY Zenon
  <2>1. CASE i < j
    <3>1. i \in 1 .. n - 1 /\ at(i) = i
      BY <1>2, <2>1
    <3> QED BY <3>1, Zenon
  <2>2. CASE ~(i < j)
    <3>1. i - 1 \in 1 .. n - 1 /\ at(i - 1) = i
      BY <1>2, <2>2
    <3> QED BY <3>1, Zenon
  <2> QED BY <2>1, <2>2, Zenon
<1> HIDE DEF at
<1>15. IsInjective(q)
  BY <1>1, <1>11, <1>12, <1>13 DEF IsInjective
<1>16. Range(q) = Range(s) \ {k}
  <2>1. ASSUME NEW x \in Range(q)
        PROVE  x \in Range(s) /\ x # k
    <3>1. PICK i \in 1 .. n - 1 : x = q[i]
      BY <1>11, <2>1, Zenon DEF Range
    <3> QED BY <1>1, <1>2, <1>12, <3>1 DEF Range, IsInjective
  <2>2. ASSUME NEW x \in Range(s), x # k
        PROVE  x \in Range(q)
    <3>1. PICK i \in 1 .. n : x = s[i]
      BY <1>1, <2>2, Zenon DEF Range
    <3>2. PICK m \in 1 .. n - 1 : at(m) = i
      BY <1>2, <1>14, <2>2, <3>1, Zenon
    <3> QED BY <1>11, <1>12, <3>1, <3>2, Zenon DEF Range
  <2> QED BY <2>1, <2>2, Zenon
<1> QED BY <1>1, <1>10, <1>15, <1>16, Zenon

Queued == order \in Seq(Key) /\ TableIsQueued

\* A key is erased from the table and from the queue.
LEMMA EraseKeeps ==
  ASSUME Queued, table \in [Key -> Entry \cup {NoEntry}], NEW k \in Key, table[k] # NoEntry, Erase(k)
  PROVE  Queued' /\ table'[k] = NoEntry /\ \A l \in Key : l # k => table'[l] = table[l]
<1>1. /\ order \in Seq(Key) /\ IsInjective(order) /\ Len(order) <= kMaxRetainedOpens
      /\ Range(order) = {l \in Key : table[l] # NoEntry}
  BY Zenon DEF Queued, TableIsQueued
<1>2. k \in Range(order) /\ order' = Without(order, k)
  BY <1>1, Zenon DEF Erase
<1>3. /\ order' \in Seq(Key) /\ Len(order') = Len(order) - 1 /\ IsInjective(order')
      /\ Range(order') = Range(order) \ {k}
  BY <1>1, <1>2, QueueRemove, Zenon
<1>4. table'[k] = NoEntry /\ \A l \in Key : l # k => table'[l] = table[l]
  BY Zenon DEF Erase
<1>5. Range(order') = {l \in Key : table'[l] # NoEntry}
  BY <1>1, <1>3, <1>4, Zenon
<1>6. Len(order') <= kMaxRetainedOpens
  BY <1>1, <1>3, ResolverAssumption
<1> QED BY <1>3, <1>4, <1>5, <1>6, Zenon DEF Queued, TableIsQueued

\* An entry is created, and the oldest makes room for it if there is none.
LEMMA CreateKeeps ==
  ASSUME Queued, table \in [Key -> Entry \cup {NoEntry}], NEW t \in Thread, GetOrCreate(t),
         call[t].key \in Key, table[call[t].key] = NoEntry
  PROVE  /\ Queued'
         /\ \A k \in Key : table[k] # NoEntry /\ table'[k] # table[k]
              => order[1] = k /\ Len(order) = kMaxRetainedOpens /\ Len(order') = kMaxRetainedOpens
         /\ \E e \in Free : /\ call' = [call EXCEPT ![t].pc = "lock", ![t].entry = e]
                            /\ \A k \in Key : table'[k] \in {table[k], NoEntry}
                                                \/ (k = call[t].key /\ table'[k] = e)
<1>1. PICK key \in Key : key = call[t].key
  BY Zenon
<1>e. PICK e \in Free : e = CHOOSE x \in Free : TRUE
  <2>1. Free # {}
    BY Zenon DEF GetOrCreate
  <2> QED BY <2>1, Zenon
<1>q. PICK queue : queue = Append(order, key)
  BY Zenon
<1>d. PICK drop : drop = IF Len(queue) > kMaxRetainedOpens THEN 1 ELSE 0
  BY Zenon
<1>2. /\ e \in Free /\ queue = Append(order, key)
      /\ drop = IF Len(queue) > kMaxRetainedOpens THEN 1 ELSE 0
      /\ order' = SubSeq(queue, 1 + drop, Len(queue))
      /\ table' = [k \in Key |-> IF drop = 1 /\ k = queue[1] THEN NoEntry
                                 ELSE IF k = key THEN e ELSE table[k]]
      /\ call' = [call EXCEPT ![t].pc = "lock", ![t].entry = e]
  BY <1>1, <1>e, <1>q, <1>d, Zenon DEF GetOrCreate
<1>3. /\ order \in Seq(Key) /\ IsInjective(order) /\ Len(order) <= kMaxRetainedOpens
      /\ Range(order) = {l \in Key : table[l] # NoEntry}
  BY Zenon DEF Queued, TableIsQueued
<1>4. key \notin Range(order)
  BY <1>1, <1>3, Zenon
<1>5. /\ queue \in Seq(Key) /\ Len(queue) = Len(order) + 1 /\ IsInjective(queue)
      /\ Range(queue) = Range(order) \cup {key} /\ (Len(order) > 0 => queue[1] = order[1])
  BY <1>2, <1>3, <1>4, QueueAppend, Zenon
<1>6. PICK n \in Nat, max \in Nat \ {0} : n = Len(order) /\ max = kMaxRetainedOpens
  BY <1>3, ResolverAssumption
<1>7. e # NoEntry
  BY <1>2, ResolverAssumption, Zenon DEF Free
<1>8. CASE Len(queue) > kMaxRetainedOpens
  <2>1. drop = 1 /\ n = max /\ n > 0 /\ Len(queue) > 0
    BY <1>2, <1>3, <1>5, <1>6, <1>8
  <2>2. order' = SubSeq(queue, 2, Len(queue))
    <3>1. 1 + drop = 2
      BY <2>1
    <3> QED BY <1>2, <3>1, Zenon
  <2>3. /\ order' \in Seq(Key) /\ Len(order') = Len(queue) - 1 /\ IsInjective(order')
        /\ Range(order') = Range(queue) \ {queue[1]}
    BY <1>5, <2>1, <2>2, QueueTail, Zenon
  <2>4. queue[1] = order[1] /\ order[1] \in Range(order) /\ order[1] # key
    <3>1. DOMAIN order = 1 .. n
      BY <1>3, <1>6
    <3>2. 1 \in DOMAIN order
      BY <2>1, <3>1
    <3> QED BY <1>4, <1>5, <1>6, <2>1, <3>2, Zenon DEF Range
  <2>5. \A k \in Key : table'[k] = IF k = order[1] THEN NoEntry ELSE IF k = key THEN e ELSE table[k]
    BY <1>2, <2>1, <2>4, Zenon
  <2>6. Range(order') = {l \in Key : table'[l] # NoEntry}
    BY <1>3, <1>5, <1>7, <2>3, <2>4, <2>5, Zenon
  <2>7. Len(order') = kMaxRetainedOpens
    <3>1. PICK m : m = Len(queue)
      BY Zenon
    <3>2. m = n + 1 /\ Len(order') = m - 1
      BY <1>5, <1>6, <2>3, <3>1, Zenon
    <3> QED BY <1>6, <2>1, <3>2
  <2>8. Queued'
    <3>1. Len(order') <= kMaxRetainedOpens
      BY <1>6, <2>7
    <3> QED BY <2>3, <2>6, <3>1, Zenon DEF Queued, TableIsQueued
  <2>9. \A k \in Key : table[k] # NoEntry /\ table'[k] # table[k] => order[1] = k
    BY <1>1, <2>5, Zenon
  <2>10. \A k \in Key : table'[k] \in {table[k], NoEntry} \/ (k = call[t].key /\ table'[k] = e)
    BY <1>1, <2>5, Zenon
  <2> QED BY <1>2, <1>6, <2>1, <2>7, <2>8, <2>9, <2>10, Zenon
<1>9. CASE ~(Len(queue) > kMaxRetainedOpens)
  <2>1. drop = 0 /\ Len(queue) <= max /\ Len(queue) = n + 1
    BY <1>2, <1>5, <1>6, <1>9
  <2>2. order' = queue
    <3>1. order' = SubSeq(queue, 1, Len(queue))
      BY <1>2, <2>1
    <3> QED BY <1>5, <3>1
  <2>3. \A k \in Key : table'[k] = IF k = key THEN e ELSE table[k]
    BY <1>2, <2>1
  <2>4. Range(order') = {l \in Key : table'[l] # NoEntry}
    BY <1>3, <1>5, <1>7, <2>2, <2>3, Zenon
  <2>5. Queued'
    BY <1>5, <1>6, <2>1, <2>2, <2>4, Zenon DEF Queued, TableIsQueued
  <2>6. \A k \in Key : ~(table[k] # NoEntry /\ table'[k] # table[k])
    BY <1>1, <2>3, Zenon
  <2>7. \A k \in Key : table'[k] \in {table[k], NoEntry} \/ (k = call[t].key /\ table'[k] = e)
    BY <1>1, <2>3, Zenon
  <2> QED BY <1>2, <2>5, <2>6, <2>7, Zenon
<1> QED BY <1>8, <1>9, Zenon

\* Only _GetOrCreate, _Take and _Forget touch the table.
LEMMA QueuedNext ==
  ASSUME IInv, Queued, [Next]_vars
  PROVE  Queued'
<1>1. table \in [Key -> Entry \cup {NoEntry}]
  BY Zenon DEF IInv, StateOK
<1>2. CASE UNCHANGED <<table, order>>
  BY <1>2, Zenon DEF Queued, TableIsQueued
<1>3. ASSUME NEW t \in Thread, GetOrCreate(t)
      PROVE  Queued'
  <2>1. call[t].key \in Key
    BY <1>3, CallOf, Zenon DEF GetOrCreate, At
  <2>2. CASE table[call[t].key] = NoEntry
    BY <1>1, <1>3, <2>1, <2>2, CreateKeeps, Zenon
  <2>3. CASE table[call[t].key] # NoEntry
    BY <1>2, <1>3, <2>3, Zenon DEF GetOrCreate
  <2> QED BY <2>2, <2>3, Zenon
<1>4. ASSUME NEW t \in Thread, Forget(t)
      PROVE  Queued'
  <2>1. call[t].key \in Key /\ call[t].entry \in Entry
    BY <1>4, CallOf, Zenon DEF Forget, At, CallOK, InEntry
  <2>2. CASE IsMine(t)
    <3>1. table[call[t].key] # NoEntry /\ Erase(call[t].key)
      BY <1>4, <2>1, <2>2, ResolverAssumption, Zenon DEF Forget, IsMine
    <3> QED BY <1>1, <2>1, <3>1, EraseKeeps, Zenon
  <2>3. CASE ~IsMine(t)
    BY <1>2, <1>4, <2>3, Zenon DEF Forget, tableVars
  <2> QED BY <2>2, <2>3, Zenon
<1>5. ASSUME NEW t \in Thread, Take(t)
      PROVE  Queued'
  <2>1. call[t].key \in Key
    BY <1>5, CallOf, Zenon DEF Take, At
  <2>2. CASE table[call[t].key] # NoEntry
    BY <1>1, <1>5, <2>1, <2>2, EraseKeeps, Zenon DEF Take
  <2>3. CASE table[call[t].key] = NoEntry
    BY <1>2, <1>5, <2>3, Zenon DEF Take, tableVars
  <2> QED BY <2>2, <2>3, Zenon
<1>6. ASSUME NEW t \in Thread,
             \/ Resolve(t) \/ OpenAsset(t) \/ GetAssetInfo(t) \/ Lock(t) \/ Request(t)
             \/ Found(t) \/ Unlock(t) \/ Claim(t) \/ Reopen(t) \/ RememberOpened(t)
             \/ HandOut(t) \/ KnownIdentity(t)
      PROVE  UNCHANGED <<table, order>>
  BY <1>6, Zenon DEF Resolve, OpenAsset, GetAssetInfo, Begins, Lock, Request, Found, Unlock, Claim,
              Reopen, RememberOpened, HandOut, KnownIdentity
<1>7. CASE UNCHANGED vars
  BY <1>2, <1>7, Zenon DEF vars
<1> QED BY <1>2, <1>3, <1>4, <1>5, <1>6, <1>7, Zenon DEF Next, Step

\* Both start empty.
LEMMA QueuedInit == Init => Queued
<1> SUFFICES ASSUME Init
             PROVE  Queued
  BY Zenon
<1>1. order = <<>> /\ \A k \in Key : table[k] = NoEntry
  BY Zenon DEF Init
<1>2. order \in Seq(Key) /\ Len(order) = 0 /\ DOMAIN order = {}
  BY <1>1
<1>3. Len(order) <= kMaxRetainedOpens
  BY <1>2, ResolverAssumption
<1> QED BY <1>1, <1>2, <1>3, Zenon DEF Queued, TableIsQueued, Range, IsInjective

\* The table and the queue agree, and the bound holds, for tables of any size
\* (_GetOrCreate, _Take, _Forget).
THEOREM TableAndQueueAgree == Spec => []TableIsQueued
<1>1. IInv /\ Queued /\ [Next]_vars => Queued'
  BY QueuedNext, Zenon
<1>2. Queued => TableIsQueued
  BY Zenon DEF Queued
<1> QED BY <1>1, <1>2, QueuedInit, InitIsGood, StepsAgree, PTL DEF Spec

------------------------------------------------------------------------------
(***************************************************************************)
(* The entries: who is in one, and the key it is known by.                 *)
(***************************************************************************)

\* Whoever is in an entry holds its mutex, and what was opened and failed stays so.
EntryHeld(t) ==
  LET e == call[t].entry
  IN  /\ At(t, "request") => opened[e].mutex = t /\ ~opened[e].opened
      /\ At(t, "look") => opened[e].mutex = t /\ opened[e].opened
      /\ At(t, "forget") => opened[e].opened /\ opened[e].validator = NoValidator

\* The table or a call refers to the entry under the key.
Refers(e, k) == table[k] = e \/ \E t \in Thread : call[t].entry = e /\ call[t].key = k

Reached(k) == Captures(k[1], k[2]) # {}

\* An entry has one key, which could be reached if it was.
EntryKeyed(e) ==
  \A k \in Key : Refers(e, k) =>
    /\ \A l \in Key : Refers(e, l) => l = k
    /\ opened[e].validator # NoValidator => Reached(k)

Keyed ==
  /\ \A e \in Entry : EntryKeyed(e)
  /\ \A t \in Thread : call[t].pc \in {"hand", "wrap"} => Reached(call[t].key)
  /\ \A i \in Ident : \A p \in identities[i].reachedUnder : Captures(i, p) # {}

Entries == (\A t \in Thread : EntryHeld(t)) /\ Keyed

\* What a call in an entry relies on, as long as it does not move.
LEMMA HeldStays ==
  ASSUME NEW u \in Thread, EntryHeld(u), call'[u] = call[u],
         NEW e, e = call[u].entry,
         call[u].pc \in {"request", "look", "forget"} =>
           /\ opened'[e].opened = opened[e].opened /\ opened'[e].validator = opened[e].validator
           /\ opened[e].mutex = u => opened'[e].mutex = u
  PROVE  EntryHeld(u)'
BY Zenon DEF EntryHeld, At

\* A step of t that makes no new reference but to what is under its key, and
\* that reaches an asset only under its own.
LEMMA EntriesMove ==
  ASSUME IInv, Entries, NEW t \in Thread, NEW c \in CallType, call' = [call EXCEPT ![t] = c],
         \A k \in Key : table'[k] \in {table[k], NoEntry},
         \/ c.entry = NoEntry
         \/ c.entry = call[t].entry /\ c.key = call[t].key
         \/ c.key \in Key /\ c.entry = table[c.key],
         \A u \in Thread : u # t => EntryHeld(u)',
         EntryHeld(t)',
         \A e \in Entry : \/ opened'[e].validator \in {opened[e].validator, NoValidator}
                          \/ /\ e = call[t].entry
                             /\ call[t].key \in Key /\ Reached(call[t].key),
         c.pc \in {"hand", "wrap"} => Reached(c.key),
         \A i \in Ident : \A p \in identities'[i].reachedUnder :
           p \in identities[i].reachedUnder \/ Captures(i, p) # {}
  PROVE  Entries'
<1>1. call \in [Thread -> CallType] /\ NoEntry \notin Entry
  BY ResolverAssumption, Zenon DEF IInv, CallsOK
<1>2. call'[t] = c /\ \A u \in Thread : u # t => call'[u] = call[u]
  BY <1>1, Zenon
<1>3. \A e \in Entry, k \in Key : Refers(e, k)' => Refers(e, k)
  <2> SUFFICES ASSUME NEW e \in Entry, NEW k \in Key, Refers(e, k)'
               PROVE  Refers(e, k)
    BY Zenon
  <2>1. CASE table'[k] = e
    BY <1>1, <2>1, Zenon DEF Refers
  <2>2. ASSUME NEW u \in Thread, call'[u].entry = e, call'[u].key = k
        PROVE  Refers(e, k)
    BY <1>1, <1>2, <2>2, Zenon DEF Refers
  <2> QED BY <2>1, <2>2, Zenon DEF Refers
<1>4. ASSUME NEW e \in Entry
      PROVE  EntryKeyed(e)'
  <2> SUFFICES ASSUME NEW k \in Key, Refers(e, k)'
               PROVE  /\ \A l \in Key : Refers(e, l)' => l = k
                      /\ opened'[e].validator # NoValidator => Reached(k)
    BY Zenon DEF EntryKeyed, Reached
  <2>1. Refers(e, k) /\ EntryKeyed(e)
    BY <1>3, Zenon DEF Entries, Keyed
  <2>2. \A l \in Key : Refers(e, l)' => l = k
    BY <1>3, <2>1, Zenon DEF EntryKeyed
  <2>3. ASSUME opened'[e].validator # NoValidator
        PROVE  Reached(k)
    <3>1. CASE opened'[e].validator = opened[e].validator
      BY <2>1, <2>3, <3>1, Zenon DEF EntryKeyed
    <3>2. CASE e = call[t].entry /\ call[t].key \in Key /\ Reached(call[t].key)
      <4>1. Refers(e, call[t].key)
        BY <3>2, Zenon DEF Refers
      <4> QED BY <2>1, <3>2, <4>1, Zenon DEF EntryKeyed
    <3> QED BY <2>3, <3>1, <3>2, Zenon
  <2> QED BY <2>2, <2>3, Zenon
<1>5. \A u \in Thread : call'[u].pc \in {"hand", "wrap"} => Reached(call'[u].key)
  BY <1>2, Zenon DEF Entries, Keyed
<1>6. \A i \in Ident : \A p \in identities'[i].reachedUnder : Captures(i, p) # {}
  BY Zenon DEF Entries, Keyed
<1>7. Keyed'
  BY <1>4, <1>5, <1>6, Zenon DEF Keyed, Reached
<1> QED BY <1>7, Zenon DEF Entries

\* What Collect leaves of the entries of calls.
LEMMA Collects ==
  ASSUME NEW o, Collect(o), \A e \in Entry : o[e].validator \in {opened[e].validator, NoValidator}
  PROVE  /\ \A u \in Thread : call'[u].entry \in Entry => opened'[call'[u].entry] = o[call'[u].entry]
         /\ \A e \in Entry : opened'[e].validator \in {opened[e].validator, NoValidator}
BY Zenon DEF Collect, NewEntry

\* A step that leaves the entries as they are.
LEMMA EntriesQuiet ==
  ASSUME IInv, Entries, NEW t \in Thread, NEW c \in CallType, call' = [call EXCEPT ![t] = c],
         opened' = opened, \A k \in Key : table'[k] \in {table[k], NoEntry},
         \/ c.entry = NoEntry
         \/ c.entry = call[t].entry /\ c.key = call[t].key
         \/ c.key \in Key /\ c.entry = table[c.key],
         c.pc \notin {"request", "look", "forget"},
         c.pc \in {"hand", "wrap"} => Reached(c.key),
         \A i \in Ident : \A p \in identities'[i].reachedUnder :
           p \in identities[i].reachedUnder \/ Captures(i, p) # {}
  PROVE  Entries'
<1>1. call'[t] = c /\ \A u \in Thread : u # t => call'[u] = call[u]
  BY Zenon DEF IInv, CallsOK
<1>2. \A u \in Thread : u # t => EntryHeld(u)'
  BY <1>1, HeldStays, Zenon DEF Entries
<1>3. EntryHeld(t)'
  BY <1>1, Zenon DEF EntryHeld, At
<1> QED BY <1>2, <1>3, EntriesMove, Zenon

\* A call begins with no entry.
LEMMA EntriesBegin ==
  ASSUME IInv, Entries, NEW t \in Thread, Resolve(t) \/ OpenAsset(t) \/ GetAssetInfo(t)
  PROVE  Entries'
<1>1. PICK what \in {"resolve", "open", "info"}, pc \in {"get", "take", "known"} : Begins(t, what, pc)
  BY Zenon DEF Resolve, OpenAsset, GetAssetInfo
<1>2. PICK k \in Key :
        call' = [call EXCEPT ![t] = [NoCall EXCEPT !.what = what, !.pc = pc, !.key = k]]
  BY <1>1, Zenon DEF Begins
<1>3. PICK c : c = [NoCall EXCEPT !.what = what, !.pc = pc, !.key = k]
  BY Zenon
<1>4. c \in CallType /\ c.pc = pc /\ c.entry = NoEntry
  <2>1. NoCall.entry = NoEntry
    BY Zenon DEF NoCall
  <2> QED BY <1>3, <2>1, IdleIsACall, Zenon DEF CallType, CallPC
<1>5. opened' = opened /\ table' = table /\ identities' = identities
  BY <1>1, Zenon DEF Begins, identityVars
<1> QED BY <1>2, <1>3, <1>4, <1>5, EntriesQuiet, Zenon


\* The entry under the call's key: found by _GetOrCreate, or taken.
LEMMA EntriesFind ==
  ASSUME IInv, Entries, NEW t \in Thread,
         (GetOrCreate(t) /\ table[call[t].key] # NoEntry) \/ Take(t)
  PROVE  Entries'
<1>1. call[t] \in CallType /\ call[t].key \in Key
  BY CallOf, Zenon DEF GetOrCreate, Take, At
<1>2. PICK e \in Entry \cup {NoEntry} : e = table[call[t].key]
  BY <1>1, Zenon DEF IInv, StateOK
<1>3. /\ opened' = opened /\ identities' = identities
      /\ \A k \in Key : table'[k] \in {table[k], NoEntry}
  BY <1>1, Zenon DEF GetOrCreate, Take, Erase, tableVars, identityVars, IInv, StateOK
<1>4. CASE Take(t) /\ e = NoEntry
  <2>1. PICK c : c = [call[t] EXCEPT !.pc = "reopen"]
    BY Zenon
  <2>2. c \in CallType /\ c.pc = "reopen" /\ c.entry = call[t].entry /\ c.key = call[t].key
    BY <1>1, <2>1, Zenon DEF CallType, CallPC
  <2>3. call' = [call EXCEPT ![t] = c]
    BY <1>2, <1>4, <2>1, Zenon DEF Take, Goes
  <2> QED BY <1>3, <2>2, <2>3, EntriesQuiet, Zenon
<1>5. CASE e # NoEntry
  <2>1. PICK pc \in {"lock", "claim"} : call' = [call EXCEPT ![t].pc = pc, ![t].entry = e]
    BY <1>2, <1>5, Zenon DEF GetOrCreate, Take
  <2>2. PICK c : c = [call[t] EXCEPT !.pc = pc, !.entry = e]
    BY Zenon
  <2>3. c \in CallType /\ c.pc = pc /\ c.entry = e /\ c.key = call[t].key
    BY <1>1, <2>2, Zenon DEF CallType, CallPC, InEntry
  <2>4. call' = [call EXCEPT ![t] = c]
    BY <2>1, <2>2, Zenon DEF IInv, CallsOK
  <2> QED BY <1>1, <1>2, <1>3, <2>3, <2>4, EntriesQuiet, Zenon
<1> QED BY <1>2, <1>4, <1>5, Zenon DEF GetOrCreate

\* What _RememberIdentity adds is the policy it is given.
LEMMA RememberReaches ==
  ASSUME StateOK, NEW id \in Ident, NEW policy, NEW v, Remember(id, policy, v), NEW i \in Ident,
         NEW p \in identities'[i].reachedUnder
  PROVE  p \in identities[i].reachedUnder \/ (i = id /\ p = policy)
<1>1. identities \in [Ident -> [validator : Token, reachedUnder : SUBSET Policy, known : BOOLEAN]]
  BY Zenon DEF StateOK
<1>2. CASE identities[id].known
  <2>1. identities' = [identities EXCEPT ![id].validator = v,
                                         ![id].reachedUnder = @ \cup {policy}]
    BY <1>2, Zenon DEF Remember
  <2>2. PICK r : r = identities[id] /\ r \in [validator : Token, reachedUnder : SUBSET Policy, known : BOOLEAN]
    BY <1>1, Zenon
  <2>3. PICK w : w = [r EXCEPT !.validator = v, !.reachedUnder = r.reachedUnder \cup {policy}]
    BY Zenon
  <2>4. w.reachedUnder = r.reachedUnder \cup {policy}
    BY <2>2, <2>3, Zenon
  <2>5. identities' = [identities EXCEPT ![id] = w]
    BY <1>1, <2>1, <2>2, <2>3, Zenon
  <2>6. identities'[i] = IF i = id THEN w ELSE identities[i]
    BY <1>1, <2>5, Zenon
  <2> QED BY <2>2, <2>4, <2>6, Zenon
<1>3. CASE ~identities[id].known
  <2>1. identities'[i].reachedUnder \in {{}, {policy}, identities[i].reachedUnder}
        /\ (i # id => identities'[i].reachedUnder \in {{}, identities[i].reachedUnder})
    BY <1>3 DEF Remember, NoIdentity
  <2> QED BY <2>1, Zenon
<1> QED BY <1>2, <1>3, Zenon

\* An open of the call's own, and what becomes of its asset; an answer from memory.
LEMMA EntriesHand ==
  ASSUME IInv, Entries, NEW t \in Thread,
         Reopen(t) \/ RememberOpened(t) \/ HandOut(t) \/ KnownIdentity(t)
  PROVE  Entries'
<1>1. /\ call[t] \in CallType /\ call[t].key \in Key
      /\ IdOf(t) \in Ident /\ PolicyOf(t) \in Policy
  BY CallOf, Zenon DEF Reopen, RememberOpened, HandOut, KnownIdentity, At
<1>2. opened' = opened /\ table' = table
  BY Zenon DEF Reopen, RememberOpened, HandOut, KnownIdentity
<1>3. CASE Returns(t) /\ identities' = identities
  <2>1. NoCall \in CallType /\ NoCall.pc = "idle" /\ NoCall.entry = NoEntry
    BY IdleIsACall, Zenon DEF NoCall
  <2> QED BY <1>2, <1>3, <2>1, EntriesQuiet, Zenon DEF Returns
<1>4. ASSUME NEW v \in Captures(IdOf(t), PolicyOf(t)), identities' = identities,
             call' = [call EXCEPT ![t].pc = "hand", ![t].validator = v]
      PROVE  Entries'
  <2>1. PICK c : c = [call[t] EXCEPT !.pc = "hand", !.validator = v]
    BY Zenon
  <2>2. v \in Token
    BY <1>1, ResolverAssumption, Zenon DEF Token
  <2>3. c \in CallType /\ c.pc = "hand" /\ c.entry = call[t].entry /\ c.key = call[t].key
    BY <1>1, <2>1, <2>2, Zenon DEF CallType, CallPC
  <2>4. call' = [call EXCEPT ![t] = c]
    BY <1>4, <2>1, Zenon DEF IInv, CallsOK
  <2>5. Reached(c.key)
    BY <2>3, Zenon DEF Reached, IdOf, PolicyOf
  <2> QED BY <1>2, <1>4, <2>3, <2>4, <2>5, EntriesQuiet, Zenon
<1>5. CASE RememberOpened(t)
  <2>1. PICK c : c = [call[t] EXCEPT !.pc = "wrap"]
    BY Zenon
  <2>2. c \in CallType /\ c.pc = "wrap" /\ c.entry = call[t].entry /\ c.key = call[t].key
    BY <1>1, <2>1, Zenon DEF CallType, CallPC
  <2>3. call' = [call EXCEPT ![t] = c]
    BY <1>5, <2>1, Zenon DEF RememberOpened, Goes
  <2>4. Reached(call[t].key)
    BY <1>5, Zenon DEF RememberOpened, At, Entries, Keyed
  <2>5. \A i \in Ident : \A p \in identities'[i].reachedUnder :
          p \in identities[i].reachedUnder \/ Captures(i, p) # {}
    <3>1. \A i \in Ident : \A p \in identities'[i].reachedUnder :
            p \in identities[i].reachedUnder \/ (i = IdOf(t) /\ p = PolicyOf(t))
      BY <1>1, <1>5, RememberReaches, Zenon DEF RememberOpened, IInv
    <3>2. Captures(IdOf(t), PolicyOf(t)) # {}
      BY <2>4, Zenon DEF Reached, IdOf, PolicyOf
    <3> QED BY <3>1, <3>2, Zenon
  <2> QED BY <1>2, <2>2, <2>3, <2>4, <2>5, EntriesQuiet, Zenon
<1>6. CASE Goes(t, "get") /\ identities' = identities
  <2>1. PICK c : c = [call[t] EXCEPT !.pc = "get"]
    BY Zenon
  <2>2. c \in CallType /\ c.pc = "get" /\ c.entry = call[t].entry /\ c.key = call[t].key
    BY <1>1, <2>1, Zenon DEF CallType, CallPC
  <2>3. call' = [call EXCEPT ![t] = c]
    BY <1>6, <2>1, Zenon DEF Goes
  <2> QED BY <1>2, <1>6, <2>2, <2>3, EntriesQuiet, Zenon
<1> QED BY <1>3, <1>4, <1>5, <1>6, Zenon DEF Reopen, HandOut, KnownIdentity, identityVars

\* What becomes of an entry's parts when its mutex is taken or let go.
LEMMA MutexSet ==
  ASSUME OpenedOK(opened), NEW e \in Entry, NEW m, NEW o, o = [opened EXCEPT ![e].mutex = m]
  PROVE  /\ o[e].mutex = m /\ o[e].opened = opened[e].opened /\ o[e].validator = opened[e].validator
         /\ \A x \in Entry : x # e => o[x] = opened[x]
<1>1. PICK r \in OpenedType : r = opened[e]
  BY Zenon DEF OpenedOK
<1>2. o[e] = [r EXCEPT !.mutex = m] /\ \A x \in Entry : x # e => o[x] = opened[x]
  BY <1>1, Zenon DEF OpenedOK
<1> QED BY <1>1, <1>2 DEF OpenedType

\* An entry is locked, opened, or let go.
LEMMA EntriesEntry ==
  ASSUME IInv, Entries, NEW t \in Thread, Lock(t) \/ Request(t) \/ Unlock(t)
  PROVE  Entries'
<1>1. PICK e \in Entry : e = call[t].entry
  BY CallOf, Zenon DEF Lock, Request, Unlock, At, CallOK, InEntry
<1>2. /\ call[t] \in CallType /\ call[t].key \in Key /\ OpenedOK(opened) /\ NoThread \notin Thread
      /\ \A u \in Thread : call[u].pc \in {"request", "look", "forget"} => call[u].entry \in Entry
  BY CallOf, ResolverAssumption, Zenon DEF Lock, Request, Unlock, At, IInv, StateOK, CallOK, InEntry
<1>3. table' = table /\ identities' = identities
  BY Zenon DEF Lock, Request, Unlock, identityVars
<1>4. \A u \in Thread : EntryHeld(u)
  BY Zenon DEF Entries
<1>5. ASSUME NEW pc \in {"request", "look", "forget"}, Goes(t, pc)
      PROVE  \E c \in CallType : /\ call' = [call EXCEPT ![t] = c] /\ call'[t] = c
                                 /\ c.pc = pc /\ c.entry = e /\ c.key = call[t].key
                                 /\ \A u \in Thread : u # t => call'[u] = call[u]
  <2>1. PICK c : c = [call[t] EXCEPT !.pc = pc]
    BY Zenon
  <2>2. c \in CallType /\ c.pc = pc /\ c.entry = e /\ c.key = call[t].key
    BY <1>1, <1>2, <2>1, Zenon DEF CallType, CallPC, InEntry
  <2>3. call' = [call EXCEPT ![t] = c]
    BY <1>5, <2>1, Zenon DEF Goes
  <2>4. call'[t] = c /\ \A u \in Thread : u # t => call'[u] = call[u]
    BY <2>3, Zenon DEF IInv, CallsOK
  <2> QED BY <2>2, <2>3, <2>4, Zenon
<1>6. CASE Lock(t)
  <2>1. /\ opened[e].mutex = NoThread /\ opened' = [opened EXCEPT ![e].mutex = t]
        /\ Goes(t, IF opened[e].opened THEN "look" ELSE "request")
    BY <1>1, <1>6, Zenon DEF Lock
  <2>2. /\ opened'[e].mutex = t /\ opened'[e].opened = opened[e].opened
        /\ opened'[e].validator = opened[e].validator
        /\ \A x \in Entry : x # e => opened'[x] = opened[x]
    <3>1. PICK r \in OpenedType : r = opened[e]
      BY <1>2, Zenon DEF OpenedOK
    <3>2. opened'[e] = [r EXCEPT !.mutex = t] /\ \A x \in Entry : x # e => opened'[x] = opened[x]
      BY <1>2, <2>1, <3>1, Zenon DEF OpenedOK
    <3> QED BY <3>1, <3>2, Zenon DEF OpenedType
  <2>3. PICK c \in CallType : /\ call' = [call EXCEPT ![t] = c] /\ call'[t] = c
                              /\ c.pc = IF opened[e].opened THEN "look" ELSE "request"
                              /\ c.entry = e /\ c.key = call[t].key
                              /\ \A u \in Thread : u # t => call'[u] = call[u]
    BY <1>5, <2>1, Zenon
  <2>4. ASSUME NEW u \in Thread, u # t
        PROVE  EntryHeld(u)'
    <3>1. call[u].pc \in {"request", "look", "forget"} =>
            LET x == call[u].entry
            IN  /\ opened'[x].opened = opened[x].opened /\ opened'[x].validator = opened[x].validator
                /\ opened[x].mutex = u => opened'[x].mutex = u
      BY <1>2, <2>1, <2>2, Zenon
    <3> QED BY <1>4, <2>3, <2>4, <3>1, HeldStays, Zenon
  <2>5. EntryHeld(t)'
    BY <2>2, <2>3, Zenon DEF EntryHeld, At
  <2>6. \A x \in Entry : opened'[x].validator = opened[x].validator
    BY <2>2, Zenon
  <2> QED BY <1>1, <1>3, <2>3, <2>4, <2>5, <2>6, EntriesMove, Zenon
<1>7. CASE Request(t)
  <2>1. opened[e].mutex = t /\ ~opened[e].opened
    BY <1>1, <1>4, <1>7, Zenon DEF EntryHeld, Request
  <2>2. PICK r \in OpenedType : r = opened[e]
    BY <1>2 DEF OpenedOK
  <2>3. /\ opened'[e].mutex = t /\ opened'[e].opened
        /\ (opened'[e].validator = opened[e].validator \/ Captures(IdOf(t), PolicyOf(t)) # {})
        /\ \A x \in Entry : x # e => opened'[x] = opened[x]
    <3>1. CASE opened' = [opened EXCEPT ![e].opened = TRUE]
      <4>1. opened'[e] = [r EXCEPT !.opened = TRUE] /\ \A x \in Entry : x # e => opened'[x] = opened[x]
        BY <1>2, <2>2, <3>1, Zenon DEF OpenedOK
      <4> QED BY <2>1, <2>2, <4>1, Zenon DEF OpenedType
    <3>2. ASSUME NEW v \in Captures(IdOf(t), PolicyOf(t)),
                 opened' = [opened EXCEPT ![e].opened = TRUE, ![e].reader = TRUE, ![e].validator = v]
          PROVE  /\ opened'[e].mutex = t /\ opened'[e].opened
                 /\ Captures(IdOf(t), PolicyOf(t)) # {}
                 /\ \A x \in Entry : x # e => opened'[x] = opened[x]
      <4>1. opened'[e] = [r EXCEPT !.opened = TRUE, !.reader = TRUE, !.validator = v]
            /\ \A x \in Entry : x # e => opened'[x] = opened[x]
        BY <1>2, <2>2, <3>2, Zenon DEF OpenedOK
      <4> QED BY <2>1, <2>2, <4>1, Zenon DEF OpenedType
    <3> QED BY <1>1, <1>7, <3>1, <3>2, Zenon DEF Request
  <2>4. PICK c \in CallType : /\ call' = [call EXCEPT ![t] = c] /\ call'[t] = c
                              /\ c.pc = "look" /\ c.entry = e /\ c.key = call[t].key
                              /\ \A u \in Thread : u # t => call'[u] = call[u]
    BY <1>5, <1>7, Zenon DEF Request
  <2>5. ASSUME NEW u \in Thread, u # t
        PROVE  EntryHeld(u)'
    <3>1. call[u].pc \in {"request", "look", "forget"} => call[u].entry # e
      BY <1>4, <2>1, <2>5, Zenon DEF EntryHeld, At
    <3> QED BY <1>2, <1>4, <2>3, <2>4, <2>5, <3>1, HeldStays
  <2>6. EntryHeld(t)'
    BY <2>3, <2>4, Zenon DEF EntryHeld, At
  <2>7. \A x \in Entry : \/ opened'[x].validator \in {opened[x].validator, NoValidator}
                         \/ x = call[t].entry /\ call[t].key \in Key /\ Reached(call[t].key)
    BY <1>1, <1>2, <2>3, Zenon DEF Reached, IdOf, PolicyOf
  <2> QED BY <1>1, <1>3, <2>4, <2>5, <2>6, <2>7, EntriesMove, Zenon
<1>8. CASE Unlock(t)
  <2>1. opened[e].mutex = t /\ opened[e].opened /\ opened[e].validator = NoValidator
    BY <1>1, <1>4, <1>8, Zenon DEF EntryHeld, Unlock, Succeeded
  <2>2. /\ opened'[e].opened = opened[e].opened /\ opened'[e].validator = opened[e].validator
        /\ \A x \in Entry : x # e => opened'[x] = opened[x]
    <3>1. CASE opened' = [opened EXCEPT ![e].mutex = NoThread]
      BY <1>2, <3>1, MutexSet
    <3> QED BY <1>1, <1>8, <3>1, Zenon DEF Unlock
  <2>3. PICK c \in CallType : /\ call' = [call EXCEPT ![t] = c] /\ call'[t] = c
                              /\ c.pc = "forget" /\ c.entry = e /\ c.key = call[t].key
                              /\ \A u \in Thread : u # t => call'[u] = call[u]
    BY <1>5, <1>8, Zenon DEF Unlock
  <2>4. ASSUME NEW u \in Thread, u # t
        PROVE  EntryHeld(u)'
    <3>1. call[u].pc \in {"request", "look", "forget"} =>
            LET x == call[u].entry
            IN  /\ opened'[x].opened = opened[x].opened /\ opened'[x].validator = opened[x].validator
                /\ opened[x].mutex = u => opened'[x].mutex = u
      BY <1>2, <2>1, <2>2, <2>4, Zenon
    <3> QED BY <1>4, <2>3, <2>4, <3>1, HeldStays, Zenon
  <2>5. EntryHeld(t)'
    BY <2>1, <2>2, <2>3, Zenon DEF EntryHeld, At
  <2>6. \A x \in Entry : opened'[x].validator = opened[x].validator
    BY <2>2, Zenon
  <2> QED BY <1>1, <1>3, <2>3, <2>4, <2>5, <2>6, EntriesMove, Zenon
<1> QED BY <1>6, <1>7, <1>8, Zenon

\* A call lets go of its entry, which is destroyed if that was the last reference.
LEMMA EntriesLeave ==
  ASSUME IInv, Entries, NEW t \in Thread, NEW c \in CallType, call' = [call EXCEPT ![t] = c],
         c.entry = NoEntry, c.pc \notin {"request", "look", "forget"},
         \A k \in Key : table'[k] \in {table[k], NoEntry},
         NEW o, Collect(o),
         \A e \in Entry : /\ o[e].opened = opened[e].opened /\ o[e].validator = opened[e].validator
                          /\ \A u \in Thread : u # t /\ opened[e].mutex = u => o[e].mutex = u,
         c.pc \in {"hand", "wrap"} => Reached(c.key),
         \A i \in Ident : \A p \in identities'[i].reachedUnder :
           p \in identities[i].reachedUnder \/ Captures(i, p) # {}
  PROVE  Entries'
<1>1. call'[t] = c /\ \A u \in Thread : u # t => call'[u] = call[u]
  BY Zenon DEF IInv, CallsOK
<1>2. /\ \A u \in Thread : call'[u].entry \in Entry => opened'[call'[u].entry] = o[call'[u].entry]
      /\ \A e \in Entry : opened'[e].validator \in {opened[e].validator, NoValidator}
  BY Collects, Zenon
<1>3. ASSUME NEW u \in Thread, u # t
      PROVE  EntryHeld(u)'
  <2>1. EntryHeld(u) /\ call'[u] = call[u]
    BY <1>1, <1>3, Zenon DEF Entries
  <2>2. call[u].pc \in {"request", "look", "forget"} => call[u].entry \in Entry
    BY CallOf, Zenon DEF CallOK, InEntry
  <2>3. call[u].pc \in {"request", "look", "forget"} =>
          opened'[call[u].entry] = o[call[u].entry]
    BY <1>2, <2>1, <2>2, Zenon
  <2> QED BY <1>3, <2>1, <2>2, <2>3, HeldStays
<1>4. EntryHeld(t)'
  BY <1>1, Zenon DEF EntryHeld, At
<1> QED BY <1>2, <1>3, <1>4, EntriesMove, Zenon

\* A call is done with an entry.
LEMMA EntriesDone ==
  ASSUME IInv, Entries, NEW t \in Thread, Found(t) \/ Forget(t) \/ Claim(t)
  PROVE  Entries'
<1>1. PICK e \in Entry : e = call[t].entry
  BY CallOf, Zenon DEF Found, Forget, Claim, At, CallOK, InEntry
<1>2. /\ call[t] \in CallType /\ call[t].key \in Key /\ OpenedOK(opened) /\ NoThread \notin Thread
      /\ IdOf(t) \in Ident /\ PolicyOf(t) \in Policy
  BY CallOf, ResolverAssumption, Zenon DEF Found, Forget, Claim, At, IInv, StateOK
<1>3. PICK r \in OpenedType : r = opened[e]
  BY <1>2, Zenon DEF OpenedOK
<1>4. opened[e].validator # NoValidator => Reached(call[t].key)
  BY <1>1, <1>2, Zenon DEF Entries, Keyed, EntryKeyed, Refers
<1>5. NoCall \in CallType /\ NoCall.pc = "idle" /\ NoCall.entry = NoEntry
  BY IdleIsACall, Zenon DEF NoCall
<1>6. CASE Found(t)
  <2>1. PICK o : o = [opened EXCEPT ![e].mutex = NoThread]
    BY Zenon
  <2>2. o[e] = [r EXCEPT !.mutex = NoThread] /\ \A x \in Entry : x # e => o[x] = opened[x]
    BY <1>2, <1>3, <2>1, Zenon DEF OpenedOK
  <2>3. /\ o[e].opened = opened[e].opened /\ o[e].validator = opened[e].validator
        /\ o[e].mutex = NoThread
    BY <1>3, <2>2, Zenon DEF OpenedType
  <2>4. opened[e].mutex = t /\ opened[e].validator # NoValidator
    BY <1>1, <1>6, Zenon DEF Found, Succeeded, Entries, EntryHeld
  <2>5. \A x \in Entry : /\ o[x].opened = opened[x].opened /\ o[x].validator = opened[x].validator
                         /\ \A u \in Thread : u # t /\ opened[x].mutex = u => o[x].mutex = u
    BY <2>2, <2>3, <2>4, Zenon
  <2>6. Collect(o) /\ Returns(t) /\ table' = table
        /\ Remember(IdOf(t), PolicyOf(t), opened[e].validator)
    BY <1>1, <1>6, <2>1, Zenon DEF Found
  <2>7. \A i \in Ident : \A p \in identities'[i].reachedUnder :
          p \in identities[i].reachedUnder \/ Captures(i, p) # {}
    <3>1. \A i \in Ident : \A p \in identities'[i].reachedUnder :
            p \in identities[i].reachedUnder \/ (i = IdOf(t) /\ p = PolicyOf(t))
      BY <1>2, <2>6, RememberReaches, Zenon DEF IInv
    <3>2. Captures(IdOf(t), PolicyOf(t)) # {}
      BY <1>4, <2>4, Zenon DEF Reached, IdOf, PolicyOf
    <3> QED BY <3>1, <3>2, Zenon
  <2>8. call' = [call EXCEPT ![t] = NoCall]
    BY <2>6, Zenon DEF Returns
  <2> HIDE DEF NoCall
  <2> QED BY <1>5, <2>5, <2>6, <2>7, <2>8, EntriesLeave, Zenon
<1>7. CASE Forget(t)
  <2>1. PICK m : m = IF r.mutex = t THEN NoThread ELSE r.mutex
    BY Zenon
  <2>2. PICK o : o = [opened EXCEPT ![e].mutex = IF @ = t THEN NoThread ELSE @]
    BY Zenon
  <2>3. o[e] = [r EXCEPT !.mutex = m] /\ \A x \in Entry : x # e => o[x] = opened[x]
    BY <1>2, <1>3, <2>1, <2>2, Zenon DEF OpenedOK
  <2>4. /\ o[e].opened = opened[e].opened /\ o[e].validator = opened[e].validator
        /\ o[e].mutex = m
    BY <1>3, <2>3, Zenon DEF OpenedType
  <2>5. \A x \in Entry : /\ o[x].opened = opened[x].opened /\ o[x].validator = opened[x].validator
                         /\ \A u \in Thread : u # t /\ opened[x].mutex = u => o[x].mutex = u
    BY <1>3, <2>1, <2>3, <2>4, Zenon
  <2>6. Collect(o) /\ Returns(t) /\ identities' = identities
    BY <1>1, <1>7, <2>2, Zenon DEF Forget, identityVars
  <2>7. \A k \in Key : table'[k] \in {table[k], NoEntry}
    BY <1>2, <1>7, Zenon DEF Forget, Erase, tableVars, IInv, StateOK
  <2>8. call' = [call EXCEPT ![t] = NoCall]
    BY <2>6, Zenon DEF Returns
  <2> HIDE DEF NoCall
  <2> QED BY <1>5, <2>5, <2>6, <2>7, <2>8, EntriesLeave, Zenon
<1>8. CASE Claim(t)
  <2>1. PICK o : o = [opened EXCEPT ![e].reader = FALSE]
    BY Zenon
  <2>2. o[e] = [r EXCEPT !.reader = FALSE] /\ \A x \in Entry : x # e => o[x] = opened[x]
    BY <1>2, <1>3, <2>1, Zenon DEF OpenedOK
  <2>3. /\ o[e].opened = opened[e].opened /\ o[e].validator = opened[e].validator
        /\ o[e].mutex = opened[e].mutex
    BY <1>3, <2>2, Zenon DEF OpenedType
  <2>4. \A x \in Entry : /\ o[x].opened = opened[x].opened /\ o[x].validator = opened[x].validator
                         /\ \A u \in Thread : u # t /\ opened[x].mutex = u => o[x].mutex = u
    BY <2>2, <2>3, Zenon
  <2>5. Collect(o) /\ table' = table /\ identities' = identities
    BY <1>1, <1>8, <2>1, Zenon DEF Claim, identityVars
  <2>6. ASSUME opened[e].reader,
               call' = [call EXCEPT ![t].pc = "hand", ![t].entry = NoEntry,
                                    ![t].validator = opened[e].validator]
        PROVE  Entries'
    <3>1. r.validator \in Validator /\ NoValidator \notin Validator
      BY <1>2, <1>3, <2>6, ResolverAssumption, Zenon DEF OpenedOK
    <3>2. PICK c : c = [call[t] EXCEPT !.pc = "hand", !.entry = NoEntry, !.validator = r.validator]
      BY Zenon
    <3>3. c \in CallType /\ c.pc = "hand" /\ c.entry = NoEntry /\ c.key = call[t].key
      BY <1>2, <3>1, <3>2, Zenon DEF CallType, CallPC, Token
    <3>4. call' = [call EXCEPT ![t] = c]
      BY <1>3, <2>6, <3>2, Zenon DEF IInv, CallsOK
    <3>5. Reached(c.key)
      BY <1>3, <1>4, <3>1, <3>3, Zenon
    <3> QED BY <2>4, <2>5, <3>3, <3>4, <3>5, EntriesLeave, Zenon
  <2>7. ASSUME call' = [call EXCEPT ![t].pc = "reopen", ![t].entry = NoEntry]
        PROVE  Entries'
    <3>1. PICK c : c = [call[t] EXCEPT !.pc = "reopen", !.entry = NoEntry]
      BY Zenon
    <3>2. c \in CallType /\ c.pc = "reopen" /\ c.entry = NoEntry
      BY <1>2, <3>1, Zenon DEF CallType, CallPC
    <3>3. call' = [call EXCEPT ![t] = c]
      BY <2>7, <3>1, Zenon DEF IInv, CallsOK
    <3> QED BY <2>4, <2>5, <3>2, <3>3, EntriesLeave, Zenon
  <2> QED BY <1>1, <1>8, <2>6, <2>7, Zenon DEF Claim
<1> QED BY <1>6, <1>7, <1>8, Zenon

\* A call holds an entry only while it works on one, and an object that nothing
\* refers to has not been opened.
Fresh ==
  /\ \A t \in Thread : call[t].pc \notin InEntry => call[t].entry = NoEntry
  /\ \A e \in Free : opened[e].validator = NoValidator

\* What the collector leaves unreferred is new.
LEMMA CollectedIsNew ==
  ASSUME NEW o, Collect(o)
  PROVE  (\A e \in Free : opened[e].validator = NoValidator)'
BY Zenon DEF Collect, Free, NewEntry

\* A call's step on its own fields.
LEMMA FreshCall ==
  ASSUME Fresh, CallsOK, NEW t \in Thread, NEW c, call' = [call EXCEPT ![t] = c],
         c.pc \notin InEntry => c.entry = NoEntry
  PROVE  \A u \in Thread : call'[u].pc \notin InEntry => call'[u].entry = NoEntry
<1>1. call'[t] = c /\ \A u \in Thread : u # t => call'[u] = call[u]
  BY Zenon DEF CallsOK
<1> QED BY <1>1, Zenon DEF Fresh

\* A step that drops no reference and opens nothing unreferred.
LEMMA FreshMove ==
  ASSUME Fresh, CallsOK, NoEntry \notin Entry, NEW t \in Thread, NEW c, call' = [call EXCEPT ![t] = c],
         call[t].entry \in {NoEntry, c.entry},
         \A k \in Key : table'[k] = table[k] \/ table[k] = c.entry,
         \A e \in Entry : opened'[e].validator = opened[e].validator \/ e = c.entry,
         c.pc \notin InEntry => c.entry = NoEntry
  PROVE  Fresh'
<1>1. call'[t] = c /\ \A u \in Thread : u # t => call'[u] = call[u]
  BY Zenon DEF CallsOK
<1>2. ASSUME NEW e \in Entry, e \in Free'
      PROVE  opened'[e].validator = NoValidator
  <2>1. (\A k \in Key : table'[k] # e) /\ (\A u \in Thread : call'[u].entry # e)
    BY <1>2, Zenon DEF Free
  <2>2. e # c.entry
    BY <1>1, <2>1, Zenon
  <2>3. e \in Free
    <3>1. \A k \in Key : table[k] # e
      BY <2>1, <2>2, Zenon
    <3>2. \A u \in Thread : call[u].entry # e
      BY <1>1, <2>1, <2>2, Zenon
    <3> QED BY <3>1, <3>2, Zenon DEF Free
  <2> QED BY <2>2, <2>3, Zenon DEF Fresh
<1>3. \A e \in Free' : e \in Entry
  BY Zenon DEF Free
<1>4. (\A e \in Free : opened[e].validator = NoValidator)'
  BY <1>2, <1>3, Zenon
<1>5. (\A u \in Thread : call[u].pc \notin InEntry => call[u].entry = NoEntry)'
  BY FreshCall, Zenon
<1> QED BY <1>4, <1>5, Zenon DEF Fresh

\* Every step keeps what nobody refers to as new as it was made.
LEMMA FreshNext ==
  ASSUME IInv, Fresh, [Next]_vars
  PROVE  Fresh'
<1>0. CallsOK /\ NoEntry \notin Entry /\ OpenedOK(opened)
  BY ResolverAssumption, Zenon DEF IInv, StateOK
<1>1. CASE UNCHANGED vars
  BY <1>1, Zenon DEF Fresh, vars, tableVars, Free
<1>2. ASSUME NEW t \in Thread, Resolve(t) \/ OpenAsset(t) \/ GetAssetInfo(t) \/ Step(t)
      PROVE  Fresh'
  <2>1. PICK d \in CallType : d = call[t]
    BY <1>0, Zenon DEF CallsOK
  <2>2. ASSUME NEW pc, Goes(t, pc), \/ pc \in InEntry
                                    \/ d.pc \notin InEntry
        PROVE  \E c : /\ call' = [call EXCEPT ![t] = c] /\ c.entry = d.entry
                      /\ c.pc \notin InEntry => c.entry = NoEntry
    <3>1. PICK c : c = [d EXCEPT !.pc = pc]
      BY Zenon
    <3>2. c.entry = d.entry /\ c.pc = pc
      BY <3>1, Zenon DEF CallType
    <3>3. call' = [call EXCEPT ![t] = c]
      BY <2>1, <2>2, <3>1, Zenon DEF Goes
    <3> QED BY <2>1, <2>2, <3>2, <3>3, Zenon DEF Fresh
  <2>3. NoCall.entry = NoEntry
    BY Zenon DEF NoCall
  <2>4. CASE Resolve(t) \/ OpenAsset(t) \/ GetAssetInfo(t)
    <3>1. PICK what, pc, k : call' = [call EXCEPT ![t] = [NoCall EXCEPT !.what = what, !.pc = pc, !.key = k]]
      BY <2>4, Zenon DEF Resolve, OpenAsset, GetAssetInfo, Begins
    <3>2. PICK c : c = [NoCall EXCEPT !.what = what, !.pc = pc, !.key = k]
      BY Zenon
    <3>3. c.entry = NoEntry
      BY <3>2, Zenon DEF NoCall
    <3>4. d.entry = NoEntry /\ table' = table /\ opened' = opened
      BY <2>1, <2>4, Zenon DEF Resolve, OpenAsset, GetAssetInfo, Begins, At, Fresh, InEntry
    <3>5. call' = [call EXCEPT ![t] = c]
      BY <3>1, <3>2, Zenon
    <3> QED BY <1>0, <2>1, <3>3, <3>4, <3>5, FreshMove, Zenon
  <2>5. CASE GetOrCreate(t)
    <3>1. PICK e : call' = [call EXCEPT ![t].pc = "lock", ![t].entry = e]
      BY <2>5, Zenon DEF GetOrCreate
    <3>2. PICK c : c = [d EXCEPT !.pc = "lock", !.entry = e]
      BY Zenon
    <3>3. c.entry = e /\ c.pc = "lock"
      BY <3>2, Zenon DEF CallType
    <3>4. call' = [call EXCEPT ![t] = c]
      BY <1>0, <2>1, <3>1, <3>2, Zenon DEF CallsOK
    <3>5. d.entry = NoEntry /\ c.pc \in InEntry
      BY <2>1, <2>5, <3>3, Zenon DEF GetOrCreate, At, Fresh, InEntry
    <3>6. CASE table' = table /\ opened' = opened
      BY <1>0, <2>1, <3>4, <3>5, <3>6, FreshMove, Zenon
    <3>7. CASE Collect(opened)
      <4>1. (\A u \in Thread : call[u].pc \notin InEntry => call[u].entry = NoEntry)'
        BY <1>0, <3>4, <3>5, FreshCall, Zenon
      <4> QED BY <3>7, <4>1, CollectedIsNew, Zenon DEF Fresh
    <3> QED BY <2>5, <3>6, <3>7, Zenon DEF GetOrCreate
  <2>6. CASE Lock(t) \/ Request(t) \/ Unlock(t)
    <3>1. PICK pc \in InEntry : Goes(t, pc)
      BY <2>6, Zenon DEF Lock, Request, Unlock, InEntry
    <3>2. PICK c : /\ call' = [call EXCEPT ![t] = c] /\ c.entry = d.entry
                   /\ c.pc \notin InEntry => c.entry = NoEntry
      BY <2>2, <3>1, Zenon
    <3>3. d.entry \in Entry
      BY <2>1, <2>6, CallOf, Zenon DEF Lock, Request, Unlock, At, CallOK, InEntry
    <3>4. table' = table /\ \A x \in Entry : x # d.entry => opened'[x] = opened[x]
      BY <1>0, <2>1, <2>6, <3>3, Zenon DEF Lock, Request, Unlock, OpenedOK
    <3>5. \A x \in Entry : opened'[x].validator = opened[x].validator \/ x = c.entry
      BY <3>2, <3>4, Zenon
    <3> QED BY <1>0, <2>1, <3>2, <3>4, <3>5, FreshMove, Zenon
  <2>7. CASE Found(t) \/ Forget(t)
    <3>1. PICK o : Collect(o)
      BY <2>7, Zenon DEF Found, Forget
    <3>2. call' = [call EXCEPT ![t] = NoCall]
      BY <2>7, Zenon DEF Found, Forget, Returns
    <3> HIDE DEF NoCall
    <3>3. (\A u \in Thread : call[u].pc \notin InEntry => call[u].entry = NoEntry)'
      BY <1>0, <2>3, <3>2, FreshCall, Zenon
    <3> QED BY <3>1, <3>3, CollectedIsNew, Zenon DEF Fresh
  <2>8. CASE Take(t)
    <3>1. d.entry = NoEntry
      BY <2>1, <2>8, Zenon DEF Take, At, Fresh, InEntry
    <3>2. CASE Goes(t, "reopen") /\ UNCHANGED tableVars
      <4>1. d.pc \notin InEntry
        BY <2>1, <2>8, Zenon DEF Take, At, InEntry
      <4>2. PICK c : /\ call' = [call EXCEPT ![t] = c] /\ c.entry = d.entry
                     /\ c.pc \notin InEntry => c.entry = NoEntry
        BY <2>2, <3>2, <4>1, Zenon
      <4>3. table' = table /\ opened' = opened
        BY <2>8, <3>2, Zenon DEF Take, tableVars
      <4> QED BY <1>0, <2>1, <4>2, <4>3, FreshMove, Zenon
    <3>3. CASE /\ Erase(call[t].key)
               /\ call' = [call EXCEPT ![t].pc = "claim", ![t].entry = table[call[t].key]]
      <4>1. PICK e : e = table[call[t].key]
        BY Zenon
      <4>2. PICK c : c = [d EXCEPT !.pc = "claim", !.entry = e]
        BY Zenon
      <4>3. c.entry = e /\ c.pc = "claim" /\ c.pc \in InEntry
        BY <4>2, Zenon DEF CallType, InEntry
      <4>4. call' = [call EXCEPT ![t] = c]
        BY <1>0, <2>1, <3>3, <4>1, <4>2, Zenon DEF CallsOK
      <4>5. \A k \in Key : table'[k] = table[k] \/ table[k] = c.entry
        BY <3>3, <4>1, <4>3, Zenon DEF Erase, IInv, StateOK
      <4>6. opened' = opened
        BY <2>8, Zenon DEF Take
      <4> QED BY <1>0, <2>1, <3>1, <4>3, <4>4, <4>5, <4>6, FreshMove, Zenon
    <3> QED BY <2>8, <3>2, <3>3, Zenon DEF Take
  <2>9. CASE Claim(t)
    <3>1. PICK o : Collect(o)
      BY <2>9, Zenon DEF Claim
    <3>2. \E c : call' = [call EXCEPT ![t] = c] /\ c.entry = NoEntry
      <4>1. PICK v : \/ call' = [call EXCEPT ![t].pc = "hand", ![t].entry = NoEntry, ![t].validator = v]
                     \/ call' = [call EXCEPT ![t].pc = "reopen", ![t].entry = NoEntry]
        BY <2>9, Zenon DEF Claim
      <4>2. PICK c : c = IF call' = [call EXCEPT ![t].pc = "hand", ![t].entry = NoEntry, ![t].validator = v]
                         THEN [d EXCEPT !.pc = "hand", !.entry = NoEntry, !.validator = v]
                         ELSE [d EXCEPT !.pc = "reopen", !.entry = NoEntry]
        BY Zenon
      <4>3. c.entry = NoEntry
        BY <4>2, Zenon DEF CallType
      <4>4. call' = [call EXCEPT ![t] = c]
        BY <1>0, <2>1, <4>1, <4>2, Zenon DEF CallsOK
      <4> QED BY <4>3, <4>4, Zenon
    <3>3. (\A u \in Thread : call[u].pc \notin InEntry => call[u].entry = NoEntry)'
      BY <1>0, <3>2, FreshCall, Zenon
    <3> QED BY <3>1, <3>3, CollectedIsNew DEF Fresh
  <2>10. CASE Reopen(t) \/ RememberOpened(t) \/ HandOut(t) \/ KnownIdentity(t)
    <3>1. d.entry = NoEntry /\ d.pc \notin InEntry /\ table' = table /\ opened' = opened
      BY <2>1, <2>10, Zenon DEF Reopen, RememberOpened, HandOut, KnownIdentity, At, Fresh, InEntry
    <3>2. \E c : call' = [call EXCEPT ![t] = c] /\ c.entry = NoEntry
      <4>1. CASE Returns(t)
        BY <2>3, <4>1, Zenon DEF Returns
      <4>2. ASSUME NEW pc, Goes(t, pc)
            PROVE  \E c : call' = [call EXCEPT ![t] = c] /\ c.entry = NoEntry
        BY <2>2, <3>1, <4>2, Zenon
      <4>3. ASSUME NEW v, call' = [call EXCEPT ![t].pc = "hand", ![t].validator = v]
            PROVE  \E c : call' = [call EXCEPT ![t] = c] /\ c.entry = NoEntry
        <5>1. PICK c : c = [d EXCEPT !.pc = "hand", !.validator = v]
          BY Zenon
        <5>2. c.entry = NoEntry
          BY <3>1, <5>1, Zenon DEF CallType
        <5>3. call' = [call EXCEPT ![t] = c]
          BY <1>0, <2>1, <4>3, <5>1, Zenon DEF CallsOK
        <5> QED BY <5>2, <5>3, Zenon
      <4> QED BY <2>10, <4>1, <4>2, <4>3, Zenon DEF Reopen, RememberOpened, HandOut, KnownIdentity
    <3> QED BY <1>0, <2>1, <3>1, <3>2, FreshMove, Zenon
  <2> QED BY <1>2, <2>4, <2>5, <2>6, <2>7, <2>8, <2>9, <2>10, Zenon DEF Step
<1> QED BY <1>1, <1>2, Zenon DEF Next

\* A call makes an entry of its own under its key.
LEMMA EntriesCreate ==
  ASSUME IInv, Entries, Fresh, Queued, NEW t \in Thread, GetOrCreate(t), table[call[t].key] = NoEntry
  PROVE  Entries'
<1>1. PICK d \in CallType : d = call[t]
  BY CallOf, Zenon
<1>2. /\ d.key \in Key /\ table \in [Key -> Entry \cup {NoEntry}] /\ NoEntry \notin Entry
      /\ Collect(opened) /\ identities' = identities
  BY <1>1, CallOf, ResolverAssumption, Zenon DEF GetOrCreate, At, IInv, StateOK, identityVars
<1>3. PICK e \in Free : /\ call' = [call EXCEPT ![t].pc = "lock", ![t].entry = e]
                        /\ \A k \in Key : table'[k] \in {table[k], NoEntry}
                                            \/ (k = call[t].key /\ table'[k] = e)
  BY <1>1, <1>2, CreateKeeps, Zenon
<1>4. /\ e \in Entry /\ opened[e].validator = NoValidator
      /\ \A k \in Key : table[k] # e
      /\ \A u \in Thread : call[u].entry # e
  BY Zenon DEF Free, Fresh
<1>5. /\ call'[t].pc = "lock" /\ call'[t].entry = e /\ call'[t].key = d.key
      /\ \A u \in Thread : u # t => call'[u] = call[u]
  <2>1. PICK c : c = [d EXCEPT !.pc = "lock", !.entry = e]
    BY Zenon
  <2>2. c.pc = "lock" /\ c.entry = e /\ c.key = d.key
    BY <2>1, Zenon DEF CallType
  <2>3. call'[t] = c /\ \A u \in Thread : u # t => call'[u] = call[u]
    BY <1>1, <1>3, <2>1, Zenon DEF IInv, CallsOK
  <2> QED BY <2>2, <2>3, Zenon
<1>6. /\ \A u \in Thread : call'[u].entry \in Entry => opened'[call'[u].entry] = opened[call'[u].entry]
      /\ \A x \in Entry : opened'[x].validator \in {opened[x].validator, NoValidator}
  BY <1>2, Collects, Zenon
<1>7. ASSUME NEW u \in Thread
      PROVE  EntryHeld(u)'
  <2>1. CASE u = t
    BY <1>5, <2>1, Zenon DEF EntryHeld, At
  <2>2. CASE u # t
    <3>1. EntryHeld(u) /\ call'[u] = call[u]
      BY <1>5, <2>2, Zenon DEF Entries
    <3>2. call[u].pc \in {"request", "look", "forget"} => call[u].entry \in Entry
      BY CallOf, Zenon DEF CallOK, InEntry
    <3>3. call[u].pc \in {"request", "look", "forget"} =>
            opened'[call[u].entry] = opened[call[u].entry]
      BY <1>6, <3>1, <3>2
    <3> QED BY <3>1, <3>2, <3>3, HeldStays, Zenon
  <2> QED BY <2>1, <2>2, Zenon
<1>8. ASSUME NEW x \in Entry, NEW k \in Key, Refers(x, k)'
      PROVE  (x = e /\ k = d.key) \/ (x # e /\ Refers(x, k))
  <2>1. CASE table'[k] = x
    <3>1. table'[k] = table[k] \/ (k = d.key /\ table'[k] = e)
      BY <1>1, <1>2, <1>3, <2>1, Zenon
    <3> QED BY <1>4, <2>1, <3>1, Zenon DEF Refers
  <2>2. ASSUME NEW u \in Thread, call'[u].entry = x, call'[u].key = k
        PROVE  (x = e /\ k = d.key) \/ (x # e /\ Refers(x, k))
    <3>1. CASE u = t
      BY <1>5, <2>2, <3>1, Zenon
    <3>2. CASE u # t
      BY <1>4, <1>5, <2>2, <3>2, Zenon DEF Refers
    <3> QED BY <3>1, <3>2, Zenon
  <2> QED BY <1>8, <2>1, <2>2, Zenon DEF Refers
<1>9. ASSUME NEW x \in Entry
      PROVE  EntryKeyed(x)'
  <2> SUFFICES ASSUME NEW k \in Key, Refers(x, k)'
               PROVE  /\ \A l \in Key : Refers(x, l)' => l = k
                      /\ opened'[x].validator # NoValidator => Reached(k)
    BY Zenon DEF EntryKeyed, Reached
  <2>1. CASE x = e
    BY <1>4, <1>6, <1>8, <2>1, Zenon
  <2>2. CASE x # e
    <3>1. Refers(x, k) /\ EntryKeyed(x)
      BY <1>8, <2>2, Zenon DEF Entries, Keyed
    <3>2. \A l \in Key : Refers(x, l)' => l = k
      BY <1>8, <2>2, <3>1, Zenon DEF EntryKeyed
    <3> QED BY <1>6, <3>1, <3>2, Zenon DEF EntryKeyed
  <2> QED BY <2>1, <2>2, Zenon
<1>10. \A u \in Thread : call'[u].pc \in {"hand", "wrap"} => Reached(call'[u].key)
  BY <1>5, Zenon DEF Entries, Keyed
<1>11. \A i \in Ident : \A p \in identities'[i].reachedUnder : Captures(i, p) # {}
  BY <1>2, Zenon DEF Entries, Keyed
<1>12. Keyed'
  BY <1>9, <1>10, <1>11, Zenon DEF Keyed, Reached
<1> QED BY <1>7, <1>12, Zenon DEF Entries

\* The strengthening of IInv that says what the table and the entries are.
Retained == Queued /\ Fresh /\ Entries

\* Every step keeps it.
LEMMA RetainedNext ==
  ASSUME IInv, Retained, [Next]_vars
  PROVE  Retained'
<1>1. Queued' /\ Fresh'
  BY QueuedNext, FreshNext, Zenon DEF Retained
<1>2. CASE UNCHANGED vars
  <2>1. UNCHANGED <<table, call, opened, identities>>
    BY <1>2, Zenon DEF vars, tableVars, identityVars
  <2>2. (\A t \in Thread : EntryHeld(t))'
    BY <2>1, Zenon DEF Retained, Entries, EntryHeld, At
  <2>3. Keyed'
    BY <2>1 DEF Retained, Entries, Keyed, EntryKeyed, Refers, Reached
  <2> QED BY <1>1, <2>2, <2>3, Zenon DEF Retained, Entries
<1>3. ASSUME NEW t \in Thread, Resolve(t) \/ OpenAsset(t) \/ GetAssetInfo(t) \/ Step(t)
      PROVE  Entries'
  <2>1. CASE GetOrCreate(t)
    BY <2>1, EntriesFind, EntriesCreate, Zenon DEF Retained
  <2> QED BY <1>3, <2>1, EntriesBegin, EntriesFind, EntriesEntry, EntriesDone, EntriesHand, Zenon DEF Retained, Step
<1> QED BY <1>1, <1>2, <1>3, Zenon DEF Retained, Next

\* It holds at first, when there is no entry and no call.
LEMMA RetainedInit ==
  ASSUME Init
  PROVE  Retained
<1>1. Queued
  BY QueuedInit, Zenon
<1>2. /\ \A t \in Thread : call[t].pc = "idle" /\ call[t].entry = NoEntry
      /\ \A e \in Entry : opened[e].validator = NoValidator
      /\ \A k \in Key : table[k] = NoEntry
      /\ \A i \in Ident : identities[i].reachedUnder = {}
      /\ NoEntry \notin Entry
  BY ResolverAssumption, Zenon DEF Init, NoCall, NewEntry, NoIdentity
<1>3. Fresh
  BY <1>2, Zenon DEF Fresh, Free
<1>4. Entries
  BY <1>2, Zenon DEF Entries, EntryHeld, At, Keyed, EntryKeyed, Refers
<1> QED BY <1>1, <1>3, <1>4, Zenon DEF Retained

\* A reader that leaves the table was taken, or made room as the oldest.
LEMMA LeavesTheTable ==
  ASSUME IInv, Retained, Next, NEW k \in Key, table[k] # NoEntry, table'[k] # table[k],
         opened[table[k]].reader
  PROVE  \/ \E t \in Thread : At(t, "take") /\ call'[t].entry = table[k]
         \/ order[1] = k /\ Len(order) = kMaxRetainedOpens /\ Len(order') = kMaxRetainedOpens
<1>1. PICK t \in Thread : Resolve(t) \/ OpenAsset(t) \/ GetAssetInfo(t) \/ Step(t)
  BY Zenon DEF Next
<1>2. table \in [Key -> Entry \cup {NoEntry}] /\ OpenedOK(opened) /\ NoValidator \notin Validator
  BY ResolverAssumption, Zenon DEF IInv, StateOK
<1>3. CASE GetOrCreate(t)
  <2>1. call[t].key \in Key /\ table[call[t].key] = NoEntry
    BY <1>3, CallOf, Zenon DEF GetOrCreate, At
  <2> QED BY <1>2, <1>3, <2>1, CreateKeeps, Zenon DEF Retained
<1>4. CASE Forget(t)
  <2>1. IsMine(t) /\ k = call[t].key
    BY <1>2, <1>4, Zenon DEF Forget, Erase, tableVars
  <2>2. opened[table[k]].validator = NoValidator
    BY <1>4, <2>1, Zenon DEF Forget, IsMine, Retained, Entries, EntryHeld
  <2>3. opened[table[k]].validator \in Validator
    BY <1>2, Zenon DEF OpenedOK
  <2> QED BY <1>2, <2>2, <2>3, Zenon
<1>5. CASE Take(t)
  <2>1. PICK e : e = table[call[t].key]
    BY Zenon
  <2>2. /\ k = call[t].key /\ At(t, "take")
        /\ call' = [call EXCEPT ![t].pc = "claim", ![t].entry = e]
    BY <1>2, <1>5, <2>1, Zenon DEF Take, Erase, tableVars
  <2>3. PICK d \in CallType : d = call[t]
    BY CallOf, Zenon
  <2>4. PICK c : c = [d EXCEPT !.pc = "claim", !.entry = e]
    BY Zenon
  <2>5. call'[t] = c /\ c.entry = e
    BY <2>2, <2>3, <2>4, Zenon DEF IInv, CallsOK, CallType
  <2> QED BY <2>1, <2>2, <2>5, Zenon
<1> QED BY <1>1, <1>3, <1>4, <1>5, Zenon
        DEF Step, Resolve, OpenAsset, GetAssetInfo, Begins, Lock, Request, Found, Unlock, Claim,
            Reopen, RememberOpened, HandOut, KnownIdentity

\* A successful open that nobody claimed leaves the table only by being taken or,
\* as the oldest of a full table, by eviction: _Forget of a failure never discards
\* a later success under the same key, for any number of threads and any bound.
THEOREM UnclaimedOpensAreKept == Spec => RetainedUntilClaimed
<1>1. Init => Retained
  BY RetainedInit, Zenon
<1>2. IInv /\ Retained /\ [Next]_vars => Retained'
  BY RetainedNext, Zenon
<1>3. IInv /\ Retained /\ [Next]_vars =>
        [\A k \in Key :
           /\ table[k] # NoEntry /\ table'[k] # table[k]
           /\ opened[table[k]].reader
           => \/ \E t \in Thread : At(t, "take") /\ call'[t].entry = table[k]
              \/ order[1] = k /\ Len(order) = kMaxRetainedOpens /\ Len(order') = kMaxRetainedOpens]_vars
  BY LeavesTheTable, Zenon
<1> QED BY <1>1, <1>2, <1>3, InitIsGood, StepsAgree, PTL DEF Spec, RetainedUntilClaimed

\* What is told from memory is told to one who could have reached it.
LEMMA TellsTheReached ==
  ASSUME IInv, Retained, Next, NEW t \in Thread, At(t, "known"), call'[t] # call[t],
         published' # published
  PROVE  Captures(IdOf(t), PolicyOf(t)) # {}
<1>1. PICK u \in Thread : Resolve(u) \/ OpenAsset(u) \/ GetAssetInfo(u) \/ Step(u)
  BY Zenon DEF Next
<1>2. u = t
  <2>1. call \in [Thread -> CallType]
    BY Zenon DEF IInv, CallsOK
  <2>2. \A w \in Thread : w # u => call'[w] = call[w]
    BY <1>1, <2>1, Zenon
       DEF Resolve, OpenAsset, GetAssetInfo, Begins, Step, GetOrCreate, Lock, Request, Found, Unlock,
           Forget, Take, Claim, Reopen, RememberOpened, HandOut, KnownIdentity, Goes, Returns
  <2> QED BY <2>2, Zenon
<1>3. KnownIdentity(t) /\ Reachable(t)
  BY <1>1, <1>2, Zenon DEF At, Resolve, OpenAsset, GetAssetInfo, Begins, Step, GetOrCreate, Lock, Request,
     Found, Unlock, Forget, Take, Claim, Reopen, RememberOpened, HandOut, KnownIdentity
<1>4. IdOf(t) \in Ident /\ PolicyOf(t) \in Policy /\ identities[IdOf(t)].reachedUnder \subseteq Policy
  BY CallOf, Zenon DEF At, IInv, StateOK
<1>5. PICK p \in identities[IdOf(t)].reachedUnder : Covers(PolicyOf(t), p)
  BY <1>3, Zenon DEF Reachable
<1>6. p \in Policy /\ Captures(IdOf(t), p) # {}
  BY <1>4, <1>5, Zenon DEF Retained, Entries, Keyed
<1>7. Captures(IdOf(t), p) \subseteq Captures(IdOf(t), PolicyOf(t))
  BY <1>4, <1>5, <1>6, ResolverAssumption, Zenon
<1> QED BY <1>6, <1>7, Zenon

\* A version is told from memory only to a caller whose own policy could have
\* reached the asset (_KnownIdentity and DestinationPolicy::Covers), whichever
\* stage's open was remembered last.
THEOREM ToldWithinPolicy == Spec => AnswersWithinPolicy
<1>1. Init => Retained
  BY RetainedInit
<1>2. IInv /\ Retained /\ [Next]_vars => Retained'
  BY RetainedNext
<1>3. IInv /\ Retained /\ [Next]_vars =>
        [\A t \in Thread :
           At(t, "known") /\ call'[t] # call[t] /\ published' # published
             => Captures(IdOf(t), PolicyOf(t)) # {}]_vars
  BY TellsTheReached, Zenon
<1> QED BY <1>1, <1>2, <1>3, InitIsGood, StepsAgree, PTL DEF Spec, AnswersWithinPolicy
==============================================================================

------------------------- MODULE DiskBlockStoreProofs -------------------------
(***************************************************************************)
(* What DiskBlockStore keeps true, for any number of threads, directories, *)
(* keys and lengths, any budget and any way keys share file names.         *)
(*                                                                         *)
(* That it never reports too little is the long one: between a write and   *)
(* its place in the account the file may be walked, trimmed, deleted,      *)
(* replaced or left behind in another directory, so what the account lacks *)
(* is followed through the sweep, as sums over the directory.              *)
(***************************************************************************)
EXTENDS DiskBlockStore, DataLaws, TLAPS

File == [state : {"none", "partial", "whole", "spoiled"}, key : EntryKey \cup {NoKey},
         len : Nat, written : Nat, by : SUBSET Thread]

Loading  == {"stat", "open", "remove", "hit"}
Storing  == {"write", "flush", "rename", "account"}
Sweeping == {"walk", "trim", "swept"}

Op == [pc : {"idle"} \cup Loading \cup Storing \cup Sweeping,
       key : EntryKey \cup {NoKey}, len : Nat, root : Root \cup {NoRoot}, size : Nat, raw : File,
       todo : SUBSET Path, entries : SUBSET (Path \X File), total : Int, budget : Nat,
       epoch : Nat, cut : BOOLEAN]

Impl == [root : Root \cup {NoRoot}, swept : BOOLEAN, knownBytes : Int, bytesSinceSweep : Nat,
         largestEntryBytes : Nat]

TypeOK ==
  /\ files \in [Root -> [Path -> File]]
  /\ store \in [impl : Impl, epoch : Nat, sweeping : BOOLEAN, cut : BOOLEAN]
  /\ op \in [Thread -> Op]
  /\ opCount \in Nat

\* A call in flight works in a directory, and on a key until it sweeps.
Placed ==
  \A t \in Thread :
    /\ op[t].pc # "idle" => op[t].root \in Root
    /\ op[t].pc \in Loading \cup Storing => op[t].key \in EntryKey

Typed == TypeOK /\ Placed

\* The constants, as the provers use them.
LEMMA Constants ==
  /\ \A n \in Length : n \in Nat
  /\ BudgetBytes \in Nat /\ MinBudgetBytes \in Nat /\ MinBudgetEntries \in Nat
  /\ MaxOps \in Nat /\ MaxEpoch \in Nat
  /\ NoRoot \notin Root /\ NoKey \notin EntryKey
BY DiskAssumption, Zenon

\* Paths of keys and of threads are paths, and a temporary is no entry.
LEMMA Paths ==
  /\ \A k \in EntryKey : EntryPath(k) \in Path /\ EntryPath(k)[1] = "entry"
  /\ \A t \in Thread : TempPath(t) \in Path /\ TempPath(t)[1] = "temp"
  /\ \A t, u \in Thread : TempPath(t) = TempPath(u) => t = u
  /\ \A k \in EntryKey, t \in Thread : EntryPath(k) # TempPath(t)
  /\ \A p \in Path : p[1] = "entry" => \E k \in EntryKey : p = EntryPath(k)
BY DEF Path, EntryPath, TempPath

\* The records the model starts from have their types.
LEMMA Records ==
  /\ NoFile \in File
  /\ Empty \in [Path -> File]
  /\ NoOp \in Op
  /\ Off \in Impl
BY DEF NoFile, File, Empty, NoOp, Op, Off, Impl, Loading, Storing, Sweeping

-------------------------------------------------------------------------------
\* What the walk counted at path p, unless it was trimmed since.
LenOf(at) == IF at = {} THEN 0 ELSE (CHOOSE e \in at : TRUE)[2].len
CountOf(entries, p) == LenOf({e \in entries : e[1] = p})

\* The larger of what is there and what was counted there, at the paths the
\* walk has passed, and the sum of that.
Cover(weight, o) ==
  [p \in Path |-> IF p \in o.todo THEN 0 ELSE Larger(weight[p], CountOf(o.entries, p))]
Bytes(weight, o) == SumFunctionOnSet(Cover(weight, o), Path)

\* A walk meets a path once.
Scanned(o) ==
  /\ o.todo \in SUBSET Path /\ o.entries \in SUBSET (Path \X File) /\ o.total \in Int
  /\ \A e, f \in o.entries : e[1] = f[1] => e = f
  /\ \A e \in o.entries : e[1] \notin o.todo

\* Paths and threads can be summed over (there are finitely many).
Summable == SumLaws(Path) /\ SumLaws(Thread)

\* What the walk counted at a path: nothing, or the entry that is there.
LEMMA CountOfEntry ==
  ASSUME NEW o, Scanned(o)
  PROVE  /\ \A p : CountOf(o.entries, p) \in Nat
         /\ \A p : (\A e \in o.entries : e[1] # p) => CountOf(o.entries, p) = 0
         /\ \A e \in o.entries : CountOf(o.entries, e[1]) = e[2].len
<1>1. ASSUME NEW p, \A e \in o.entries : e[1] # p
      PROVE  CountOf(o.entries, p) = 0
  <2>1. {e \in o.entries : e[1] = p} = {}
    BY <1>1, Zenon
  <2> QED BY <2>1, Zenon DEF CountOf, LenOf
<1>2. ASSUME NEW e \in o.entries
      PROVE  CountOf(o.entries, e[1]) = e[2].len /\ e[2].len \in Nat
  <2> DEFINE at == {f \in o.entries : f[1] = e[1]}
  <2>1. at = {e} /\ e[2] \in File
    BY Zenon DEF Scanned
  <2>2. (CHOOSE f \in at : TRUE) = e /\ e[2].len \in Nat
    BY <2>1, Zenon DEF File
  <2>3. CountOf(o.entries, e[1]) = (CHOOSE f \in at : TRUE)[2].len
    BY <2>1, Zenon DEF CountOf, LenOf
  <2> QED BY <2>2, <2>3, Zenon
<1> QED BY <1>1, <1>2

\* What is covered are naturals.
LEMMA CoverTyped ==
  ASSUME Summable, NEW w \in [Path -> Nat], NEW o, Scanned(o)
  PROVE  Bytes(w, o) \in Nat /\ \A p \in Path : Cover(w, o)[p] \in Nat
<1>1. \A p \in Path : Cover(w, o)[p] \in Nat
  <2>1. \A p : CountOf(o.entries, p) \in Nat
    BY CountOfEntry, Zenon
  <2> QED BY <2>1, Zenon DEF Cover, Larger
<1> QED BY <1>1, Zenon DEF Bytes, Summable, SumLaws, SumsTyped

\* A cover with one weight larger by at most n has a sum larger by at most n.
LEMMA CoverGrows ==
  ASSUME Summable, NEW v \in [Path -> Nat], NEW w \in [Path -> Nat], NEW q \in Path, NEW n \in Nat,
         \A p \in Path : v[p] <= w[p] \/ (p = q /\ v[p] <= n),
         NEW o, Scanned(o)
  PROVE  Bytes(v, o) <= Bytes(w, o) + n
<1>1. \A p : CountOf(o.entries, p) \in Nat
  BY CountOfEntry, Zenon
<1>2. /\ \A p \in Path : Cover(v, o)[p] \in Int /\ Cover(w, o)[p] \in Int
      /\ \A p \in Path : p # q => Cover(v, o)[p] <= Cover(w, o)[p]
      /\ Cover(v, o)[q] <= Cover(w, o)[q] + n
  BY <1>1 DEF Cover, Larger
<1>3. n \in Int
  OBVIOUS
<1> QED BY <1>2, <1>3, Zenon DEF Bytes, Summable, SumLaws, SumsMove

\* A cover with smaller weights has the smaller sum.
LEMMA CoverShrinks ==
  ASSUME Summable, NEW v \in [Path -> Nat], NEW w \in [Path -> Nat], \A p \in Path : v[p] <= w[p],
         NEW o, Scanned(o)
  PROVE  Bytes(v, o) <= Bytes(w, o)
<1>1. \A p : CountOf(o.entries, p) \in Nat
  BY CountOfEntry, Zenon
<1>2. \A p \in Path : /\ Cover(v, o)[p] \in Int /\ Cover(w, o)[p] \in Int
                      /\ Cover(v, o)[p] <= Cover(w, o)[p]
  BY <1>1 DEF Cover, Larger
<1> QED BY <1>2, Zenon DEF Bytes, Summable, SumLaws, SumsMonotone

\* With no walk behind it, what is covered is what is there.
LEMMA CoverOfNoWalk ==
  ASSUME NEW w \in [Path -> Nat]
  PROVE  Scanned(NoOp) /\ Cover(w, NoOp) = w
<1>1. Scanned(NoOp) /\ NoOp.todo = {} /\ NoOp.entries = {}
  BY DEF NoOp, Scanned
<1>2. \A p : CountOf(NoOp.entries, p) = 0
  BY <1>1, CountOfEntry, Zenon
<1>3. \A p \in Path : Cover(w, NoOp)[p] = w[p]
  BY <1>1, <1>2 DEF Cover, Larger
<1> QED BY <1>1, <1>3, Zenon DEF Cover

\* A walk that met every path covers what is there.
LEMMA CoverOfAll ==
  ASSUME Summable, NEW w \in [Path -> Nat], NEW o, Scanned(o), o.todo = {}
  PROVE  Bytes(w, NoOp) \in Nat /\ Bytes(w, o) \in Nat /\ Bytes(w, NoOp) <= Bytes(w, o)
<1>1. \A p \in Path : CountOf(o.entries, p) \in Nat
  BY CountOfEntry, Zenon
<1>2. \A p \in Path : w[p] \in Int /\ Cover(w, o)[p] \in Int /\ w[p] <= Cover(w, o)[p]
  BY <1>1 DEF Cover, Larger
<1>3. Scanned(NoOp) /\ Cover(w, NoOp) = w
  BY CoverOfNoWalk, Zenon
<1>4. Bytes(w, NoOp) <= Bytes(w, o)
  BY <1>2, <1>3, Zenon DEF Bytes, Summable, SumLaws, SumsMonotone
<1> QED BY <1>3, <1>4, CoverTyped, Zenon

\* One that met none covers nothing.
LEMMA CoverOfNone ==
  ASSUME Summable, NEW w, NEW o, o.todo = Path
  PROVE  Bytes(w, o) = 0
<1>1. \A p \in Path : Cover(w, o)[p] = 0
  BY Zenon DEF Cover
<1> QED BY <1>1, Zenon DEF Bytes, Summable, SumLaws, SumsVanish

\* A sum over the threads, and how it moves with the summand of one of them.
LEMMA ThreadSums ==
  ASSUME Summable, NEW a \in [Thread -> Nat]
  PROVE  SumFunctionOnSet(a, Thread) \in Nat
BY Zenon DEF Summable, SumLaws, SumsTyped

LEMMA ThreadSumMoves ==
  ASSUME Summable, NEW a \in [Thread -> Nat], NEW b \in [Thread -> Nat], NEW t \in Thread,
         \A u \in Thread : u # t => b[u] = a[u]
  PROVE  SumFunctionOnSet(b, Thread) = SumFunctionOnSet(a, Thread) - a[t] + b[t]
<1>1. \A u \in Thread : a[u] \in Int /\ b[u] \in Int
  OBVIOUS
<1>2. SumsUpdate(Thread)
  BY Zenon DEF Summable, SumLaws
<1> QED BY <1>1, <1>2, Zenon DEF SumsUpdate

\* The sum of a cover moves with the one path that does not shrink.
LEMMA CoverMoves ==
  ASSUME Summable, NEW v \in [Path -> Nat], NEW w \in [Path -> Nat], NEW o, NEW n,
         Scanned(o), Scanned(n), NEW p \in Path,
         Cover(v, n)[p] <= Cover(w, o)[p] + (n.total - o.total),
         \A q \in Path : q # p => Cover(v, n)[q] <= Cover(w, o)[q]
  PROVE  Bytes(v, n) - n.total <= Bytes(w, o) - o.total
<1>1. PICK k \in Int : k = n.total - o.total
  BY DEF Scanned
<1>2. \A q \in Path : Cover(v, n)[q] \in Int /\ Cover(w, o)[q] \in Int
  BY CoverTyped
<1>3. Bytes(v, n) <= Bytes(w, o) + k
  BY <1>1, <1>2, Zenon DEF Bytes, Summable, SumLaws, SumsMove
<1>4. Bytes(v, n) \in Nat /\ Bytes(w, o) \in Nat
  BY CoverTyped, Zenon
<1> QED BY <1>1, <1>3, <1>4 DEF Scanned

\* A walk that passes a path has what it counted there in the total; one that
\* counts nothing has found nothing of ours.
LEMMA CoverWalked ==
  ASSUME Summable, NEW v \in [Path -> Nat], NEW w \in [Path -> Nat], \A q \in Path : v[q] <= w[q],
         NEW o, NEW n, Scanned(o), Scanned(n), NEW p \in o.todo, NEW f \in File,
         n.todo = o.todo \ {p},
         \/ n.total = o.total + f.len /\ n.entries = o.entries \cup {<<p, f>>} /\ v[p] <= f.len
         \/ n.total = o.total /\ n.entries = o.entries /\ v[p] = 0
  PROVE  Bytes(v, n) - n.total <= Bytes(w, o) - o.total
<1>1. /\ p \in Path /\ f.len \in Nat /\ o.total \in Int /\ n.total \in Int
      /\ \A e \in o.entries : e[1] # p
  BY Zenon DEF Scanned, File
<1>2. \A q : CountOf(o.entries, q) \in Nat /\ CountOf(n.entries, q) \in Nat
  BY CountOfEntry, Zenon
<1>3. \A q \in Path : q # p => CountOf(n.entries, q) = CountOf(o.entries, q)
  <2>1. \A q \in Path : q # p => {e \in n.entries : e[1] = q} = {e \in o.entries : e[1] = q}
    OBVIOUS
  <2> QED BY <2>1, Zenon DEF CountOf
<1>4. Larger(v[p], CountOf(n.entries, p)) <= n.total - o.total
  <2>1. CASE n.entries = o.entries \cup {<<p, f>>} /\ n.total = o.total + f.len /\ v[p] <= f.len
    <3>1. CountOf(n.entries, <<p, f>>[1]) = <<p, f>>[2].len
      BY <2>1, CountOfEntry, Zenon
    <3> QED BY <1>1, <2>1, <3>1 DEF Larger
  <2>2. CASE n.entries = o.entries /\ n.total = o.total /\ v[p] = 0
    <3>1. CountOf(n.entries, p) = 0
      BY <1>1, <2>2, CountOfEntry
    <3> QED BY <1>1, <2>2, <3>1 DEF Larger
  <2> QED BY <2>1, <2>2, Zenon
<1>5. Cover(v, n)[p] <= Cover(w, o)[p] + (n.total - o.total)
  BY <1>1, <1>2, <1>4 DEF Cover
<1>6. \A q \in Path : q # p => Cover(v, n)[q] <= Cover(w, o)[q]
  BY <1>2, <1>3 DEF Cover, Larger
<1> QED BY <1>1, <1>5, <1>6, CoverMoves, Zenon

\* Trimming an entry takes no more from the total than from what is covered.
LEMMA CoverTrimmed ==
  ASSUME Summable, NEW v \in [Path -> Nat], NEW w \in [Path -> Nat], \A q \in Path : v[q] <= w[q],
         NEW o, NEW n, Scanned(o), Scanned(n), NEW e \in o.entries,
         n.todo = o.todo, n.entries = o.entries \ {e},
         n.total = o.total \/ (n.total = o.total - e[2].len /\ v[e[1]] = 0)
  PROVE  Bytes(v, n) - n.total <= Bytes(w, o) - o.total
<1>1. PICK p \in Path, f \in File : e = <<p, f>>
  BY DEF Scanned
<1>2. /\ p \notin o.todo /\ f.len \in Nat /\ o.total \in Int /\ n.total \in Int
      /\ \A d \in n.entries : d[1] # p
  BY <1>1, Zenon DEF Scanned, File
<1>3. /\ \A q : CountOf(o.entries, q) \in Nat /\ CountOf(n.entries, q) \in Nat
      /\ CountOf(n.entries, p) = 0
  BY <1>2, CountOfEntry, Zenon
<1>4. CountOf(o.entries, e[1]) = e[2].len
  BY CountOfEntry, Zenon
<1>5. \A q \in Path : q # p => CountOf(n.entries, q) = CountOf(o.entries, q)
  <2>1. \A q \in Path : q # p => {d \in n.entries : d[1] = q} = {d \in o.entries : d[1] = q}
    BY <1>1
  <2> QED BY <2>1, Zenon DEF CountOf
<1>6. Cover(v, n)[p] <= Cover(w, o)[p] + (n.total - o.total)
  <2>1. Cover(v, n)[p] = v[p] /\ Cover(w, o)[p] = Larger(w[p], f.len)
    BY <1>1, <1>2, <1>3, <1>4 DEF Cover, Larger
  <2> QED BY <1>1, <1>2, <2>1 DEF Larger
<1>7. \A q \in Path : q # p => Cover(v, n)[q] <= Cover(w, o)[q]
  BY <1>3, <1>5 DEF Cover, Larger
<1> QED BY <1>2, <1>6, <1>7, CoverMoves, Zenon

-------------------------------------------------------------------------------
\* Init establishes the types.
LEMMA TypedInit == Init => Typed
BY Records, Constants DEF Init, Typed, TypeOK, Placed, NoOp, Loading, Storing

\* A file put at a path leaves the directories typed.
LEMMA PutTyped ==
  ASSUME TypeOK, NEW r \in Root, NEW p \in Path, NEW f \in File, Put(r, p, f)
  PROVE  files' \in [Root -> [Path -> File]]
BY Zenon DEF TypeOK, Put

\* A call that ends, and one that goes on elsewhere, keep the types.
LEMMA OpTyped ==
  ASSUME Typed, NEW t \in Thread
  PROVE  /\ Done(t) => op' \in [Thread -> Op] /\ Placed'
         /\ \A pc \in Loading \cup Storing \cup Sweeping :
              /\ Goes(t, pc)
              /\ op[t].pc # "idle"
              /\ pc \in Loading \cup Storing => op[t].pc \in Loading \cup Storing
              => op' \in [Thread -> Op] /\ Placed'
         /\ \A o \in Op :
              /\ op' = [op EXCEPT ![t] = o]
              /\ o.pc # "idle" => o.root \in Root
              /\ o.pc \in Loading \cup Storing => o.key \in EntryKey
              => op' \in [Thread -> Op] /\ Placed'
<1>1. ASSUME NEW o \in Op, op' = [op EXCEPT ![t] = o],
             o.pc # "idle" => o.root \in Root,
             o.pc \in Loading \cup Storing => o.key \in EntryKey
      PROVE  op' \in [Thread -> Op] /\ Placed'
  BY <1>1, Zenon DEF Typed, TypeOK, Placed
<1>2. Done(t) => op' \in [Thread -> Op] /\ Placed'
  <2>1. NoOp \in Op /\ NoOp.pc = "idle" /\ "idle" \notin Loading \cup Storing
    BY Records, Zenon DEF NoOp, Loading, Storing
  <2> QED BY <1>1, <2>1, Zenon DEF Done
<1>3. ASSUME NEW pc \in Loading \cup Storing \cup Sweeping, Goes(t, pc), op[t].pc # "idle",
             pc \in Loading \cup Storing => op[t].pc \in Loading \cup Storing
      PROVE  op' \in [Thread -> Op] /\ Placed'
  <2> DEFINE o == [op[t] EXCEPT !.pc = pc]
  <2>1. o \in Op /\ o.pc = pc /\ o.root = op[t].root /\ o.key = op[t].key
    BY DEF Typed, TypeOK, Op
  <2>2. op' = [op EXCEPT ![t] = o]
    BY <1>3, Zenon DEF Goes, Typed, TypeOK, Op
  <2>3. /\ pc # "idle" => o.root \in Root
        /\ pc \in Loading \cup Storing => o.key \in EntryKey
    BY <1>3, <2>1, Zenon DEF Typed, Placed
  <2> HIDE DEF o
  <2> QED BY <1>1, <2>1, <2>2, <2>3, Zenon
<1> QED BY <1>1, <1>2, <1>3, Zenon

\* The steps of Load keep the types.
LEMMA LoadTyped ==
  ASSUME Typed, NEW t \in Thread,
         \/ LoadStart(t) \/ LoadStat(t) \/ LoadOpen(t) \/ LoadRemove(t) \/ LoadReturn(t)
         \/ StoreStart(t)
  PROVE  Typed'
<1>1. ASSUME NEW where \in {"stat", "write"}, NEW keys \in SUBSET EntryKey, Call(t, where, keys)
      PROVE  Typed'
  <2>1. PICK k \in keys, len \in Length :
          op' = [op EXCEPT ![t] = [NoOp EXCEPT !.pc = where, !.key = k, !.len = len,
                                               !.root = store.impl.root]]
    BY <1>1, Zenon DEF Call
  <2> DEFINE o == [NoOp EXCEPT !.pc = where, !.key = k, !.len = len, !.root = store.impl.root]
  <2>2. o \in Op /\ o.root \in Root /\ o.key \in EntryKey
    BY <1>1, Constants, Records, Zenon DEF Call, Enabled, Typed, TypeOK, Op, NoOp, Impl, Loading, Storing
  <2>3. op' \in [Thread -> Op] /\ Placed'
    <3> HIDE DEF o
    <3> QED BY <2>1, <2>2, OpTyped, Zenon DEF o
  <2> QED BY <1>1, <2>3 DEF Call, Typed, TypeOK
<1>2. CASE LoadStart(t)
  BY <1>1, <1>2, Zenon DEF LoadStart
<1>3. CASE StoreStart(t)
  <2>1. {k \in EntryKey : Persistable(k)} \in SUBSET EntryKey
    BY Zenon
  <2> QED BY <1>1, <1>3, <2>1, Zenon DEF StoreStart
<1>4. CASE LoadStat(t)
  <2>1. CASE Done(t)
    BY <1>4, <2>1, OpTyped, Zenon DEF LoadStat, Typed, TypeOK
  <2>2. CASE op' = [op EXCEPT ![t].pc = "open", ![t].size = MyFile(t).len, ![t].raw = MyFile(t)]
    <3>1. MyFile(t) \in File /\ op[t].key \in EntryKey /\ op[t].root \in Root
      BY <1>4, Paths DEF LoadStat, MyFile, Typed, TypeOK, Placed, Loading
    <3> DEFINE o == [op[t] EXCEPT !.pc = "open", !.size = MyFile(t).len, !.raw = MyFile(t)]
    <3>2. o \in Op /\ o.root = op[t].root /\ o.key = op[t].key /\ op' = [op EXCEPT ![t] = o]
      <4>1. MyFile(t).len \in Nat
        BY <3>1, Zenon DEF File
      <4>2. o \in Op /\ o.root = op[t].root /\ o.key = op[t].key
        <5>1. op[t] \in Op
          BY Zenon DEF Typed, TypeOK
        <5> QED BY <3>1, <4>1, <5>1, Zenon DEF Op, Loading
      <4> QED BY <2>2, <4>2, Zenon DEF Typed, TypeOK
    <3>3. op' \in [Thread -> Op] /\ Placed'
      <4> HIDE DEF o
      <4> QED BY <3>1, <3>2, OpTyped, Zenon
    <3> QED BY <1>4, <3>3, Zenon DEF LoadStat, Typed, TypeOK
  <2> QED BY <1>4, <2>1, <2>2, Zenon DEF LoadStat
<1>5. CASE LoadOpen(t)
  <2>1. CASE Done(t)
    BY <1>5, <2>1, OpTyped, Zenon DEF LoadOpen, Typed, TypeOK
  <2>2. CASE Goes(t, "remove")
    BY <1>5, <2>2, OpTyped, Zenon DEF LoadOpen, Typed, TypeOK, Loading
  <2>3. CASE op' = [op EXCEPT ![t].pc = "hit", ![t].raw = MyFile(t)]
    <3>1. MyFile(t) \in File /\ op[t].key \in EntryKey /\ op[t].root \in Root
      BY <1>5, Paths DEF LoadOpen, MyFile, Typed, TypeOK, Placed, Loading
    <3> DEFINE o == [op[t] EXCEPT !.pc = "hit", !.raw = MyFile(t)]
    <3>2. o \in Op /\ o.root = op[t].root /\ o.key = op[t].key /\ op' = [op EXCEPT ![t] = o]
      <4>1. PICK w \in Op, f \in File : w = op[t] /\ f = MyFile(t)
        BY <3>1, Zenon DEF Typed, TypeOK
      <4>2. w.key \in EntryKey /\ w.root \in Root
        BY <3>1, <4>1, Zenon
      <4>3. PICK v : v = [w EXCEPT !.pc = "hit", !.raw = f]
        BY Zenon
      <4>4. v \in Op /\ v.root = w.root /\ v.key = w.key
        BY <4>2, <4>3, Zenon DEF Op, Loading
      <4>5. op' = [op EXCEPT ![t] = v]
        BY <2>3, <4>1, <4>3, Zenon
      <4> QED BY <4>1, <4>3, <4>4, <4>5, Zenon
    <3>3. op' \in [Thread -> Op] /\ Placed'
      <4> HIDE DEF o
      <4> QED BY <3>1, <3>2, OpTyped, Zenon
    <3> QED BY <1>5, <3>3, Zenon DEF LoadOpen, Typed, TypeOK
  <2> QED BY <1>5, <2>1, <2>2, <2>3, Zenon DEF LoadOpen
<1>6. CASE LoadRemove(t)
  <2>1. op[t].key \in EntryKey /\ op[t].root \in Root
    BY <1>6, Zenon DEF LoadRemove, Typed, Placed, Loading
  <2>2. files' \in [Root -> [Path -> File]]
    BY <1>6, <2>1, PutTyped, Paths, Records, Zenon DEF LoadRemove, Typed
  <2>3. op' \in [Thread -> Op] /\ Placed'
    BY <1>6, OpTyped, Zenon DEF LoadRemove
  <2> QED BY <1>6, <2>2, <2>3, Zenon DEF LoadRemove, Typed, TypeOK
<1>7. CASE LoadReturn(t)
  BY <1>7, OpTyped, Zenon DEF LoadReturn, Typed, TypeOK
<1> QED BY <1>2, <1>3, <1>4, <1>5, <1>6, <1>7, Zenon

\* The steps of Store keep the types.
LEMMA StoreTyped ==
  ASSUME Typed, NEW t \in Thread, StoreWrite(t) \/ StoreFlush(t) \/ StoreRename(t)
  PROVE  Typed'
<1>1. /\ op[t].pc \in {"write", "flush", "rename"}
      /\ op[t].key \in EntryKey /\ op[t].root \in Root /\ op[t].len \in Nat
      /\ EntryPath(op[t].key) \in Path /\ TempPath(t) \in Path
      /\ files[op[t].root][TempPath(t)] \in File
  BY Paths DEF StoreWrite, StoreFlush, StoreRename, Typed, TypeOK, Placed, Storing, Op
<1>2. op' \in [Thread -> Op] /\ Placed'
  <2>1. \/ Done(t)
        \/ \E pc \in {"flush", "rename", "account"} : Goes(t, pc)
    BY Zenon DEF StoreWrite, StoreFlush, StoreRename
  <2> QED BY <1>1, <2>1, OpTyped, Zenon DEF Storing
<1>3. store' = store /\ opCount' = opCount
  BY Zenon DEF StoreWrite, StoreFlush, StoreRename
<1>4. files' \in [Root -> [Path -> File]]
  <2>1. CASE UNCHANGED files
    BY <2>1, Zenon DEF Typed, TypeOK
  <2>2. CASE Put(op[t].root, TempPath(t), NoFile)
    BY <2>2, <1>1, PutTyped, Records, Zenon DEF Typed
  <2>3. CASE StoreWrite(t) /\ ~UNCHANGED files
    <3> DEFINE f == [state |-> "partial", key |-> op[t].key, by |-> {t},
                     len |-> op[t].len, written |-> opCount]
    <3>1. Put(op[t].root, TempPath(t), f)
      BY <2>3, Zenon DEF StoreWrite
    <3>2. f \in File
      BY <1>1, Zenon DEF Typed, TypeOK, File
    <3> HIDE DEF f
    <3> QED BY <1>1, <3>1, <3>2, PutTyped, Zenon DEF Typed
  <2>4. CASE StoreFlush(t) /\ ~Put(op[t].root, TempPath(t), NoFile)
    <3> DEFINE temp == files[op[t].root][TempPath(t)]
               f == IF temp = NoFile THEN temp ELSE [temp EXCEPT !.state = "whole", !.written = opCount]
    <3>1. Put(op[t].root, TempPath(t), f)
      BY <2>4, <1>1, Zenon DEF StoreFlush, Put, Typed, TypeOK
    <3>2. f \in File
      BY <1>1, Zenon DEF Typed, TypeOK, File
    <3> HIDE DEF f
    <3> QED BY <1>1, <3>1, <3>2, PutTyped DEF Typed
  <2>5. CASE StoreRename(t) /\ ~Put(op[t].root, TempPath(t), NoFile)
    BY <2>5, <1>1, Records DEF StoreRename, Typed, TypeOK
  <2> QED BY <2>1, <2>2, <2>3, <2>4, <2>5, Zenon
<1> QED BY <1>2, <1>3, <1>4, Zenon DEF Typed, TypeOK

\* What StoreAccount makes of the store's account of itself.
Accounted(t) ==
  [store.impl EXCEPT !.bytesSinceSweep = @ + op[t].len, !.largestEntryBytes = Larger(@, op[t].len)]

\* The state of a sweep that begins.
Begun(t) ==
  [NoOp EXCEPT !.pc = "walk", !.root = store.impl.root, !.todo = Path,
               !.budget = EffectiveBudget(Accounted(t)), !.epoch = store.epoch]

\* StoreAccount counts the write, and begins a sweep or ends the call.
LEMMA AccountCases ==
  ASSUME Typed, NEW t \in Thread, StoreAccount(t)
  PROVE  /\ op[t].pc = "account" /\ op[t].len \in Nat
         /\ Accounted(t) \in Impl
         /\ Accounted(t).root = store.impl.root /\ Accounted(t).swept = store.impl.swept
         /\ Accounted(t).knownBytes = store.impl.knownBytes
         /\ Accounted(t).bytesSinceSweep = store.impl.bytesSinceSweep + op[t].len
         /\ files' = files /\ opCount' = opCount
         /\ \/ /\ MayBegin
               /\ store' = [store EXCEPT
                    !.impl = [Accounted(t) EXCEPT !.swept = TRUE, !.bytesSinceSweep = 0],
                    !.sweeping = TRUE]
               /\ Begun(t) \in Op
               /\ op' = [op EXCEPT ![t] = Begun(t)]
            \/ /\ ~(MayBegin /\ ~store.impl.swept)
               /\ store' = [store EXCEPT !.impl = Accounted(t)]
               /\ Done(t)
<1>1. op[t].pc = "account" /\ op[t].len \in Nat /\ files' = files /\ opCount' = opCount
  BY Zenon DEF StoreAccount, Typed, TypeOK, Op
<1>2. /\ Accounted(t) \in Impl
      /\ Accounted(t).root = store.impl.root /\ Accounted(t).swept = store.impl.swept
      /\ Accounted(t).knownBytes = store.impl.knownBytes
      /\ Accounted(t).bytesSinceSweep = store.impl.bytesSinceSweep + op[t].len
  <2>1. store.impl \in Impl
    BY Zenon DEF Typed, TypeOK
  <2>2. /\ store.impl.bytesSinceSweep + op[t].len \in Nat
        /\ Larger(store.impl.largestEntryBytes, op[t].len) \in Nat
    BY <1>1, <2>1 DEF Impl, Larger
  <2> QED BY <2>1, <2>2, Zenon DEF Accounted, Impl
<1>3. EffectiveBudget(Accounted(t)) \in Nat
  <2>1. Accounted(t).largestEntryBytes * MinBudgetEntries \in Nat
    BY <1>2, Constants DEF Impl
  <2> QED BY <2>1, Constants, Zenon DEF EffectiveBudget, Larger
<1>4. Begun(t) \in Op
  <2>1. store.impl.root \in Root \cup {NoRoot} /\ store.epoch \in Nat
    BY Zenon DEF Typed, TypeOK, Impl
  <2> QED BY <1>3, <2>1, Records, Zenon DEF Begun, Op, NoOp, Sweeping
<1>5. \/ /\ MayBegin
         /\ store' = [store EXCEPT
              !.impl = [Accounted(t) EXCEPT !.swept = TRUE, !.bytesSinceSweep = 0],
              !.sweeping = TRUE]
         /\ op' = [op EXCEPT ![t] = Begun(t)]
      \/ /\ ~(MayBegin /\ ~store.impl.swept)
         /\ store' = [store EXCEPT !.impl = Accounted(t)]
         /\ Done(t)
  <2> DEFINE impl == Accounted(t)
             due  == ~impl.swept \/ impl.bytesSinceSweep >= SweepInterval(impl)
  <2>1. \/ /\ due /\ MayBegin
           /\ store' = [store EXCEPT
                !.impl = [impl EXCEPT !.swept = TRUE, !.bytesSinceSweep = 0],
                !.sweeping = TRUE]
           /\ op' = [op EXCEPT ![t] = [NoOp EXCEPT
                !.pc = "walk", !.root = impl.root, !.todo = Path,
                !.budget = EffectiveBudget(impl), !.epoch = store.epoch]]
        \/ /\ ~(due /\ MayBegin)
           /\ store' = [store EXCEPT !.impl = impl]
           /\ Done(t)
    BY Zenon DEF StoreAccount, Accounted
  <2>2. impl.root = store.impl.root /\ impl.swept = store.impl.swept
    BY <1>2, Zenon
  <2>3. [NoOp EXCEPT !.pc = "walk", !.root = impl.root, !.todo = Path,
                     !.budget = EffectiveBudget(impl), !.epoch = store.epoch] = Begun(t)
    BY <2>2, Zenon DEF Begun
  <2>4. ~(due /\ MayBegin) => ~(MayBegin /\ ~store.impl.swept)
    BY <2>2, Zenon
  <2> HIDE DEF impl, due
  <2> QED BY <2>1, <2>3, <2>4, Zenon DEF impl
<1> QED BY <1>1, <1>2, <1>4, <1>5, Zenon

\* The write that is counted keeps the types.
LEMMA AccountTyped ==
  ASSUME Typed, NEW t \in Thread, StoreAccount(t)
  PROVE  Typed'
<1>1. store' \in [impl : Impl, epoch : Nat, sweeping : BOOLEAN, cut : BOOLEAN]
  <2>1. [Accounted(t) EXCEPT !.swept = TRUE, !.bytesSinceSweep = 0] \in Impl
    BY AccountCases, Zenon DEF Impl
  <2> QED BY <2>1, AccountCases, Zenon DEF Typed, TypeOK
<1>2. op' \in [Thread -> Op] /\ Placed'
  <2>1. CASE Done(t)
    BY <2>1, OpTyped, Zenon
  <2>2. CASE MayBegin /\ Begun(t) \in Op /\ op' = [op EXCEPT ![t] = Begun(t)]
    <3>1. /\ Begun(t).pc = "walk" /\ Begun(t).root = store.impl.root
          /\ store.impl.root \in Root
          /\ "walk" \notin Loading \cup Storing
      BY <2>2, Zenon DEF Begun, NoOp, MayBegin, Enabled, Typed, TypeOK, Impl, Loading, Storing
    <3> QED BY <2>2, <3>1, OpTyped, Zenon
  <2> QED BY <2>1, <2>2, AccountCases, Zenon
<1> QED BY <1>1, <1>2, AccountCases, Zenon DEF Typed, TypeOK

\* One file of a walk: it is counted, or there is none, or it is litter.
LEMMA WalkOneCases ==
  ASSUME Typed, NEW t \in Thread, WalkOne(t)
  PROVE  /\ op[t].pc = "walk" /\ op[t].root \in Root
         /\ store' = store /\ opCount' = opCount
         /\ \E p \in op[t].todo, o \in Op :
              /\ p \in Path /\ files[op[t].root][p] \in File
              /\ op' = [op EXCEPT ![t] = o]
              /\ o.pc = "walk" /\ o.root = op[t].root /\ o.todo = op[t].todo \ {p}
              /\ o.epoch = op[t].epoch /\ o.cut = op[t].cut
              /\ \/ /\ o.total = op[t].total + files[op[t].root][p].len
                    /\ o.entries = op[t].entries \cup {<<p, files[op[t].root][p]>>}
                    /\ files' = files
                 \/ /\ o.total = op[t].total /\ o.entries = op[t].entries
                    /\ \/ files[op[t].root][p] = NoFile /\ files' = files
                       \/ Litter(op[t].root, p) /\ Put(op[t].root, p, NoFile)
<1>1. /\ op[t].pc = "walk" /\ op[t].root \in Root /\ op[t] \in Op
      /\ store' = store /\ opCount' = opCount
  BY Zenon DEF WalkOne, Typed, TypeOK, Placed
<1> DEFINE file(p) == files[op[t].root][p]
           seen(p) == [op[t] EXCEPT !.todo = @ \ {p}, !.total = @ + file(p).len,
                                    !.entries = @ \cup {<<p, file(p)>>}]
           left(p) == [op[t] EXCEPT !.todo = @ \ {p}]
<1>2. PICK p \in op[t].todo :
        \/ file(p) = NoFile /\ op' = [op EXCEPT ![t].todo = @ \ {p}] /\ files' = files
        \/ /\ op' = [op EXCEPT ![t].todo = @ \ {p}, ![t].total = @ + file(p).len,
                               ![t].entries = @ \cup {<<p, file(p)>>}]
           /\ files' = files
        \/ /\ Litter(op[t].root, p) /\ Put(op[t].root, p, NoFile)
           /\ op' = [op EXCEPT ![t].todo = @ \ {p}]
  BY Zenon DEF WalkOne
<1>3. p \in Path /\ file(p) \in File
  <2>1. p \in Path
    BY <1>1, <1>2, Zenon DEF Op
  <2> QED BY <1>1, <2>1, Zenon DEF Typed, TypeOK
<1>4. /\ left(p) \in Op
      /\ left(p).pc = "walk" /\ left(p).root = op[t].root /\ left(p).todo = op[t].todo \ {p}
      /\ left(p).epoch = op[t].epoch /\ left(p).cut = op[t].cut
      /\ left(p).total = op[t].total /\ left(p).entries = op[t].entries
  BY <1>1, Zenon DEF Op
<1>5. /\ seen(p) \in Op
      /\ seen(p).pc = "walk" /\ seen(p).root = op[t].root /\ seen(p).todo = op[t].todo \ {p}
      /\ seen(p).epoch = op[t].epoch /\ seen(p).cut = op[t].cut
      /\ seen(p).total = op[t].total + file(p).len
      /\ seen(p).entries = op[t].entries \cup {<<p, file(p)>>}
  <2>1. file(p).len \in Nat
    BY <1>3, Zenon DEF File
  <2>2. op[t].entries \cup {<<p, file(p)>>} \in SUBSET (Path \X File)
    BY <1>1, <1>3 DEF Op
  <2>3. op[t].total + file(p).len \in Int
    BY <1>1, <2>1 DEF Op
  <2> HIDE DEF file
  <2> QED BY <1>1, <2>2, <2>3, Zenon DEF Op
<1>6. CASE /\ op' = [op EXCEPT ![t].todo = @ \ {p}]
           /\ \/ file(p) = NoFile /\ files' = files
              \/ Litter(op[t].root, p) /\ Put(op[t].root, p, NoFile)
  <2>1. op' = [op EXCEPT ![t] = left(p)]
    BY <1>6, Zenon
  <2> HIDE DEF left, seen
  <2> QED BY <2>1, <1>1, <1>3, <1>4, <1>6, Zenon
<1>7. CASE op' = [op EXCEPT ![t].todo = @ \ {p}, ![t].total = @ + file(p).len,
                            ![t].entries = @ \cup {<<p, file(p)>>}] /\ files' = files
  <2>1. op' = [op EXCEPT ![t] = seen(p)]
    BY <1>7, Zenon DEF Typed, TypeOK
  <2> HIDE DEF left, seen
  <2> QED BY <2>1, <1>1, <1>3, <1>5, <1>7, Zenon
<1> QED BY <1>2, <1>6, <1>7, Zenon

\* One entry of a trim: it is deleted and no longer counted, or stays counted.
LEMMA TrimOneCases ==
  ASSUME Typed, NEW t \in Thread, TrimOne(t)
  PROVE  /\ op[t].pc = "trim" /\ op[t].root \in Root
         /\ store' = store /\ opCount' = opCount
         /\ \E e \in op[t].entries, o \in Op :
              /\ e[1] \in Path /\ e[2] \in File
              /\ op' = [op EXCEPT ![t] = o]
              /\ o.pc = "trim" /\ o.root = op[t].root /\ o.todo = op[t].todo
              /\ o.epoch = op[t].epoch /\ o.cut = op[t].cut /\ o.entries = op[t].entries \ {e}
              /\ \/ o.total = op[t].total - e[2].len /\ Put(op[t].root, e[1], NoFile)
                 \/ o.total = op[t].total /\ files' = files
<1>1. /\ op[t].pc = "trim" /\ op[t].root \in Root /\ op[t] \in Op
      /\ store' = store /\ opCount' = opCount
  BY Zenon DEF TrimOne, Typed, TypeOK, Placed
<1>2. PICK e \in op[t].entries :
        \/ /\ Put(op[t].root, e[1], NoFile)
           /\ op' = [op EXCEPT ![t].entries = @ \ {e}, ![t].total = @ - e[2].len]
        \/ op' = [op EXCEPT ![t].entries = @ \ {e}] /\ UNCHANGED files
  BY Zenon DEF TrimOne, Oldest
<1>3. e[1] \in Path /\ e[2] \in File
  BY <1>1, <1>2, Zenon DEF Op
<1> DEFINE gone == [op[t] EXCEPT !.entries = @ \ {e}, !.total = @ - e[2].len]
           kept == [op[t] EXCEPT !.entries = @ \ {e}]
<1>4. /\ kept \in Op
      /\ kept.pc = "trim" /\ kept.root = op[t].root /\ kept.todo = op[t].todo
      /\ kept.epoch = op[t].epoch /\ kept.cut = op[t].cut /\ kept.entries = op[t].entries \ {e}
      /\ kept.total = op[t].total
  BY <1>1, Zenon DEF Op
<1>5. /\ gone \in Op
      /\ gone.pc = "trim" /\ gone.root = op[t].root /\ gone.todo = op[t].todo
      /\ gone.epoch = op[t].epoch /\ gone.cut = op[t].cut /\ gone.entries = op[t].entries \ {e}
      /\ gone.total = op[t].total - e[2].len
  <2>1. op[t].total - e[2].len \in Int
    BY <1>1, <1>3 DEF Op, File
  <2> QED BY <1>1, <2>1, Zenon DEF Op
<1>6. CASE op' = [op EXCEPT ![t].entries = @ \ {e}] /\ UNCHANGED files
  <2>1. op' = [op EXCEPT ![t] = kept]
    BY <1>6, Zenon DEF Typed, TypeOK
  <2> HIDE DEF kept, gone
  <2> QED BY <2>1, <1>1, <1>3, <1>4, <1>6, Zenon
<1>7. CASE Put(op[t].root, e[1], NoFile)
             /\ op' = [op EXCEPT ![t].entries = @ \ {e}, ![t].total = @ - e[2].len]
  <2>1. op' = [op EXCEPT ![t] = gone]
    BY <1>7, Zenon DEF Typed, TypeOK
  <2> HIDE DEF kept, gone
  <2> QED BY <2>1, <1>1, <1>3, <1>5, <1>7, Zenon
<1> QED BY <1>2, <1>6, <1>7, Zenon

\* The steps of a sweep keep the types.
LEMMA SweepTyped ==
  ASSUME Typed, NEW t \in Thread,
         WalkOne(t) \/ WalkEnd(t) \/ TrimOne(t) \/ TrimEnd(t) \/ SweepEnd(t)
  PROVE  Typed'
<1>1. \A pc \in Sweeping : pc # "idle" /\ pc \notin Loading \cup Storing
  BY Zenon DEF Sweeping, Loading, Storing
<1>2. CASE WalkOne(t)
  <2>1. op' \in [Thread -> Op] /\ Placed'
    BY <1>1, <1>2, WalkOneCases, OpTyped DEF Sweeping
  <2>2. files' \in [Root -> [Path -> File]]
    <3>1. CASE files' = files
      BY <3>1, Zenon DEF Typed, TypeOK
    <3>2. CASE \E p \in Path : Put(op[t].root, p, NoFile)
      BY <1>2, <3>2, WalkOneCases, PutTyped, Records, Zenon DEF Typed
    <3> QED BY <1>2, <3>1, <3>2, WalkOneCases, Zenon
  <2> QED BY <1>2, <2>1, <2>2, WalkOneCases, Zenon DEF Typed, TypeOK
<1>3. CASE TrimOne(t)
  <2>1. op' \in [Thread -> Op] /\ Placed'
    BY <1>1, <1>3, TrimOneCases, OpTyped DEF Sweeping
  <2>2. files' \in [Root -> [Path -> File]]
    <3>1. CASE files' = files
      BY <3>1 DEF Typed, TypeOK
    <3>2. CASE \E p \in Path : Put(op[t].root, p, NoFile)
      BY <1>3, <3>2, TrimOneCases, PutTyped, Records, Zenon DEF Typed
    <3> QED BY <1>3, <3>1, <3>2, TrimOneCases, Zenon
  <2> QED BY <1>3, <2>1, <2>2, TrimOneCases, Zenon DEF Typed, TypeOK
<1>4. CASE WalkEnd(t)
  <2> DEFINE pc == IF op[t].total > op[t].budget THEN "trim" ELSE "swept"
             o  == [op[t] EXCEPT !.pc = pc, !.cut = (op[t].todo # {})]
  <2>1. op[t] \in Op /\ op[t].root \in Root
    BY <1>4, Zenon DEF WalkEnd, Typed, TypeOK, Placed
  <2>2. pc \in Sweeping
    BY Zenon DEF Sweeping
  <2>3. o \in Op /\ o.pc = pc /\ o.root = op[t].root
    <3> HIDE DEF pc
    <3> QED BY <2>1, <2>2, Zenon DEF Op
  <2>4. op' = [op EXCEPT ![t] = o]
    BY <1>4, Zenon DEF WalkEnd
  <2>5. op' \in [Thread -> Op] /\ Placed'
    <3> HIDE DEF o, pc
    <3> QED BY <1>1, <2>1, <2>2, <2>3, <2>4, OpTyped, Zenon
  <2> QED BY <1>4, <2>5, Zenon DEF WalkEnd, Typed, TypeOK
<1>5. CASE TrimEnd(t)
  <2>1. op' \in [Thread -> Op] /\ Placed'
    BY <1>1, <1>5, OpTyped, Zenon DEF TrimEnd, Sweeping
  <2> QED BY <1>5, <2>1, Zenon DEF TrimEnd, Typed, TypeOK
<1>6. CASE SweepEnd(t)
  <2>1. op' \in [Thread -> Op] /\ Placed'
    BY <1>6, OpTyped, Zenon DEF SweepEnd
  <2>2. store' \in [impl : Impl, epoch : Nat, sweeping : BOOLEAN, cut : BOOLEAN]
    <3>1. op[t].total \in Int /\ op[t].cut \in BOOLEAN
      BY Zenon DEF Typed, TypeOK, Op
    <3> QED BY <1>6, <3>1, Zenon DEF SweepEnd, Typed, TypeOK, Impl
  <2> QED BY <1>6, <2>1, <2>2, Zenon DEF SweepEnd, Typed, TypeOK
<1> QED BY <1>2, <1>3, <1>4, <1>5, <1>6, Zenon

\* Configuration, crashes and what other processes do keep the types.
LEMMA OutsideTyped ==
  ASSUME Typed,
         \/ \E r \in Root \cup {NoRoot} : Configure(r)
         \/ Clear \/ Crash \/ OtherPublish \/ OtherRemove \/ Spoil \/ UNCHANGED diskVars
  PROVE  Typed'
<1>1. CASE \E r \in Root \cup {NoRoot} : Configure(r)
  <2>1. PICK r \in Root \cup {NoRoot} : Configure(r)
    BY <1>1, Zenon
  <2>2. [Off EXCEPT !.root = r] \in Impl
    BY Records, Zenon DEF Off, Impl
  <2> DEFINE i == [Off EXCEPT !.root = r]
  <2>3. store' = [store EXCEPT !.impl = i, !.epoch = @ + 1]
    BY <2>1, Zenon DEF Configure
  <2>4. store' \in [impl : Impl, epoch : Nat, sweeping : BOOLEAN, cut : BOOLEAN]
    <3>1. i \in Impl
      BY <2>2, Zenon
    <3>2. store \in [impl : Impl, epoch : Nat, sweeping : BOOLEAN, cut : BOOLEAN]
      BY Zenon DEF Typed, TypeOK
    <3>3. store.epoch + 1 \in Nat
      BY <3>2
    <3> HIDE DEF i
    <3> DEFINE n == store.epoch + 1
    <3>4. store' = [store EXCEPT !.impl = i, !.epoch = n]
      BY <2>3, Zenon
    <3> HIDE DEF n
    <3> QED BY <3>1, <3>2, <3>3, <3>4, Zenon DEF n
  <2> QED BY <2>1, <2>4, Zenon DEF Configure, Typed, TypeOK, Placed
<1>2. CASE Clear
  <2>1. store.impl.root \in Root
    BY <1>2, Zenon DEF Clear, Enabled, Typed, TypeOK, Impl
  <2>2. [Off EXCEPT !.root = store.impl.root] \in Impl
    BY <2>1, Records, Zenon DEF Off, Impl
  <2> DEFINE i == [Off EXCEPT !.root = store.impl.root]
  <2>3. store' = [store EXCEPT !.impl = i, !.epoch = @ + 1]
    BY <1>2, Zenon DEF Clear
  <2>4. store' \in [impl : Impl, epoch : Nat, sweeping : BOOLEAN, cut : BOOLEAN]
    <3>1. i \in Impl
      BY <2>2, Zenon
    <3>2. store \in [impl : Impl, epoch : Nat, sweeping : BOOLEAN, cut : BOOLEAN]
      BY Zenon DEF Typed, TypeOK
    <3>3. store.epoch + 1 \in Nat
      BY <3>2
    <3> HIDE DEF i
    <3> DEFINE n == store.epoch + 1
    <3>4. store' = [store EXCEPT !.impl = i, !.epoch = n]
      BY <2>3, Zenon
    <3> HIDE DEF n
    <3> QED BY <3>1, <3>2, <3>3, <3>4, Zenon DEF n
  <2>5. files' \in [Root -> [Path -> File]]
    BY <1>2, <2>1, Records, Zenon DEF Clear, Typed, TypeOK
  <2> QED BY <1>2, <2>4, <2>5, Zenon DEF Clear, Typed, TypeOK, Placed
<1>3. CASE Crash
  BY <1>3, Records DEF Crash, Typed, TypeOK, Placed, NoOp, Loading, Storing
<1>4. CASE OtherPublish
  <2>1. PICK r \in Root, k \in EntryKey, len \in Length :
          Put(r, EntryPath(k), [state |-> "whole", key |-> k, by |-> {},
                                len |-> len, written |-> opCount])
    BY <1>4, Zenon DEF OtherPublish
  <2>2. [state |-> "whole", key |-> k, by |-> {}, len |-> len, written |-> opCount] \in File
    BY Constants, Zenon DEF Typed, TypeOK, File
  <2>3. files' \in [Root -> [Path -> File]]
    BY <2>1, <2>2, PutTyped, Paths, Zenon DEF Typed
  <2> QED BY <1>4, <2>3 DEF OtherPublish, Outside, Typed, TypeOK, Placed
<1>5. CASE OtherRemove
  <2>1. files' \in [Root -> [Path -> File]]
    BY <1>5, PutTyped, Records, Zenon DEF OtherRemove, Typed
  <2> QED BY <1>5, <2>1 DEF OtherRemove, Outside, Typed, TypeOK, Placed
<1>6. CASE Spoil
  <2>1. PICK r \in Root, k \in EntryKey :
          files' = [files EXCEPT ![r][EntryPath(k)].state = "spoiled"]
    BY <1>6, Zenon DEF Spoil
  <2> DEFINE f == [files[r][EntryPath(k)] EXCEPT !.state = "spoiled"]
  <2>2. f \in File
    <3>1. files[r][EntryPath(k)] \in File
      BY Paths DEF Typed, TypeOK
    <3> QED BY <3>1, Zenon DEF File
  <2>3. Put(r, EntryPath(k), f)
    BY <2>1, Zenon DEF Put
  <2>4. files' \in [Root -> [Path -> File]]
    <3> HIDE DEF f
    <3> QED BY <2>2, <2>3, PutTyped, Paths, Zenon DEF Typed
  <2> QED BY <1>6, <2>4 DEF Spoil, Outside, Typed, TypeOK, Placed
<1>7. CASE UNCHANGED diskVars
  BY <1>7, Zenon DEF diskVars, Typed, TypeOK, Placed
<1> QED BY <1>1, <1>2, <1>3, <1>4, <1>5, <1>6, <1>7, Zenon

\* Every step keeps the types.
LEMMA TypedNext == Typed /\ [Next]_diskVars => Typed'
BY LoadTyped, StoreTyped, AccountTyped, SweepTyped, OutsideTyped, Zenon DEF Next, Step, Finished

-------------------------------------------------------------------------------
(***************************************************************************)
(* What a step does to one thread, and to one file.                        *)
(***************************************************************************)

\* A step of a thread leaves the calls of the others alone.
LEMMA OthersStand ==
  ASSUME Typed, NEW t \in Thread, Step(t), NEW u \in Thread, u # t
  PROVE  op'[u] = op[u]
<1>1. op \in [Thread -> Op]
  BY Zenon DEF Typed, TypeOK
<1>2. CASE \E o : op' = [op EXCEPT ![t] = o]
  BY <1>1, <1>2, Zenon
<1>3. CASE LoadStart(t) \/ StoreStart(t)
  BY <1>2, <1>3, Zenon DEF LoadStart, StoreStart, Call
<1>4. CASE LoadStat(t) \/ LoadOpen(t) \/ LoadRemove(t) \/ LoadReturn(t)
  BY <1>1, <1>4, Zenon DEF LoadStat, LoadOpen, LoadRemove, LoadReturn, Goes, Done
<1>5. CASE StoreWrite(t) \/ StoreFlush(t) \/ StoreRename(t)
  BY <1>1, <1>5, Zenon DEF StoreWrite, StoreFlush, StoreRename, Goes, Done
<1>6. CASE StoreAccount(t)
  <2>1. Done(t) \/ op' = [op EXCEPT ![t] = Begun(t)]
    BY <1>6, AccountCases, Zenon
  <2> QED BY <1>1, <2>1, Zenon DEF Done
<1>7. CASE WalkOne(t)
  BY <1>2, <1>7, WalkOneCases, Zenon
<1>8. CASE TrimOne(t)
  BY <1>2, <1>8, TrimOneCases, Zenon
<1>9. CASE WalkEnd(t) \/ TrimEnd(t) \/ SweepEnd(t)
  BY <1>1, <1>9, Zenon DEF WalkEnd, TrimEnd, SweepEnd, Goes, Done
<1> QED BY <1>3, <1>4, <1>5, <1>6, <1>7, <1>8, <1>9, Zenon DEF Step

\* A thread moves by its own steps, or is gone with the process.
LEMMA OpStep ==
  ASSUME Typed, [Next]_diskVars, NEW u \in Thread
  PROVE  op'[u] = op[u] \/ op'[u] = NoOp \/ Step(u)
<1>1. ASSUME NEW t \in Thread, Step(t)
      PROVE  op'[u] = op[u] \/ Step(u)
  BY <1>1, OthersStand, Zenon
<1>2. ASSUME Crash
      PROVE  op'[u] = NoOp
  BY <1>2, Zenon DEF Crash
<1>3. ASSUME \/ \E r \in Root \cup {NoRoot} : Configure(r)
             \/ Clear \/ OtherPublish \/ OtherRemove \/ Spoil \/ Finished \/ UNCHANGED diskVars
      PROVE  op'[u] = op[u]
  BY <1>3, Zenon DEF Configure, Clear, OtherPublish, OtherRemove, Spoil, Outside, Finished, diskVars
<1> QED BY <1>1, <1>2, <1>3, Zenon DEF Next

\* The file at p is published by another process, or damaged.
Foreign(r, p) ==
  /\ p[1] = "entry"
  /\ \/ /\ files'[r][p].state = "whole" /\ files'[r][p].by = {}
        /\ files'[r][p].written = opCount /\ opCount' = opCount + 1
     \/ /\ files'[r][p].state = "spoiled" /\ files[r][p].state = "whole"
        /\ files'[r][p].by = files[r][p].by /\ files'[r][p].written = files[r][p].written
        /\ files'[r][p].len = files[r][p].len

\* The file at p is the temporary of t, renamed.
RenamedTo(t, r, p) ==
  /\ StoreRename(t) /\ Goes(t, "account")
  /\ r = op[t].root /\ p = EntryPath(op[t].key)
  /\ files'[r][p] = files[r][TempPath(t)] /\ files[r][TempPath(t)] # NoFile

\* A file is left alone, deleted, somebody else's doing, the temporary that its
\* thread writes, or what a rename published.
LEMMA FilesStep ==
  ASSUME Typed, [Next]_diskVars, NEW r \in Root, NEW p \in Path
  PROVE  \/ files'[r][p] = files[r][p]
         \/ files'[r][p] = NoFile
         \/ Foreign(r, p)
         \/ \E t \in Thread : (StoreWrite(t) \/ StoreFlush(t)) /\ r = op[t].root /\ p = TempPath(t)
         \/ \E t \in Thread : RenamedTo(t, r, p)
<1>1. files \in [Root -> [Path -> File]]
  BY Zenon DEF Typed, TypeOK
<1>2. ASSUME NEW s \in Root, NEW q \in Path, NEW f, Put(s, q, f)
      PROVE  files'[r][p] = files[r][p] \/ (r = s /\ p = q /\ files'[r][p] = f)
  BY <1>1, <1>2, Zenon DEF Put
<1>3. ASSUME NEW t \in Thread, Step(t)
      PROVE  \/ files'[r][p] = files[r][p]
             \/ files'[r][p] = NoFile
             \/ (StoreWrite(t) \/ StoreFlush(t)) /\ r = op[t].root /\ p = TempPath(t)
             \/ RenamedTo(t, r, p)
  <2>1. CASE LoadRemove(t)
    <3>1. op[t].root \in Root /\ EntryPath(op[t].key) \in Path
      BY <2>1, Paths, Zenon DEF LoadRemove, Typed, Placed, Loading
    <3> QED BY <1>2, <2>1, <3>1, Zenon DEF LoadRemove
  <2>2. CASE StoreWrite(t) \/ StoreFlush(t)
    <3>1. op[t].root \in Root /\ TempPath(t) \in Path
      BY <2>2, Paths, Zenon DEF StoreWrite, StoreFlush, Typed, Placed
    <3>2. files' = files \/ \E f : Put(op[t].root, TempPath(t), f)
      BY <2>2, <1>1, <3>1, Zenon DEF StoreWrite, StoreFlush, Put
    <3> QED BY <1>2, <2>2, <3>1, <3>2, Zenon
  <2>3. CASE StoreRename(t)
    <3>1. op[t].root \in Root /\ TempPath(t) \in Path /\ EntryPath(op[t].key) \in Path
          /\ EntryPath(op[t].key) # TempPath(t)
      BY <2>3, Paths, Zenon DEF StoreRename, Typed, Placed, Storing
    <3>2. CASE Put(op[t].root, TempPath(t), NoFile)
      BY <1>2, <3>1, <3>2, Zenon
    <3>3. CASE /\ files[op[t].root][TempPath(t)] # NoFile
               /\ files' = [files EXCEPT
                    ![op[t].root][EntryPath(op[t].key)] = files[op[t].root][TempPath(t)],
                    ![op[t].root][TempPath(t)] = NoFile]
               /\ Goes(t, "account")
      <4>1. CASE r = op[t].root /\ p = EntryPath(op[t].key)
        BY <1>1, <2>3, <3>1, <3>3, <4>1, Zenon DEF RenamedTo
      <4>2. CASE ~(r = op[t].root /\ p = EntryPath(op[t].key))
        BY <1>1, <3>1, <3>3, <4>2, Zenon
      <4> QED BY <4>1, <4>2, Zenon
    <3> QED BY <2>3, <3>2, <3>3, Zenon DEF StoreRename
  <2>4. CASE WalkOne(t)
    BY <1>2, <2>4, WalkOneCases
  <2>5. CASE TrimOne(t)
    BY <1>2, <2>5, TrimOneCases
  <2>6. CASE \/ LoadStart(t) \/ LoadStat(t) \/ LoadOpen(t) \/ LoadReturn(t) \/ StoreStart(t)
             \/ StoreAccount(t) \/ WalkEnd(t) \/ TrimEnd(t) \/ SweepEnd(t)
    BY <2>6, Zenon DEF LoadStart, LoadStat, LoadOpen, LoadReturn, StoreStart, Call, StoreAccount,
                WalkEnd, TrimEnd, SweepEnd
  <2> QED BY <1>3, <2>1, <2>2, <2>3, <2>4, <2>5, <2>6, Zenon DEF Step
<1>4. CASE Clear
  <2>1. store.impl.root \in Root
    BY <1>4, Zenon DEF Clear, Enabled, Typed, TypeOK, Impl
  <2> QED BY <1>1, <1>4, <2>1, Zenon DEF Clear, Empty
<1>5. CASE OtherPublish
  <2>1. PICK s \in Root, k \in EntryKey, len \in Length :
          Put(s, EntryPath(k), [state |-> "whole", key |-> k, by |-> {},
                                len |-> len, written |-> opCount])
    BY <1>5, Zenon DEF OtherPublish
  <2>2. opCount' = opCount + 1
    BY <1>5, Zenon DEF OtherPublish, Outside
  <2> QED BY <1>2, <2>1, <2>2, Paths DEF Foreign
<1>6. CASE OtherRemove
  BY <1>2, <1>6, Zenon DEF OtherRemove
<1>7. CASE Spoil
  <2>1. PICK s \in Root, k \in EntryKey :
          /\ files[s][EntryPath(k)].state = "whole"
          /\ files' = [files EXCEPT ![s][EntryPath(k)].state = "spoiled"]
    BY <1>7, Zenon DEF Spoil
  <2>2. EntryPath(k) \in Path /\ EntryPath(k)[1] = "entry"
    BY Paths, Zenon
  <2>3. CASE r = s /\ p = EntryPath(k)
    <3>1. files'[r][p] = [files[r][p] EXCEPT !.state = "spoiled"] /\ files[r][p] \in File
      BY <1>1, <2>1, <2>2, <2>3, Zenon
    <3>2. files[r][p].state = "whole"
      BY <2>1, <2>3, Zenon
    <3> QED BY <2>2, <2>3, <3>1, <3>2, Zenon DEF Foreign, File
  <2>4. CASE ~(r = s /\ p = EntryPath(k))
    BY <1>1, <2>1, <2>2, <2>4, Zenon
  <2> QED BY <2>3, <2>4, Zenon
<1>8. CASE \/ \E root \in Root \cup {NoRoot} : Configure(root)
           \/ Crash \/ Finished \/ UNCHANGED diskVars
  BY <1>8, Zenon DEF Configure, Crash, Finished, diskVars
<1> QED BY <1>3, <1>4, <1>5, <1>6, <1>7, <1>8, Zenon DEF Next

\* Calls and outside events are counted.
LEMMA CountGrows ==
  ASSUME [Next]_diskVars
  PROVE  opCount' = opCount \/ opCount' = opCount + 1
<1>1. ASSUME NEW t \in Thread, Step(t)
      PROVE  opCount' = opCount \/ opCount' = opCount + 1
  BY <1>1, Zenon DEF Step, LoadStart, LoadStat, LoadOpen, LoadRemove, LoadReturn, StoreStart, Call,
                     StoreWrite, StoreFlush, StoreRename, StoreAccount,
                     WalkOne, WalkEnd, TrimOne, TrimEnd, SweepEnd
<1>2. CASE \/ \E r \in Root \cup {NoRoot} : Configure(r)
           \/ Clear \/ Crash \/ OtherPublish \/ OtherRemove \/ Spoil \/ Finished \/ UNCHANGED diskVars
  BY <1>2, Zenon DEF Configure, Clear, Crash, OtherPublish, OtherRemove, Spoil, Outside, Finished, diskVars
<1> QED BY <1>1, <1>2, Zenon DEF Next

-------------------------------------------------------------------------------
(***************************************************************************)
(* Entries are whole.                                                      *)
(***************************************************************************)

\* The temporary of a call in flight is its own, flushed by the time it is
\* renamed, or gone.
Temps ==
  \A t \in Thread : op[t].pc \in {"flush", "rename"} =>
    LET temp == files[op[t].root][TempPath(t)]
    IN  \/ temp = NoFile
        \/ /\ temp.len = op[t].len /\ temp.by = {t} /\ temp.written <= opCount
           /\ op[t].pc = "rename" => temp.state = "whole"

\* Only StoreWrite and StoreFlush bring a call to where it has a temporary.
LEMMA Flushing ==
  ASSUME Typed, NEW t \in Thread, Step(t), op'[t].pc \in {"flush", "rename"}
  PROVE  StoreWrite(t) \/ StoreFlush(t)
<1>1. op \in [Thread -> Op] /\ NoOp.pc = "idle"
  BY Zenon DEF Typed, TypeOK, NoOp
<1>2. ~(LoadStart(t) \/ StoreStart(t))
  BY <1>1, Zenon DEF LoadStart, StoreStart, Call, NoOp
<1>3. ~(LoadStat(t) \/ LoadOpen(t) \/ LoadRemove(t) \/ LoadReturn(t))
  BY <1>1 DEF LoadStat, LoadOpen, LoadRemove, LoadReturn, Goes, Done, Op
<1>4. ~StoreRename(t)
  BY <1>1 DEF StoreRename, Goes, Done, Op
<1>5. ~StoreAccount(t)
  <2>1. Begun(t).pc = "walk"
    BY Zenon DEF Begun, NoOp
  <2> QED BY <1>1, <2>1, AccountCases, Zenon DEF Done
<1>6. ~WalkOne(t)
  BY <1>1, WalkOneCases, Zenon
<1>7. ~TrimOne(t)
  BY <1>1, TrimOneCases, Zenon
<1>8. ~(WalkEnd(t) \/ TrimEnd(t) \/ SweepEnd(t))
  BY <1>1 DEF WalkEnd, TrimEnd, SweepEnd, Goes, Done, Op
<1> QED BY <1>2, <1>3, <1>4, <1>5, <1>6, <1>7, <1>8, Zenon DEF Step

\* While its call stands still a temporary stays, or is deleted.
LEMMA TempStands ==
  ASSUME Typed, [Next]_diskVars, NEW t \in Thread, op[t].pc \in {"flush", "rename"}, op'[t] = op[t]
  PROVE  LET r == op[t].root IN files'[r][TempPath(t)] \in {files[r][TempPath(t)], NoFile}
<1> DEFINE r == op[t].root
           p == TempPath(t)
<1>1. r \in Root /\ p \in Path /\ p[1] = "temp" /\ NoOp.pc = "idle"
  BY Paths, Zenon DEF Typed, Placed, NoOp
<1>2. ~Foreign(r, p)
  BY <1>1, Zenon DEF Foreign
<1>3. ASSUME NEW u \in Thread, RenamedTo(u, r, p)
      PROVE  FALSE
  <2>1. op[u].key \in EntryKey
    BY <1>3, Zenon DEF RenamedTo, StoreRename, Typed, Placed, Storing
  <2> QED BY <1>3, <2>1, Paths, Zenon DEF RenamedTo
<1>4. ASSUME NEW u \in Thread, StoreWrite(u) \/ StoreFlush(u), p = TempPath(u)
      PROVE  FALSE
  <2>1. u = t
    BY <1>4, Paths, Zenon
  <2> QED BY <1>1, <1>4, <2>1 DEF StoreWrite, StoreFlush, Goes, Done, Typed, TypeOK, Op
<1> QED BY <1>1, <1>2, <1>3, <1>4, FilesStep, Zenon

\* Every step keeps Temps.
LEMMA TempsNext == Typed /\ Temps /\ [Next]_diskVars => Temps'
<1> SUFFICES ASSUME Typed, Temps, [Next]_diskVars,
                    NEW t \in Thread, op'[t].pc \in {"flush", "rename"},
                    files'[op'[t].root][TempPath(t)] # NoFile
             PROVE  LET temp == files'[op'[t].root][TempPath(t)]
                    IN  /\ temp.len = op'[t].len /\ temp.by = {t} /\ temp.written <= opCount'
                        /\ op'[t].pc = "rename" => temp.state = "whole"
  BY Zenon DEF Temps
<1>1. Typed'
  BY TypedNext, Zenon
<1>2. op'[t].root \in Root /\ TempPath(t) \in Path /\ TempPath(t)[1] = "temp"
  BY <1>1, Paths, Zenon DEF Typed, Placed
<1>3. NoOp.pc = "idle"
  BY Zenon DEF NoOp
<1>4. CASE op'[t] = op[t]
  <2> DEFINE r == op[t].root
             p == TempPath(t)
  <2>3. files'[r][p] = files[r][p]
    BY <1>4, TempStands, Zenon
  <2>4. PICK f \in File : f = files[r][p] /\ f.written \in Nat
    BY <1>2, <1>4, Zenon DEF Typed, TypeOK, File
  <2>5. f.written <= opCount => f.written <= opCount'
    <3>1. f.written \in Nat /\ opCount \in Nat /\ (opCount' = opCount \/ opCount' = opCount + 1)
      BY <2>4, CountGrows, Zenon DEF Typed, TypeOK
    <3> QED BY <3>1
  <2>6. f # NoFile /\ op[t].pc \in {"flush", "rename"}
    BY <1>4, <2>3, <2>4, Zenon
  <2>7. /\ f.len = op[t].len /\ f.by = {t} /\ f.written <= opCount
        /\ op[t].pc = "rename" => f.state = "whole"
    BY <2>4, <2>6, Zenon DEF Temps
  <2> QED BY <1>4, <2>3, <2>4, <2>5, <2>7, Zenon
<1>5. CASE op'[t] = NoOp
  BY <1>3, <1>5, Zenon
<1>6. CASE StoreWrite(t)
  <2>1. /\ op[t].root \in Root /\ op[t] \in Op /\ op \in [Thread -> Op]
        /\ files \in [Root -> [Path -> File]]
    BY <1>6, Zenon DEF StoreWrite, Typed, TypeOK, Placed
  <2>2. Goes(t, "flush")
    BY <1>3, <1>6, <2>1, Zenon DEF StoreWrite, Done
  <2>3. op'[t].root = op[t].root /\ op'[t].len = op[t].len /\ op'[t].pc = "flush"
    BY <2>1, <2>2, Zenon DEF Goes, Op
  <2>4. Put(op[t].root, TempPath(t), [state |-> "partial", key |-> op[t].key, by |-> {t},
                                      len |-> op[t].len, written |-> opCount])
    BY <1>3, <1>6, <2>1, <2>3, Zenon DEF StoreWrite, Done
  <2>5. files'[op[t].root][TempPath(t)] =
          [state |-> "partial", key |-> op[t].key, by |-> {t}, len |-> op[t].len, written |-> opCount]
    BY <1>2, <2>1, <2>4, Zenon DEF Put
  <2>6. opCount' = opCount /\ opCount \in Nat
    BY <1>6, Zenon DEF StoreWrite, Typed, TypeOK
  <2> QED BY <2>3, <2>5, <2>6
<1>7. CASE StoreFlush(t)
  <2>1. /\ op[t].root \in Root /\ op[t] \in Op /\ op \in [Thread -> Op]
        /\ files \in [Root -> [Path -> File]]
    BY <1>7, Zenon DEF StoreFlush, Typed, TypeOK, Placed
  <2> DEFINE temp == files[op[t].root][TempPath(t)]
  <2>2. Goes(t, "rename") /\ files' = [files EXCEPT ![op[t].root][TempPath(t)] =
                   IF @ = NoFile THEN @ ELSE [@ EXCEPT !.state = "whole", !.written = opCount]]
    BY <1>3, <1>7, <2>1, Zenon DEF StoreFlush, Done
  <2>3. op'[t].root = op[t].root /\ op'[t].len = op[t].len /\ op'[t].pc = "rename"
    BY <2>1, <2>2, Zenon DEF Goes, Op
  <2>4. files'[op[t].root][TempPath(t)] =
          IF temp = NoFile THEN temp ELSE [temp EXCEPT !.state = "whole", !.written = opCount]
    BY <1>2, <2>1, <2>2, Zenon
  <2>5. temp \in File /\ temp # NoFile /\ temp.len = op[t].len /\ temp.by = {t}
    BY <1>2, <1>7, <2>1, <2>3, <2>4, Zenon DEF StoreFlush, Temps
  <2> HIDE DEF temp
  <2>6. opCount' = opCount /\ opCount <= opCount
    BY <1>7 DEF StoreFlush, Typed, TypeOK
  <2> QED BY <2>3, <2>4, <2>5, <2>6, Zenon DEF File
<1> QED BY <1>4, <1>5, <1>6, <1>7, OpStep, Flushing, Zenon

\* Every step keeps PublishedWhole.
LEMMA WholeNext == Typed /\ Temps /\ PublishedWhole /\ [Next]_diskVars => PublishedWhole'
<1> SUFFICES ASSUME Typed, Temps, PublishedWhole, [Next]_diskVars,
                    NEW r \in Root, NEW k \in EntryKey
             PROVE  files'[r][EntryPath(k)].state # "partial"
  BY Zenon DEF PublishedWhole
<1>1. EntryPath(k) \in Path /\ \A t \in Thread : EntryPath(k) # TempPath(t)
  BY Paths, Zenon
<1>2. CASE files'[r][EntryPath(k)] = files[r][EntryPath(k)]
  BY <1>2, Zenon DEF PublishedWhole
<1>3. CASE files'[r][EntryPath(k)] = NoFile
  BY <1>3 DEF NoFile
<1>4. CASE Foreign(r, EntryPath(k))
  BY <1>4, Zenon DEF Foreign
<1>5. ASSUME NEW t \in Thread, RenamedTo(t, r, EntryPath(k))
      PROVE  files'[r][EntryPath(k)].state # "partial"
  BY <1>5, Zenon DEF RenamedTo, StoreRename, Temps
<1> QED BY <1>1, <1>2, <1>3, <1>4, <1>5, FilesStep, Zenon

-------------------------------------------------------------------------------
(***************************************************************************)
(* Load is faithful.  That a Load does not delete what it sized needs that *)
(* no file comes back: the files of one thread have different write times, *)
(* and so have those of other processes.                                   *)
(***************************************************************************)

\* What thread u has written so far was written before this.
Stamp(u) ==
  LET temp == files[op[u].root][TempPath(u)]
  IN  IF op[u].pc \in {"write", "flush"} THEN opCount
      ELSE IF op[u].pc = "rename" /\ temp # NoFile THEN temp.written
      ELSE opCount + 1

\* The file is not one that a write to come can make again.
Dated(f) ==
  \/ f.state = "none"
  \/ f.by = {} /\ f.written < opCount
  \/ \E u \in Thread : f.by = {u} /\ f.written < Stamp(u)

\* It is a temporary of a call in flight.
InFlight(r, p) ==
  \E u \in Thread : op[u].pc \in {"flush", "rename"} /\ r = op[u].root /\ p = TempPath(u)

\* So is no other file, and none that a Load took the size of.
Unrepeated ==
  /\ \A r \in Root, p \in Path : ~InFlight(r, p) => Dated(files[r][p])
  /\ \A t \in Thread : op[t].pc \in {"open", "remove"} => Dated(op[t].raw)

\* The size is of the file it was taken of.
Sized == \A t \in Thread : op[t].pc = "open" => op[t].size = op[t].raw.len

\* The steps that bring a call to where Unrepeated, Sized and LoadIsFaithful
\* speak of it.
LEMMA Arriving ==
  ASSUME Typed, NEW t \in Thread, Step(t)
  PROVE  /\ op'[t].pc = "write" => StoreStart(t)
         /\ op'[t].pc = "open" => LoadStat(t) /\ op'[t].raw = MyFile(t) /\ op'[t].size = MyFile(t).len
         /\ op'[t].pc = "remove" =>
              /\ LoadOpen(t) /\ op[t].pc = "open" /\ DecodeEntry(t, MyFile(t)) = "Corrupt"
              /\ op'[t].raw = op[t].raw /\ op'[t].key = op[t].key /\ op'[t].root = op[t].root
         /\ op'[t].pc = "hit" =>
              /\ LoadOpen(t) /\ DecodeEntry(t, MyFile(t)) = "Ok" /\ op'[t].raw = MyFile(t)
              /\ op'[t].key = op[t].key /\ op'[t].size = op[t].size /\ op'[t].len = op[t].len
<1>1. op \in [Thread -> Op] /\ NoOp.pc = "idle"
  BY Zenon DEF Typed, TypeOK, NoOp
<1>2. CASE LoadStart(t)
  <2>1. op'[t].pc = "stat"
    BY <1>1, <1>2, Zenon DEF LoadStart, Call, NoOp
  <2> QED BY <2>1, Zenon
<1>3. CASE StoreStart(t)
  <2>1. op'[t].pc = "write"
    BY <1>1, <1>3, Zenon DEF StoreStart, Call, NoOp
  <2> QED BY <1>3, <2>1, Zenon
<1>4. CASE LoadStat(t)
  <2>1. CASE Done(t)
    BY <1>1, <2>1, Zenon DEF Done
  <2>2. CASE op' = [op EXCEPT ![t].pc = "open", ![t].size = MyFile(t).len, ![t].raw = MyFile(t)]
    <3>1. op'[t].pc = "open" /\ op'[t].raw = MyFile(t) /\ op'[t].size = MyFile(t).len
      BY <1>1, <2>2, Zenon DEF Op
    <3> QED BY <1>4, <3>1, Zenon
  <2> QED BY <1>4, <2>1, <2>2, Zenon DEF LoadStat
<1>5. CASE LoadOpen(t)
  <2>1. CASE Done(t)
    BY <1>1, <2>1, Zenon DEF Done
  <2>2. CASE DecodeEntry(t, MyFile(t)) = "Corrupt" /\ Goes(t, "remove")
    <3>1. /\ op'[t].pc = "remove" /\ op'[t].raw = op[t].raw
          /\ op'[t].key = op[t].key /\ op'[t].root = op[t].root
      BY <1>1, <2>2, Zenon DEF Goes, Op
    <3> QED BY <1>5, <2>2, <3>1, Zenon DEF LoadOpen
  <2>3. CASE /\ DecodeEntry(t, MyFile(t)) = "Ok"
             /\ op' = [op EXCEPT ![t].pc = "hit", ![t].raw = MyFile(t)]
    <3>1. /\ op'[t].pc = "hit" /\ op'[t].raw = MyFile(t)
          /\ op'[t].key = op[t].key /\ op'[t].size = op[t].size /\ op'[t].len = op[t].len
      BY <1>1, <2>3, Zenon DEF Op
    <3> QED BY <1>5, <2>3, <3>1, Zenon
  <2> QED BY <1>5, <2>1, <2>2, <2>3, Zenon DEF LoadOpen
<1>6. CASE LoadRemove(t) \/ LoadReturn(t)
  BY <1>1, <1>6, Zenon DEF LoadRemove, LoadReturn, Done
<1>7. CASE StoreWrite(t) \/ StoreFlush(t) \/ StoreRename(t)
  <2>1. op'[t].pc \in {"idle", "flush", "rename", "account"}
    BY <1>1, <1>7 DEF StoreWrite, StoreFlush, StoreRename, Goes, Done, Op
  <2> QED BY <2>1, Zenon
<1>8. CASE StoreAccount(t)
  <2>1. Begun(t).pc = "walk"
    BY Zenon DEF Begun, NoOp
  <2>2. op'[t].pc \in {"walk", "idle"}
    BY <1>1, <1>8, <2>1, AccountCases, Zenon DEF Done
  <2> QED BY <2>2, Zenon
<1>9. CASE WalkOne(t) \/ TrimOne(t) \/ WalkEnd(t) \/ TrimEnd(t) \/ SweepEnd(t)
  <2>1. CASE WalkOne(t) \/ TrimOne(t)
    BY <1>1, <2>1, WalkOneCases, TrimOneCases, Zenon
  <2>2. CASE WalkEnd(t) \/ TrimEnd(t) \/ SweepEnd(t)
    BY <1>1, <2>2 DEF WalkEnd, TrimEnd, SweepEnd, Goes, Done, Op
  <2> QED BY <1>9, <2>1, <2>2, Zenon
<1> QED BY <1>2, <1>3, <1>4, <1>5, <1>6, <1>7, <1>8, <1>9, Zenon DEF Step

\* Write times only grow.
LEMMA StampGrows ==
  ASSUME Typed, Temps, [Next]_diskVars, NEW u \in Thread
  PROVE  /\ Stamp(u) \in Nat /\ Stamp(u)' \in Nat
         /\ Stamp(u) <= Stamp(u)'
<1> DEFINE temp == files[op[u].root][TempPath(u)]
<1>1. PICK n \in Nat, m \in Nat : n = opCount /\ m = opCount' /\ (m = n \/ m = n + 1)
  BY TypedNext, CountGrows, Zenon DEF Typed, TypeOK
<1>2. Typed' /\ Temps' /\ op \in [Thread -> Op] /\ NoOp.pc = "idle"
  BY TypedNext, TempsNext, Zenon DEF Typed, TypeOK, NoOp
<1>3. op[u].pc \in {"flush", "rename"} => temp \in File
  BY Paths, Zenon DEF Typed, TypeOK, Placed
<1>4. op'[u].pc \in {"flush", "rename"} => temp' \in File
  BY <1>2, Paths DEF Typed, TypeOK, Placed
<1>5. Stamp(u) \in Nat /\ Stamp(u) <= n + 1
  <2>1. CASE op[u].pc = "rename" /\ temp # NoFile
    <3>1. Stamp(u) = temp.written /\ temp.written \in Nat /\ temp.written <= n
      BY <1>1, <1>3, <2>1, Zenon DEF Stamp, Temps, File
    <3> QED BY <3>1
  <2>2. CASE ~(op[u].pc = "rename" /\ temp # NoFile)
    <3>1. Stamp(u) \in {n, n + 1}
      BY <1>1, <2>2, Zenon DEF Stamp
    <3> QED BY <3>1
  <2> QED BY <2>1, <2>2, Zenon
<1>6. CASE op'[u].pc \notin {"write", "flush", "rename"} \/ (op'[u].pc = "rename" /\ temp' = NoFile)
  <2>1. Stamp(u)' = m + 1
    BY <1>1, <1>6, Zenon DEF Stamp
  <2>2. m + 1 \in Nat /\ n + 1 <= m + 1
    <3>1. m = n \/ m = n + 1
      BY <1>1, Zenon
    <3> QED BY <3>1
  <2>3. \A a \in Nat : a <= n + 1 => a <= m + 1
    BY <2>2
  <2> QED BY <1>5, <2>1, <2>2, <2>3, Zenon
<1>7. CASE op'[u].pc \in {"write", "flush"}
  <2>1. Stamp(u)' = m
    BY <1>1, <1>7, Zenon DEF Stamp
  <2>2. CASE op'[u] = op[u] \/ StoreWrite(u)
    <3>1. op[u].pc \in {"write", "flush"}
      BY <1>7, <2>2, Zenon DEF StoreWrite
    <3>2. Stamp(u) = n
      BY <1>1, <3>1, Zenon DEF Stamp
    <3> QED BY <1>1, <2>1, <3>2
  <2>3. CASE StoreStart(u)
    <3>1. m = n + 1
      BY <1>1, <2>3, Zenon DEF StoreStart, Call
    <3> QED BY <1>5, <2>1, <3>1
  <2>4. CASE StoreFlush(u)
    <3>1. op'[u].pc \in {"rename", "idle"}
      BY <1>2, <2>4 DEF StoreFlush, Goes, Done, Op
    <3> QED BY <1>7, <3>1, Zenon
  <2>5. op'[u] # NoOp
    BY <1>2, <1>7, Zenon
  <2> QED BY <1>7, <2>2, <2>3, <2>4, <2>5, OpStep, Arriving, Flushing, Zenon
<1>8. CASE op'[u].pc = "rename" /\ temp' # NoFile
  <2>1. Stamp(u)' = temp'.written /\ temp'.written \in Nat
    BY <1>4, <1>8, Zenon DEF Stamp, File
  <2>2. CASE op'[u] = op[u]
    <3>1. temp' = temp
      BY <1>8, <2>2, TempStands, Zenon
    <3>2. Stamp(u) = temp.written
      BY <1>8, <2>2, <3>1, Zenon DEF Stamp
    <3> QED BY <2>1, <3>1, <3>2
  <2>3. CASE StoreFlush(u)
    <3>1. Goes(u, "rename") /\ files' = [files EXCEPT ![op[u].root][TempPath(u)] =
                    IF @ = NoFile THEN @ ELSE [@ EXCEPT !.state = "whole", !.written = opCount]]
      BY <1>2, <1>8, <2>3, Zenon DEF StoreFlush, Done
    <3>2. /\ op'[u].root = op[u].root /\ op[u].root \in Root /\ TempPath(u) \in Path
          /\ files \in [Root -> [Path -> File]]
      BY <1>2, <2>3, <3>1, Paths DEF StoreFlush, Goes, Op, Typed, TypeOK, Placed
    <3>3. PICK f : f = temp /\ temp' = IF f = NoFile THEN f ELSE [f EXCEPT !.state = "whole", !.written = opCount]
      BY <3>1, <3>2, Zenon
    <3>4. f \in File /\ f # NoFile
      BY <1>3, <1>8, <2>3, <3>3, Zenon DEF StoreFlush
    <3>5. temp'.written = n
      BY <1>1, <3>3, <3>4, Zenon DEF File
    <3>6. Stamp(u) = n
      BY <1>1, <2>3, Zenon DEF Stamp, StoreFlush
    <3> QED BY <2>1, <3>5, <3>6
  <2>4. CASE StoreWrite(u)
    <3>1. op'[u].pc \in {"flush", "idle"}
      BY <1>2, <2>4 DEF StoreWrite, Goes, Done, Op
    <3> QED BY <1>8, <3>1, Zenon
  <2>5. op'[u] # NoOp
    BY <1>2, <1>8, Zenon
  <2> QED BY <1>8, <2>2, <2>3, <2>4, <2>5, OpStep, Flushing, Zenon
<1> QED BY <1>5, <1>6, <1>7, <1>8, Zenon

\* So what is dated stays dated.
LEMMA DatedStays ==
  ASSUME Typed, Temps, [Next]_diskVars, NEW f \in File, NEW g \in File, Dated(f),
         g.by = f.by /\ g.written = f.written, f.state # "none"
  PROVE  Dated(g)'
<1>1. PICK n \in Nat, m \in Nat : n = opCount /\ m = opCount' /\ n <= m
  <2>1. PICK n \in Nat, m \in Nat : n = opCount /\ m = opCount' /\ (m = n \/ m = n + 1)
    BY TypedNext, CountGrows, Zenon DEF Typed, TypeOK
  <2>2. n <= m
    BY <2>1
  <2> QED BY <2>1, <2>2, Zenon
<1>2. PICK w \in Nat : w = f.written /\ w = g.written
  BY Zenon DEF File
<1>3. CASE f.by = {} /\ f.written < opCount
  <2>1. w < m
    BY <1>1, <1>2, <1>3
  <2> QED BY <1>1, <1>2, <1>3, <2>1, Zenon DEF Dated
<1>4. ASSUME NEW u \in Thread, f.by = {u}, f.written < Stamp(u)
      PROVE  Dated(g)'
  <2>1. w < Stamp(u)'
    BY <1>2, <1>4, StampGrows
  <2> QED BY <1>2, <1>4, <2>1, Zenon DEF Dated
<1> QED BY <1>3, <1>4, Zenon DEF Dated

\* Every step keeps Unrepeated.
LEMMA UnrepeatedNext == Typed /\ Temps /\ Unrepeated /\ [Next]_diskVars => Unrepeated'
<1> SUFFICES ASSUME Typed, Temps, Unrepeated, [Next]_diskVars
             PROVE  Unrepeated'
  BY Zenon
<1>1. /\ files \in [Root -> [Path -> File]] /\ files' \in [Root -> [Path -> File]]
      /\ op \in [Thread -> Op] /\ op' \in [Thread -> Op]
      /\ NoOp.pc = "idle" /\ NoFile.state = "none"
  BY TypedNext, Zenon DEF Typed, TypeOK, NoOp, NoFile
<1>2. PICK n \in Nat, m \in Nat : n = opCount /\ m = opCount' /\ n < m + 1
  <2>1. PICK n \in Nat, m \in Nat : n = opCount /\ m = opCount' /\ (m = n \/ m = n + 1)
    BY TypedNext, CountGrows, Zenon DEF Typed, TypeOK
  <2>2. m = n \/ m = n + 1
    BY <2>1, Zenon
  <2>3. n < m + 1
    BY <2>2
  <2> QED BY <2>1, <2>3, Zenon
\* What a call that is past its write had in its temporary is dated.
<1>3. ASSUME NEW u \in Thread, op[u].pc \in {"flush", "rename"},
             op'[u].pc \notin {"write", "flush", "rename"}, NEW f \in File,
             f = files[op[u].root][TempPath(u)]
      PROVE  Dated(f)'
  <2>1. f = NoFile \/ (f.by = {u} /\ f.written <= n)
    BY <1>2, <1>3, Zenon DEF Temps
  <2>2. Stamp(u)' = m + 1
    BY <1>2, <1>3, Zenon DEF Stamp
  <2>3. f.written <= n => f.written < m + 1
    <3>1. PICK w \in Nat : w = f.written
      BY Zenon DEF File
    <3>2. n < m + 1
      BY <1>2, Zenon
    <3>3. w <= n => w < m + 1
      BY <3>2
    <3> QED BY <3>1, <3>3, Zenon
  <2> QED BY <1>1, <2>1, <2>2, <2>3, Zenon DEF Dated
<1>4. ASSUME NEW r \in Root, NEW p \in Path, ~InFlight(r, p)'
      PROVE  Dated(files[r][p])'
  <2>1. PICK f \in File, g \in File : f = files[r][p] /\ g = files'[r][p]
    BY <1>1, Zenon
  <2>2. CASE g.state = "none"
    BY <2>1, <2>2, Zenon DEF Dated
  <2>3. CASE g = f /\ g.state # "none"
    <3>1. CASE ~InFlight(r, p)
      BY <2>1, <2>3, <3>1, DatedStays, Zenon DEF Unrepeated
    <3>2. CASE InFlight(r, p)
      <4>1. PICK u \in Thread : op[u].pc \in {"flush", "rename"} /\ r = op[u].root /\ p = TempPath(u)
        BY <3>2, Zenon DEF InFlight
      <4>2. op'[u].pc \notin {"write", "flush", "rename"}
        <5>1. op'[u] # op[u]
          BY <1>4, <4>1, Zenon DEF InFlight
        <5>2. CASE StoreFlush(u) \/ StoreRename(u)
          BY <1>1, <1>4, <4>1, <5>2 DEF StoreFlush, StoreRename, Goes, Done, Op, InFlight
        <5>3. CASE Step(u) /\ op'[u].pc \in {"write", "flush", "rename"}
          <6>1. ~StoreStart(u) /\ ~StoreWrite(u)
            BY <4>1, Zenon DEF StoreStart, Call, StoreWrite
          <6> QED BY <5>2, <5>3, <6>1, Arriving, Flushing, Zenon
        <5> QED BY <1>1, <5>1, <5>3, OpStep, Zenon
      <4> QED BY <1>3, <2>1, <2>3, <4>1, <4>2, Zenon
    <3> QED BY <3>1, <3>2, Zenon
  <2>4. CASE Foreign(r, p)
    <3>1. ~InFlight(r, p)
      BY <2>4, Paths, Zenon DEF Foreign, InFlight
    <3>2. CASE g.by = {} /\ g.written = opCount /\ opCount' = opCount + 1
      <4>1. opCount < opCount + 1
        BY <1>2
      <4> QED BY <2>1, <3>2, <4>1, Zenon DEF Dated
    <3>3. CASE f.state = "whole" /\ g.by = f.by /\ g.written = f.written
      BY <2>1, <3>1, <3>3, DatedStays, Zenon DEF Unrepeated
    <3> QED BY <2>1, <2>4, <3>2, <3>3, Zenon DEF Foreign
  <2>5. ASSUME NEW t \in Thread, StoreWrite(t) \/ StoreFlush(t), r = op[t].root, p = TempPath(t)
        PROVE  g = f \/ g = NoFile
    <3>1. ~Goes(t, "flush") /\ ~Goes(t, "rename")
      BY <1>1, <1>4, <2>5 DEF InFlight, Goes, Op
    <3>2. files' = files \/ Put(r, p, NoFile)
      BY <2>5, <3>1, Zenon DEF StoreWrite, StoreFlush
    <3> QED BY <1>1, <2>1, <3>2, Zenon DEF Put
  <2>6. ASSUME NEW t \in Thread, RenamedTo(t, r, p)
        PROVE  Dated(g)'
    <3>1. op'[t].pc = "account" /\ op[t].pc = "rename"
      BY <1>1, <2>6, Zenon DEF RenamedTo, StoreRename, Goes, Op
    <3>2. g = files[op[t].root][TempPath(t)]
      BY <2>1, <2>6, Zenon DEF RenamedTo
    <3> QED BY <1>3, <3>1, <3>2, Zenon
  <2> QED BY <1>1, <2>1, <2>2, <2>3, <2>4, <2>5, <2>6, FilesStep, Zenon
<1>5. ASSUME NEW t \in Thread, op'[t].pc \in {"open", "remove"}
      PROVE  Dated(op[t].raw)'
  <2>1. PICK g \in File : g = op'[t].raw
    BY <1>1, Zenon DEF Op
  <2>2. CASE g.state = "none"
    BY <2>1, <2>2, Zenon DEF Dated
  <2>3. CASE g.state # "none" /\ op[t].pc \in {"open", "remove"} /\ op'[t].raw = op[t].raw
    BY <2>1, <2>3, DatedStays, Zenon DEF Unrepeated
  <2>4. CASE g.state # "none" /\ LoadStat(t) /\ op'[t].raw = MyFile(t)
    <3>1. op[t].root \in Root /\ op[t].key \in EntryKey
      BY <2>4, Zenon DEF LoadStat, Typed, Placed, Loading
    <3>2. EntryPath(op[t].key) \in Path /\ ~InFlight(op[t].root, EntryPath(op[t].key))
      BY <3>1, Paths, Zenon DEF InFlight
    <3>3. Dated(g)
      BY <2>1, <2>4, <3>1, <3>2, Zenon DEF Unrepeated, MyFile
    <3> QED BY <2>1, <2>4, <3>3, DatedStays, Zenon
  <2> QED BY <1>1, <1>5, <2>1, <2>2, <2>3, <2>4, OpStep, Arriving, Zenon
<1> QED BY <1>4, <1>5, Zenon DEF Unrepeated

\* Every step keeps Sized.
LEMMA SizedNext == Typed /\ Sized /\ [Next]_diskVars => Sized'
<1>1. NoOp.pc = "idle"
  BY Zenon DEF NoOp
<1> QED BY <1>1, OpStep, Arriving, Zenon DEF Sized

\* Every step keeps LoadIsFaithful: what was read is checked against the size,
\* and no file comes back at the name.
LEMMA FaithfulNext ==
  Typed /\ Temps /\ Unrepeated /\ Sized /\ LoadIsFaithful /\ [Next]_diskVars => LoadIsFaithful'
<1> SUFFICES ASSUME Typed, Temps, Unrepeated, Sized, LoadIsFaithful, [Next]_diskVars, NEW t \in Thread
             PROVE  /\ op'[t].pc = "hit" =>
                         op'[t].size = op'[t].len /\ op'[t].raw.state = "whole" /\ op'[t].raw.key = op'[t].key
                    /\ op'[t].pc = "remove" /\ MyFile(t)'.state = "whole" => MyFile(t)' # op'[t].raw
  BY Zenon DEF LoadIsFaithful
<1>1. /\ op \in [Thread -> Op] /\ NoOp.pc = "idle" /\ NoFile.state = "none"
      /\ files \in [Root -> [Path -> File]]
  BY Zenon DEF Typed, TypeOK, NoOp, NoFile
<1>2. ASSUME op'[t].pc = "hit"
      PROVE  op'[t].size = op'[t].len /\ op'[t].raw.state = "whole" /\ op'[t].raw.key = op'[t].key
  <2>1. CASE op'[t] = op[t]
    BY <1>2, <2>1, Zenon DEF LoadIsFaithful
  <2>2. CASE Step(t)
    <3>1. /\ DecodeEntry(t, MyFile(t)) = "Ok" /\ op'[t].raw = MyFile(t)
          /\ op'[t].key = op[t].key /\ op'[t].size = op[t].size /\ op'[t].len = op[t].len
      BY <1>2, <2>2, Arriving, Zenon
    <3> QED BY <3>1, Zenon DEF DecodeEntry
  <2> QED BY <1>1, <1>2, <2>1, <2>2, OpStep, Zenon
<1>3. ASSUME op'[t].pc = "remove", MyFile(t)'.state = "whole", MyFile(t)' = op'[t].raw
      PROVE  FALSE
  <2>1. CASE Step(t)
    <3>1. /\ LoadOpen(t) /\ op[t].pc = "open" /\ DecodeEntry(t, MyFile(t)) = "Corrupt"
          /\ op'[t].raw = op[t].raw /\ op'[t].key = op[t].key /\ op'[t].root = op[t].root
      BY <1>3, <2>1, Arriving, Zenon
    <3>2. MyFile(t)' = MyFile(t)
      BY <3>1, Zenon DEF LoadOpen, MyFile
    <3>3. MyFile(t).state = "whole" /\ MyFile(t).len = op[t].size
      BY <1>3, <3>1, <3>2, Zenon DEF Sized
    <3> QED BY <3>1, <3>3, Zenon DEF DecodeEntry
  <2>2. CASE op'[t] = op[t]
    <3> DEFINE r == op[t].root
               p == EntryPath(op[t].key)
    <3>1. r \in Root /\ p \in Path /\ \A u \in Thread : p # TempPath(u)
      BY <1>3, <2>2, Paths, Zenon DEF Typed, Placed, Loading
    <3>2. PICK f \in File, g \in File :
            f = files[r][p] /\ g = files'[r][p] /\ g.state = "whole" /\ g = op[t].raw
      BY <1>1, <1>3, <2>2, <3>1, TypedNext, Zenon DEF MyFile, Typed, TypeOK
    <3>3. Dated(g)
      BY <1>3, <2>2, <3>2, Zenon DEF Unrepeated
    <3>4. g # f
      BY <1>3, <2>2, <3>2, Zenon DEF LoadIsFaithful, MyFile
    <3>5. ~Foreign(r, p)
      <4>1. SUFFICES ASSUME g.by = {}, g.written = opCount
                     PROVE  FALSE
        BY <3>2, Zenon DEF Foreign
      <4>2. g.written < opCount
        BY <3>2, <3>3, <4>1, Zenon DEF Dated
      <4>3. opCount \in Nat
        BY Zenon DEF Typed, TypeOK
      <4> QED BY <4>1, <4>2, <4>3
    <3>6. ASSUME NEW u \in Thread, RenamedTo(u, r, p)
          PROVE  FALSE
      <4>1. op[u].pc = "rename" /\ g = files[op[u].root][TempPath(u)] /\ g # NoFile
        BY <3>2, <3>6, Zenon DEF RenamedTo, StoreRename
      <4>2. g.by = {u} /\ Stamp(u) = g.written
        BY <4>1, Zenon DEF Temps, Stamp
      <4>3. g.written < g.written
        BY <3>2, <3>3, <4>2, Zenon DEF Dated
      <4>4. g.written \in Nat
        BY Zenon DEF File
      <4> QED BY <4>3, <4>4
    <3> QED BY <1>1, <3>1, <3>2, <3>4, <3>5, <3>6, FilesStep, Zenon
  <2> QED BY <1>1, <1>3, <2>1, <2>2, OpStep, Zenon
<1> QED BY <1>2, <1>3, Zenon

-------------------------------------------------------------------------------
(***************************************************************************)
(* One sweep at a time, of the epoch it began in.                          *)
(***************************************************************************)

\* A sweep of the current epoch is of the directory the store is on, which it
\* has marked as swept; one of an earlier epoch finds a store that has not been
\* swept since, and cannot be while it runs.
Sweeps ==
  /\ \A t, u \in Sweeper : t = u
  /\ store.sweeping <=> \E t \in Thread : t \in Sweeper
  /\ store.impl.swept => store.impl.root \in Root
  /\ \A t \in Sweeper :
       /\ op[t].epoch <= store.epoch
       /\ op[t].epoch # store.epoch => ~store.impl.swept
       /\ op[t].epoch = store.epoch => store.impl.swept /\ op[t].root = store.impl.root
  /\ ~store.impl.swept => store.impl.knownBytes = 0

\* The steps of Load and of Store up to the rename know nothing of sweeps.
LEMMA QuietStep ==
  ASSUME Typed, NEW t \in Thread,
         \/ LoadStart(t) \/ LoadStat(t) \/ LoadOpen(t) \/ LoadRemove(t) \/ LoadReturn(t)
         \/ StoreStart(t) \/ StoreWrite(t) \/ StoreFlush(t) \/ StoreRename(t)
  PROVE  /\ store' = store
         /\ t \notin Sweeper /\ t \notin Sweeper'
         /\ op[t].pc # "account"
         /\ op'[t].pc = "account" => StoreRename(t) /\ Goes(t, "account") /\ op'[t].len = op[t].len
<1>1. op \in [Thread -> Op] /\ NoOp.pc = "idle"
  BY Zenon DEF Typed, TypeOK, NoOp
<1>2. CASE LoadStart(t) \/ StoreStart(t)
  <2>1. op[t].pc = "idle" /\ op'[t].pc \in {"stat", "write"} /\ store' = store
    BY <1>1, <1>2, Zenon DEF LoadStart, StoreStart, Call, NoOp
  <2> QED BY <2>1, Zenon DEF Sweeper
<1>3. CASE LoadStat(t) \/ LoadOpen(t) \/ LoadRemove(t) \/ LoadReturn(t)
  BY <1>1, <1>3 DEF LoadStat, LoadOpen, LoadRemove, LoadReturn, Goes, Done, Op, Sweeper
<1>4. CASE StoreWrite(t) \/ StoreFlush(t) \/ StoreRename(t)
  BY <1>1, <1>4 DEF StoreWrite, StoreFlush, StoreRename, Goes, Done, Op, Sweeper
<1> QED BY <1>2, <1>3, <1>4, Zenon

\* A sweep that goes on is the same sweep.
LEMMA SweepStep ==
  ASSUME Typed, NEW t \in Thread, WalkOne(t) \/ WalkEnd(t) \/ TrimOne(t) \/ TrimEnd(t)
  PROVE  /\ store' = store
         /\ t \in Sweeper /\ t \in Sweeper'
         /\ op'[t].epoch = op[t].epoch /\ op'[t].root = op[t].root
<1>1. op \in [Thread -> Op]
  BY Zenon DEF Typed, TypeOK
<1>2. CASE WalkOne(t)
  BY <1>1, <1>2, WalkOneCases, Zenon DEF Sweeper
<1>3. CASE TrimOne(t)
  BY <1>1, <1>3, TrimOneCases, Zenon DEF Sweeper
<1>4. CASE WalkEnd(t) \/ TrimEnd(t)
  BY <1>1, <1>4 DEF WalkEnd, TrimEnd, Goes, Op, Sweeper
<1> QED BY <1>2, <1>3, <1>4, Zenon

\* Every step keeps Sweeps.
LEMMA SweepsNext == Typed /\ Sweeps /\ [Next]_diskVars => Sweeps'
<1> SUFFICES ASSUME Typed, Sweeps, [Next]_diskVars PROVE Sweeps'
  BY Zenon
<1>1. /\ op \in [Thread -> Op] /\ NoOp.pc = "idle"
      /\ store \in [impl : Impl, epoch : Nat, sweeping : BOOLEAN, cut : BOOLEAN]
  BY Zenon DEF Typed, TypeOK, NoOp
<1>2. ASSUME store' = store, \A u \in Thread : u \in Sweeper' <=> u \in Sweeper,
             \A u \in Sweeper : op'[u].epoch = op[u].epoch /\ op'[u].root = op[u].root
      PROVE  Sweeps'
  <2>1. Sweeper' = Sweeper
    BY <1>2, Zenon DEF Sweeper
  <2> QED BY <1>2, <2>1, Zenon DEF Sweeps
<1>3. ASSUME NEW t \in Thread,
             \/ LoadStart(t) \/ LoadStat(t) \/ LoadOpen(t) \/ LoadRemove(t) \/ LoadReturn(t)
             \/ StoreStart(t) \/ StoreWrite(t) \/ StoreFlush(t) \/ StoreRename(t)
             \/ WalkOne(t) \/ WalkEnd(t) \/ TrimOne(t) \/ TrimEnd(t)
      PROVE  Sweeps'
  <2>1. \A u \in Thread : u # t => op'[u] = op[u]
    BY <1>3, OthersStand, Zenon DEF Step
  <2>2. \A u \in Thread : u # t => (u \in Sweeper' <=> u \in Sweeper)
    BY <2>1, Zenon DEF Sweeper
  <2>3. /\ store' = store
        /\ t \in Sweeper' <=> t \in Sweeper
        /\ t \in Sweeper => op'[t].epoch = op[t].epoch /\ op'[t].root = op[t].root
    BY <1>3, QuietStep, SweepStep, Zenon
  <2>4. Sweeper \subseteq Thread
    BY Zenon DEF Sweeper
  <2> QED BY <1>2, <2>1, <2>2, <2>3, <2>4, Zenon
<1>4. ASSUME NEW t \in Thread, StoreAccount(t)
      PROVE  Sweeps'
  <2>1. \A u \in Thread : u # t => op'[u] = op[u]
    BY <1>4, OthersStand, Zenon DEF Step
  <2>2. \A u \in Thread : u # t => (u \in Sweeper' <=> u \in Sweeper)
    BY <2>1 DEF Sweeper
  <2>3. t \notin Sweeper /\ Sweeper \subseteq Thread /\ Sweeper' \subseteq Thread
    BY <1>4, AccountCases, Zenon DEF Sweeper
  <2>4. CASE Done(t) /\ store' = [store EXCEPT !.impl = Accounted(t)]
    <3>1. t \notin Sweeper'
      BY <1>1, <2>4, Zenon DEF Done, Sweeper
    <3>2. Sweeper' = Sweeper
      BY <2>2, <2>3, <3>1
    <3>3. /\ store'.sweeping = store.sweeping /\ store'.epoch = store.epoch
          /\ store'.impl = Accounted(t)
      BY <1>1, <2>4, Zenon
    <3>4. \A u \in Sweeper : op'[u] = op[u]
      BY <2>1, <2>3, Zenon
    <3>5. /\ store'.impl.swept = store.impl.swept /\ store'.impl.root = store.impl.root
          /\ store'.impl.knownBytes = store.impl.knownBytes
      BY <1>4, <3>3, AccountCases, Zenon
    <3>6. (\E u \in Thread : u \in Sweeper') <=> (\E u \in Thread : u \in Sweeper)
      BY <3>2, Zenon
    <3> QED BY <3>2, <3>3, <3>4, <3>5, <3>6, Zenon DEF Sweeps
  <2>5. CASE /\ MayBegin
             /\ store' = [store EXCEPT
                    !.impl = [Accounted(t) EXCEPT !.swept = TRUE, !.bytesSinceSweep = 0],
                    !.sweeping = TRUE]
             /\ op' = [op EXCEPT ![t] = Begun(t)]
    <3>1. ~store.sweeping /\ store.impl.root \in Root
      BY <1>1, <2>5, Zenon DEF MayBegin, Enabled, Impl
    <3>2. Sweeper' = {t}
      <4>1. \A u \in Thread : u \notin Sweeper
        BY <3>1, Zenon DEF Sweeps
      <4>2. t \in Sweeper'
        BY <1>1, <2>5, Zenon DEF Begun, NoOp, Sweeper
      <4> QED BY <2>2, <2>3, <4>1, <4>2, Zenon
    <3>3. op'[t].epoch = store.epoch /\ op'[t].root = store.impl.root
      BY <1>1, <2>5, Zenon DEF Begun, NoOp
    <3>4. /\ store'.sweeping = TRUE /\ store'.epoch = store.epoch
          /\ store'.impl = [Accounted(t) EXCEPT !.swept = TRUE, !.bytesSinceSweep = 0]
      BY <1>1, <2>5, Zenon
    <3>5. store'.impl.swept = TRUE /\ store'.impl.root = store.impl.root
      BY <1>4, <3>4, AccountCases, Zenon DEF Impl
    <3> QED BY <1>1, <3>1, <3>2, <3>3, <3>4, <3>5 DEF Sweeps
  <2> QED BY <1>4, <2>4, <2>5, AccountCases, Zenon
<1>5. ASSUME NEW t \in Thread, SweepEnd(t)
      PROVE  Sweeps'
  <2>1. t \in Sweeper
    BY <1>5, Zenon DEF SweepEnd, Sweeper
  <2>2. \A u \in Thread : u \notin Sweeper'
    <3>1. \A u \in Thread : u # t => u \notin Sweeper /\ op'[u] = op[u]
      BY <1>5, <2>1, OthersStand, Zenon DEF Sweeps, Step
    <3>2. op'[t].pc = "idle"
      BY <1>1, <1>5, Zenon DEF SweepEnd, Done
    <3> QED BY <3>1, <3>2, Zenon DEF Sweeper
  <2>3. Sweeper' = {}
    BY <2>2, Zenon DEF Sweeper
  <2>4. /\ store'.sweeping = FALSE
        /\ store'.impl.swept = store.impl.swept /\ store'.impl.root = store.impl.root
        /\ store'.impl.knownBytes = IF store.epoch = op[t].epoch THEN op[t].total
                                                                ELSE store.impl.knownBytes
    BY <1>1, <1>5, Zenon DEF SweepEnd, Impl
  <2> QED BY <2>1, <2>2, <2>3, <2>4, Zenon DEF Sweeps
<1>6. ASSUME op' = op, store'.epoch = store.epoch + 1, store'.sweeping = store.sweeping,
             ~store'.impl.swept, store'.impl.knownBytes = 0
      PROVE  Sweeps'
  <2>1. Sweeper' = Sweeper /\ Sweeper \subseteq Thread
    BY <1>6, Zenon DEF Sweeper
  <2>2. \A t \in Thread : op[t].epoch \in Nat
    BY <1>1, Zenon DEF Op
  <2> QED BY <1>1, <1>6, <2>1, <2>2 DEF Sweeps
<1>7. ASSUME NEW r \in Root \cup {NoRoot}, Configure(r)
      PROVE  Sweeps'
  BY <1>1, <1>6, <1>7, Zenon DEF Configure, Off
<1>8. CASE Clear
  BY <1>1, <1>6, <1>8, Zenon DEF Clear, Off
<1>9. CASE Crash
  <2>1. Sweeper' = {}
    BY <1>1, <1>9, Zenon DEF Crash, Sweeper
  <2> QED BY <1>9, <2>1, Zenon DEF Crash, Off, Sweeps
<1>10. CASE OtherPublish \/ OtherRemove \/ Spoil \/ Finished \/ UNCHANGED diskVars
  <2>1. store' = store /\ op' = op
    BY <1>10, Zenon DEF OtherPublish, OtherRemove, Spoil, Outside, Finished, diskVars
  <2> QED BY <1>2, <2>1, Zenon DEF Sweeper
<1> QED BY <1>3, <1>4, <1>5, <1>7, <1>8, <1>9, <1>10, Zenon DEF Next, Step

-------------------------------------------------------------------------------
(***************************************************************************)
(* The bytes the store reports are never fewer than there are.             *)
(***************************************************************************)

\* What this process's entries occupy in directory r, path by path, and what of
\* that o has passed or counted.
Weight(r) ==
  [p \in Path |-> IF p[1] = "entry" /\ files[r][p].by # {} THEN files[r][p].len ELSE 0]
Occupied(r, o) == Bytes(Weight(r), o)

\* What is written and waits to be counted.
Pending == [t \in Thread |-> IF op[t].pc = "account" THEN op[t].len ELSE 0]
Waiting == SumFunctionOnSet(Pending, Thread)

\* A walk meets a path once, and is complete unless it was cut.
Walks ==
  \A t \in Sweeper :
    /\ \A e, f \in op[t].entries : e[1] = f[1] => e = f
    /\ \A e \in op[t].entries : e[1] \notin op[t].todo
    /\ op[t].pc = "walk" => ~op[t].cut
    /\ op[t].pc # "walk" /\ ~op[t].cut => op[t].todo = {}

\* What is there, or was counted there, is in the total of the sweep, in the
\* bytes written since it began, or waits to be counted.
Counted ==
  /\ \A t \in Sweeper :
       op[t].epoch = store.epoch /\ ~op[t].cut =>
         Occupied(op[t].root, op[t]) <= op[t].total + store.impl.bytesSinceSweep + Waiting
  /\ store.impl.swept /\ ~store.sweeping /\ ~store.cut =>
       Occupied(store.impl.root, NoOp)
         <= store.impl.knownBytes + store.impl.bytesSinceSweep + Waiting

\* The functions that are summed have naturals as values.
Summands ==
  /\ \A r \in Root : Weight(r) \in [Path -> Nat]
  /\ \A t \in Sweeper : Scanned(op[t]) /\ op[t].root \in Root
  /\ Pending \in [Thread -> Nat]

\* They do when the state is typed.
LEMMA SummandTypes == Typed /\ Walks => Summands
<1> SUFFICES ASSUME Typed, Walks PROVE Summands
  BY Zenon
<1>1. ASSUME NEW r \in Root PROVE Weight(r) \in [Path -> Nat]
  <2>1. \A p \in Path : files[r][p].len \in Nat
    BY Zenon DEF Typed, TypeOK, File
  <2> QED BY <2>1, Zenon DEF Weight
<1>2. ASSUME NEW t \in Sweeper PROVE Scanned(op[t]) /\ op[t].root \in Root
  BY <1>2, Zenon DEF Sweeper, Typed, TypeOK, Placed, Op, Walks, Scanned
<1>3. Pending \in [Thread -> Nat]
  BY Zenon DEF Pending, Typed, TypeOK, Op
<1> QED BY <1>1, <1>2, <1>3, Zenon DEF Summands

\* And after a step.
LEMMA SummandTypesAfter == Typed' /\ Walks' => Summands'
BY SummandTypes, PTL

\* Every step keeps Walks.
LEMMA WalksNext == Typed /\ Walks /\ [Next]_diskVars => Walks'
<1> SUFFICES ASSUME Typed, Walks, [Next]_diskVars, NEW t \in Thread, t \in Sweeper'
             PROVE  /\ \A e, f \in op'[t].entries : e[1] = f[1] => e = f
                    /\ \A e \in op'[t].entries : e[1] \notin op'[t].todo
                    /\ op'[t].pc = "walk" => ~op'[t].cut
                    /\ op'[t].pc # "walk" /\ ~op'[t].cut => op'[t].todo = {}
  BY Zenon DEF Walks, Sweeper
<1>1. op \in [Thread -> Op] /\ NoOp.pc = "idle"
  BY Zenon DEF Typed, TypeOK, NoOp
<1>2. CASE op'[t] = op[t]
  BY <1>2, Zenon DEF Walks, Sweeper
<1>3. CASE op'[t] = NoOp
  BY <1>1, <1>3, Zenon DEF Sweeper
<1>4. CASE \/ LoadStart(t) \/ LoadStat(t) \/ LoadOpen(t) \/ LoadRemove(t) \/ LoadReturn(t)
           \/ StoreStart(t) \/ StoreWrite(t) \/ StoreFlush(t) \/ StoreRename(t)
  BY <1>4, QuietStep, Zenon
<1>5. CASE StoreAccount(t)
  <2>1. op' = [op EXCEPT ![t] = Begun(t)]
    BY <1>1, <1>5, AccountCases, Zenon DEF Done, Sweeper
  <2> QED BY <1>1, <2>1, Zenon DEF Begun, NoOp
<1>6. CASE WalkOne(t)
  <2>1. t \in Sweeper
    BY <1>6, SweepStep, Zenon
  <2>2. PICK p \in op[t].todo, o \in Op :
          /\ op' = [op EXCEPT ![t] = o]
          /\ o.pc = "walk" /\ o.todo = op[t].todo \ {p} /\ o.cut = op[t].cut
          /\ \/ o.entries = op[t].entries \cup {<<p, files[op[t].root][p]>>}
             \/ o.entries = op[t].entries
    BY <1>6, WalkOneCases
  <2>3. op[t].pc = "walk"
    BY <1>6, Zenon DEF WalkOne
  <2> QED BY <1>1, <2>1, <2>2, <2>3 DEF Walks
<1>7. CASE TrimOne(t)
  <2>1. t \in Sweeper
    BY <1>7, SweepStep, Zenon
  <2>2. PICK e \in op[t].entries, o \in Op :
          /\ op' = [op EXCEPT ![t] = o]
          /\ o.pc = "trim" /\ o.todo = op[t].todo /\ o.cut = op[t].cut
          /\ o.entries = op[t].entries \ {e}
    BY <1>7, TrimOneCases, Zenon
  <2>3. op[t].pc = "trim"
    BY <1>7, Zenon DEF TrimOne
  <2> QED BY <1>1, <2>1, <2>2, <2>3, Zenon DEF Walks
<1>8. CASE WalkEnd(t)
  <2>1. t \in Sweeper
    BY <1>8, SweepStep
  <2>2. /\ op'[t].entries = op[t].entries /\ op'[t].todo = op[t].todo
        /\ op'[t].pc # "walk" /\ op'[t].cut = (op[t].todo # {})
    BY <1>1, <1>8, Zenon DEF WalkEnd, Op
  <2> QED BY <2>1, <2>2, Zenon DEF Walks
<1>9. CASE TrimEnd(t)
  <2>1. t \in Sweeper
    BY <1>9, SweepStep, Zenon
  <2>2. /\ op'[t].entries = op[t].entries /\ op'[t].todo = op[t].todo
        /\ op'[t].pc = "swept" /\ op'[t].cut = op[t].cut /\ op[t].pc = "trim"
    BY <1>1, <1>9 DEF TrimEnd, Goes, Op
  <2> QED BY <2>1, <2>2, Zenon DEF Walks
<1>10. CASE SweepEnd(t)
  BY <1>1, <1>10, Zenon DEF SweepEnd, Done, Sweeper
<1> QED BY <1>2, <1>3, <1>4, <1>5, <1>6, <1>7, <1>8, <1>9, <1>10, OpStep, Zenon DEF Step

\* A thread publishes.
Publishes(t) == StoreRename(t) /\ Goes(t, "account")

\* What this process's entries occupy grows at the path a rename publishes to,
\* by no more than what was written, and nowhere else.
LEMMA WeightStep ==
  ASSUME Typed, Temps, [Next]_diskVars, NEW r \in Root, NEW p \in Path,
         ~(Weight(r)'[p] <= Weight(r)[p])
  PROVE  \E t \in Thread :
           Publishes(t) /\ p = EntryPath(op[t].key) /\ Weight(r)'[p] = op[t].len
<1>1. /\ Weight(r)[p] = IF p[1] = "entry" /\ files[r][p].by # {} THEN files[r][p].len ELSE 0
      /\ Weight(r)'[p] = IF p[1] = "entry" /\ files'[r][p].by # {} THEN files'[r][p].len ELSE 0
  BY Zenon DEF Weight
<1>2. files[r][p].len \in Nat
  BY Zenon DEF Typed, TypeOK, File
<1>3. CASE files'[r][p] = files[r][p]
  BY <1>1, <1>2, <1>3
<1>4. CASE files'[r][p] = NoFile
  BY <1>1, <1>2, <1>4 DEF NoFile
<1>5. CASE Foreign(r, p)
  BY <1>1, <1>2, <1>5 DEF Foreign
<1>6. ASSUME NEW t \in Thread, p = TempPath(t)
      PROVE  FALSE
  BY <1>1, <1>6, Paths
<1>7. ASSUME NEW t \in Thread, RenamedTo(t, r, p)
      PROVE  Publishes(t) /\ p = EntryPath(op[t].key) /\ Weight(r)'[p] = op[t].len
  <2>1. /\ files'[r][p].len = op[t].len /\ files'[r][p].by # {}
        /\ Publishes(t) /\ p = EntryPath(op[t].key) /\ op[t].key \in EntryKey
    BY <1>7, Zenon DEF RenamedTo, StoreRename, Temps, Publishes, Typed, Placed, Storing
  <2> QED BY <1>1, <2>1, Paths, Zenon
<1> QED BY <1>3, <1>4, <1>5, <1>6, <1>7, FilesStep, Zenon

\* Without a rename nothing grows.
LEMMA WeightShrinks ==
  ASSUME Typed, Temps, [Next]_diskVars, \A t \in Thread : ~Publishes(t),
         NEW r \in Root, NEW p \in Path
  PROVE  Weight(r)'[p] <= Weight(r)[p]
BY WeightStep, Zenon

\* Until it is counted, a write waits: a rename adds what it published to what is
\* pending, and no other step but StoreAccount and a crash changes that.
LEMMA PendingStep ==
  ASSUME Typed, [Next]_diskVars, ~Crash, \A t \in Thread : ~StoreAccount(t)
  PROVE  \/ /\ \A t \in Thread : ~Publishes(t)
            /\ Pending' = Pending
         \/ \E t \in Thread :
              /\ Publishes(t) /\ \A u \in Thread : Publishes(u) => u = t
              /\ Pending' = [Pending EXCEPT ![t] = op[t].len] /\ Pending[t] = 0
<1>1. op \in [Thread -> Op] /\ NoOp.pc = "idle"
  BY Zenon DEF Typed, TypeOK, NoOp
<1>2. ASSUME NEW t \in Thread, Publishes(t)
      PROVE  /\ \A u \in Thread : Publishes(u) => u = t
             /\ Pending' = [Pending EXCEPT ![t] = op[t].len] /\ Pending[t] = 0
  <2>1. \A u \in Thread : Publishes(u) =>
          op[u].pc = "rename" /\ op'[u].pc = "account" /\ op'[u].len = op[u].len
    BY <1>1 DEF Publishes, StoreRename, Goes, Op
  <2>2. \A u \in Thread : u # t => op'[u] = op[u]
    BY <1>2, OthersStand, Zenon DEF Publishes, Step
  <2>3. \A u \in Thread : Publishes(u) => u = t
    BY <2>1, <2>2, Zenon
  <2> QED BY <1>2, <2>1, <2>2, <2>3, Zenon DEF Pending
<1>3. ASSUME \A t \in Thread : ~Publishes(t), NEW t \in Thread, Step(t)
      PROVE  Pending' = Pending
  <2>1. \A u \in Thread : u # t => op'[u] = op[u]
    BY <1>3, OthersStand, Zenon
  <2>2. op[t].pc # "account" /\ op'[t].pc # "account"
    <3>1. CASE \/ LoadStart(t) \/ LoadStat(t) \/ LoadOpen(t) \/ LoadRemove(t) \/ LoadReturn(t)
               \/ StoreStart(t) \/ StoreWrite(t) \/ StoreFlush(t) \/ StoreRename(t)
      BY <1>3, <3>1, QuietStep, Zenon DEF Publishes
    <3>2. CASE WalkOne(t) \/ WalkEnd(t) \/ TrimOne(t) \/ TrimEnd(t)
      BY <3>2, SweepStep, Zenon DEF Sweeper
    <3>3. CASE SweepEnd(t)
      BY <1>1, <3>3, Zenon DEF SweepEnd, Done
    <3> QED BY <1>3, <3>1, <3>2, <3>3, Zenon DEF Step
  <2> QED BY <2>1, <2>2, Zenon DEF Pending
<1>4. ASSUME \/ \E r \in Root \cup {NoRoot} : Configure(r)
             \/ Clear \/ OtherPublish \/ OtherRemove \/ Spoil \/ Finished \/ UNCHANGED diskVars
      PROVE  Pending' = Pending
  BY <1>4, Zenon DEF Configure, Clear, OtherPublish, OtherRemove, Spoil, Outside, Finished, diskVars, Pending
<1> QED BY <1>2, <1>3, <1>4, Zenon DEF Next

\* So what is covered grows by no more than what is pending does.
LEMMA CoverStep ==
  ASSUME Summable, Typed, Summands, Summands', Temps, [Next]_diskVars,
         ~Crash, \A t \in Thread : ~StoreAccount(t),
         NEW r \in Root, NEW o, Scanned(o)
  PROVE  /\ Waiting \in Nat /\ Waiting' \in Nat /\ Occupied(r, o) \in Nat
         /\ Bytes(Weight(r)', o) \in Nat
         /\ Bytes(Weight(r)', o) + Waiting <= Occupied(r, o) + Waiting'
<1>1. PICK v \in [Path -> Nat], w \in [Path -> Nat], a \in [Thread -> Nat], b \in [Thread -> Nat] :
        v = Weight(r)' /\ w = Weight(r) /\ a = Pending /\ b = Pending'
  BY Zenon DEF Summands
<1>2. /\ SumFunctionOnSet(a, Thread) \in Nat /\ SumFunctionOnSet(b, Thread) \in Nat
      /\ Bytes(w, o) \in Nat /\ Bytes(v, o) \in Nat
  BY ThreadSums, CoverTyped, Zenon
<1>3. Bytes(v, o) + SumFunctionOnSet(a, Thread) <= Bytes(w, o) + SumFunctionOnSet(b, Thread)
  <2>1. CASE (\A t \in Thread : ~Publishes(t)) /\ b = a
    <3>1. \A p \in Path : v[p] <= w[p]
      BY <1>1, <2>1, WeightShrinks, Zenon
    <3>2. Bytes(v, o) <= Bytes(w, o)
      BY <3>1, CoverShrinks, Zenon
    <3> QED BY <1>2, <2>1, <3>2
  <2>2. ASSUME NEW t \in Thread, Publishes(t), \A u \in Thread : Publishes(u) => u = t,
               b = [a EXCEPT ![t] = op[t].len], a[t] = 0
        PROVE  Bytes(v, o) + SumFunctionOnSet(a, Thread) <= Bytes(w, o) + SumFunctionOnSet(b, Thread)
    <3>1. PICK q \in Path, n \in Nat : q = EntryPath(op[t].key) /\ n = op[t].len
      BY <2>2, Paths, Zenon DEF Publishes, StoreRename, Typed, TypeOK, Placed, Storing, Op
    <3>2. \A p \in Path : v[p] <= w[p] \/ (p = q /\ v[p] <= n)
      BY <1>1, <2>2, <3>1, WeightStep
    <3>3. Bytes(v, o) <= Bytes(w, o) + n
      BY <3>2, CoverGrows, Zenon
    <3>4. SumFunctionOnSet(b, Thread) = SumFunctionOnSet(a, Thread) - a[t] + b[t]
      <4>1. \A u \in Thread : u # t => b[u] = a[u]
        BY <2>2, Zenon
      <4> QED BY <4>1, ThreadSumMoves, Zenon
    <3>5. a[t] = 0 /\ b[t] = n
      BY <2>2, <3>1, Zenon
    <3> QED BY <1>2, <3>3, <3>4, <3>5
  <2> QED BY <1>1, <2>1, <2>2, PendingStep, Zenon
<1> QED BY <1>1, <1>2, <1>3, Zenon DEF Waiting, Occupied

\* Counting a write moves it from what is pending to what was written since.
LEMMA AccountMoves ==
  ASSUME Summable, Typed, Summands, Summands', NEW t \in Thread, StoreAccount(t)
  PROVE  /\ Waiting \in Nat /\ Waiting' \in Nat /\ op[t].len \in Nat
         /\ Waiting = Waiting' + op[t].len
<1>1. PICK a \in [Thread -> Nat], b \in [Thread -> Nat] : a = Pending /\ b = Pending'
  BY Zenon DEF Summands
<1>2. op[t].pc = "account" /\ op'[t].pc # "account" /\ op[t].len \in Nat
  <2>1. op \in [Thread -> Op] /\ NoOp.pc = "idle" /\ Begun(t).pc = "walk"
    BY Zenon DEF Typed, TypeOK, NoOp, Begun
  <2> QED BY <2>1, AccountCases, Zenon DEF Done
<1>3. /\ \A u \in Thread : u # t => b[u] = a[u]
      /\ a[t] = op[t].len /\ b[t] = 0
  <2>1. \A u \in Thread : u # t => op'[u] = op[u]
    BY OthersStand, Zenon DEF Step
  <2> QED BY <1>1, <1>2, <2>1, Zenon DEF Pending
<1>4. SumFunctionOnSet(b, Thread) = SumFunctionOnSet(a, Thread) - a[t] + b[t]
  BY <1>3, ThreadSumMoves, Zenon
<1>5. SumFunctionOnSet(a, Thread) \in Nat /\ SumFunctionOnSet(b, Thread) \in Nat
  BY ThreadSums, Zenon
<1> QED BY <1>1, <1>2, <1>3, <1>4, <1>5 DEF Waiting

\* A sweep step leaves no more of what is covered out of the total.
LEMMA SweepCovers ==
  ASSUME Summable, Typed, Typed', Summands, Summands', Temps, [Next]_diskVars,
         NEW t \in Sweeper, t \in Sweeper', op'[t].root = op[t].root,
         WalkOne(t) \/ WalkEnd(t) \/ TrimOne(t) \/ TrimEnd(t)
  PROVE  /\ Occupied(op[t].root, op[t]) \in Nat /\ Occupied(op[t].root, op[t])' \in Nat
         /\ Occupied(op[t].root, op[t])' - op'[t].total <= Occupied(op[t].root, op[t]) - op[t].total
<1>1. PICK r \in Root, o \in Op, n \in Op :
        /\ r = op[t].root /\ o = op[t] /\ n = op'[t] /\ Scanned(o) /\ Scanned(n)
        /\ op \in [Thread -> Op] /\ t \in Thread
  BY Zenon DEF Summands, Typed, TypeOK, Sweeper
<1>2. PICK v \in [Path -> Nat], w \in [Path -> Nat] : v = Weight(r)' /\ w = Weight(r)
  BY Zenon DEF Summands
<1>3. \A p \in Path : v[p] <= w[p]
  <2>1. \A u \in Thread : Publishes(u) => op[u].pc = "rename" /\ op'[u].pc = "account"
    BY DEF Publishes, StoreRename, Goes, Typed, TypeOK, Op
  <2>2. \A u \in Thread : u # t => op'[u] = op[u]
    BY <1>1, OthersStand, Zenon DEF Step
  <2>3. op[t].pc # "rename"
    BY Zenon DEF Sweeper
  <2>4. \A u \in Thread : ~Publishes(u)
    BY <2>1, <2>2, <2>3, Zenon
  <2> QED BY <1>2, <2>4, WeightShrinks, Zenon
<1>4. \A p \in Path : files'[r][p] = NoFile => v[p] = 0
  BY <1>2 DEF Weight, NoFile
<1>5. Bytes(v, n) - n.total <= Bytes(w, o) - o.total
  <2>1. CASE WalkOne(t)
    <3>1. PICK p \in o.todo, f \in File :
            /\ p \in Path /\ f = files[r][p] /\ n.todo = o.todo \ {p}
            /\ \/ /\ n.total = o.total + f.len /\ n.entries = o.entries \cup {<<p, f>>}
                  /\ files' = files
               \/ /\ n.total = o.total /\ n.entries = o.entries
                  /\ (f = NoFile /\ files' = files) \/ Put(r, p, NoFile)
      BY <1>1, <2>1, WalkOneCases, SMTT(30)
    <3>2. files' = files => v[p] <= f.len
      BY <1>2, <3>1 DEF Weight, File
    <3>3. (f = NoFile /\ files' = files) \/ Put(r, p, NoFile) => files'[r][p] = NoFile
      BY <3>1 DEF Put, Typed, TypeOK
    <3>4. \/ n.total = o.total + f.len /\ n.entries = o.entries \cup {<<p, f>>} /\ v[p] <= f.len
          \/ n.total = o.total /\ n.entries = o.entries /\ v[p] = 0
      BY <1>4, <3>1, <3>2, <3>3, Zenon
    <3> QED BY <1>1, <1>3, <3>1, <3>4, CoverWalked, Zenon
  <2>2. CASE TrimOne(t)
    <3>1. PICK e \in o.entries :
            /\ e[1] \in Path /\ n.todo = o.todo /\ n.entries = o.entries \ {e}
            /\ \/ n.total = o.total - e[2].len /\ Put(r, e[1], NoFile)
               \/ n.total = o.total /\ files' = files
      BY <1>1, <2>2, TrimOneCases, Zenon
    <3>2. Put(r, e[1], NoFile) => files'[r][e[1]] = NoFile
      BY <3>1 DEF Put, Typed, TypeOK
    <3>3. n.total = o.total \/ (n.total = o.total - e[2].len /\ v[e[1]] = 0)
      BY <1>4, <3>1, <3>2, Zenon
    <3> QED BY <1>1, <1>3, <3>1, <3>3, CoverTrimmed, Zenon
  <2>3. CASE WalkEnd(t) \/ TrimEnd(t)
    <3>1. n.total = o.total /\ n.todo = o.todo /\ n.entries = o.entries
      BY <1>1, <2>3 DEF WalkEnd, TrimEnd, Goes, Op
    <3>2. Bytes(v, n) = Bytes(v, o)
      BY <3>1, Zenon DEF Bytes, Cover
    <3>3. Bytes(v, o) <= Bytes(w, o) /\ Bytes(v, o) \in Nat /\ Bytes(w, o) \in Nat
      BY <1>1, <1>3, CoverShrinks, CoverTyped, Zenon
    <3> QED BY <3>1, <3>2, <3>3 DEF Op
  <2> QED BY <2>1, <2>2, <2>3, Zenon
<1>6. Bytes(v, n) \in Nat /\ Bytes(w, o) \in Nat
  BY <1>1, CoverTyped, Zenon
<1> QED BY <1>1, <1>2, <1>5, <1>6, Zenon DEF Occupied

\* The bound holds on where neither the account nor a sweep moves.
LEMMA CountedQuiet ==
  ASSUME Summable, Typed, Summands, Summands', Temps, Sweeps, Counted, [Next]_diskVars,
         ~Crash, \A t \in Thread : ~StoreAccount(t), store' = store,
         \A u \in Sweeper' : u \in Sweeper /\ op'[u] = op[u]
  PROVE  Counted'
<1>1. PICK b \in Nat, k \in Int : b = store.impl.bytesSinceSweep /\ k = store.impl.knownBytes
  BY Zenon DEF Typed, TypeOK, Impl
<1>2. ASSUME NEW r \in Root, NEW o, Scanned(o), NEW n \in Int, Occupied(r, o) <= n + b + Waiting
      PROVE  Bytes(Weight(r)', o) <= n + b + Waiting'
  <2>1. /\ Waiting \in Nat /\ Waiting' \in Nat /\ Occupied(r, o) \in Nat
        /\ Bytes(Weight(r)', o) \in Nat
        /\ Bytes(Weight(r)', o) + Waiting <= Occupied(r, o) + Waiting'
    BY <1>2, CoverStep, Zenon
  <2> QED BY <1>2, <2>1
<1>3. ASSUME NEW u \in Sweeper', op'[u].epoch = store'.epoch, ~op'[u].cut
      PROVE  Occupied(op[u].root, op[u])' <= op'[u].total + store'.impl.bytesSinceSweep + Waiting'
  <2>1. /\ u \in Sweeper /\ op'[u] = op[u]
        /\ Scanned(op[u]) /\ op[u].root \in Root /\ op[u].total \in Int /\ op[u] \in Op
    BY Zenon DEF Summands, Scanned, Typed, TypeOK, Sweeper
  <2>2. PICK r \in Root, n \in Int, o \in Op :
          o = op[u] /\ r = op[u].root /\ n = op[u].total /\ Scanned(o)
    BY <2>1, Zenon
  <2>3. Occupied(r, o) <= n + b + Waiting
    BY <1>1, <1>3, <2>1, <2>2, Zenon DEF Counted
  <2>4. Bytes(Weight(r)', o) <= n + b + Waiting'
    BY <1>2, <2>2, <2>3, Zenon
  <2> QED BY <1>1, <2>1, <2>2, <2>4, Zenon DEF Occupied
<1>4. ASSUME store'.impl.swept, ~store'.sweeping, ~store'.cut
      PROVE  Occupied(store.impl.root, NoOp)'
               <= store'.impl.knownBytes + store'.impl.bytesSinceSweep + Waiting'
  <2>1. PICK r \in Root : r = store.impl.root
    BY <1>4, Zenon DEF Sweeps
  <2>2. Scanned(NoOp)
    BY DEF Scanned, NoOp
  <2>3. Occupied(r, NoOp) <= k + b + Waiting
    BY <1>1, <1>4, <2>1, Zenon DEF Counted
  <2>4. Bytes(Weight(r)', NoOp) <= k + b + Waiting'
    BY <1>2, <2>2, <2>3, Zenon
  <2> QED BY <1>1, <2>1, <2>4, Zenon DEF Occupied
<1> QED BY <1>3, <1>4, Zenon DEF Counted

\* Nor does the bound move with the steps of a sweep.
LEMMA CountedSweep ==
  ASSUME Summable, Typed, Typed', Walks, Summands, Summands', Temps, Sweeps, Sweeps', Counted,
         [Next]_diskVars, NEW t \in Thread, WalkOne(t) \/ WalkEnd(t) \/ TrimOne(t) \/ TrimEnd(t)
  PROVE  Counted'
<1>1. /\ store' = store /\ store.sweeping /\ t \in Sweeper /\ t \in Sweeper'
      /\ op'[t].epoch = op[t].epoch /\ op'[t].root = op[t].root /\ \A u \in Sweeper' : u = t
  <2>1. /\ store' = store /\ t \in Sweeper /\ t \in Sweeper'
        /\ op'[t].epoch = op[t].epoch /\ op'[t].root = op[t].root
    BY SweepStep, Zenon
  <2> QED BY <2>1, Zenon DEF Sweeps
<1>2. op \in [Thread -> Op] /\ op[t].total \in Int /\ op'[t].total \in Int
  BY Zenon DEF Typed, TypeOK, Op
<1>3. Pending' = Pending /\ Waiting' = Waiting
  <2>1. \A u \in Thread : u # t => op'[u] = op[u]
    BY OthersStand, Zenon DEF Step
  <2>2. op[t].pc # "account" /\ op'[t].pc # "account"
    BY <1>1, Zenon DEF Sweeper
  <2>3. Pending' = Pending
    BY <2>1, <2>2, Zenon DEF Pending
  <2> QED BY <2>3, Zenon DEF Waiting
<1>4. store.impl.bytesSinceSweep \in Nat /\ Waiting \in Nat
  <2>1. store.impl.bytesSinceSweep \in Nat
    BY Zenon DEF Typed, TypeOK, Impl
  <2> QED BY <2>1, ThreadSums, Zenon DEF Summands, Waiting
<1>5. ~op'[t].cut => ~op[t].cut
  <2>1. op[t].cut => op[t].pc # "walk"
    BY <1>1, Zenon DEF Walks
  <2>2. CASE WalkOne(t) \/ WalkEnd(t)
    BY <2>1, <2>2, Zenon DEF WalkOne, WalkEnd
  <2>3. CASE TrimOne(t)
    BY <1>2, <2>3, TrimOneCases, Zenon
  <2>4. CASE TrimEnd(t)
    BY <1>2, <2>4, Zenon DEF TrimEnd, Goes, Op
  <2> QED BY <2>2, <2>3, <2>4, Zenon
<1>6. ASSUME op'[t].epoch = store'.epoch, ~op'[t].cut
      PROVE  Occupied(op[t].root, op[t])' <= op'[t].total + store'.impl.bytesSinceSweep + Waiting'
  <2>1. Occupied(op[t].root, op[t]) <= op[t].total + store.impl.bytesSinceSweep + Waiting
    BY <1>1, <1>5, <1>6, Zenon DEF Counted
  <2>2. /\ Occupied(op[t].root, op[t]) \in Nat /\ Occupied(op[t].root, op[t])' \in Nat
        /\ Occupied(op[t].root, op[t])' - op'[t].total <= Occupied(op[t].root, op[t]) - op[t].total
    BY <1>1, SweepCovers, Zenon
  <2> QED BY <1>1, <1>2, <1>3, <1>4, <2>1, <2>2
<1> QED BY <1>1, <1>6, Zenon DEF Counted

\* A write that is counted stays within the bound; a sweep begins with nothing
\* covered.
LEMMA CountedAccount ==
  ASSUME Summable, Typed, Summands, Summands', Sweeps, Counted, NEW t \in Thread, StoreAccount(t)
  PROVE  Counted'
<1>1. PICK b \in Nat, k \in Int, n \in Nat :
        /\ b = store.impl.bytesSinceSweep /\ k = store.impl.knownBytes /\ n = op[t].len
        /\ Waiting \in Nat /\ Waiting' \in Nat /\ Waiting = Waiting' + n
        /\ store \in [impl : Impl, epoch : Nat, sweeping : BOOLEAN, cut : BOOLEAN]
        /\ op \in [Thread -> Op]
  <2>1. /\ store.impl.bytesSinceSweep \in Nat /\ store.impl.knownBytes \in Int
        /\ store \in [impl : Impl, epoch : Nat, sweeping : BOOLEAN, cut : BOOLEAN]
        /\ op \in [Thread -> Op]
    BY Zenon DEF Typed, TypeOK, Impl
  <2> QED BY <2>1, AccountMoves, Zenon
<1>2. \A r : Weight(r)' = Weight(r)
  BY AccountCases, Zenon DEF Weight
<1>3. CASE /\ MayBegin
           /\ store' = [store EXCEPT
                !.impl = [Accounted(t) EXCEPT !.swept = TRUE, !.bytesSinceSweep = 0],
                !.sweeping = TRUE]
           /\ Begun(t) \in Op
           /\ op' = [op EXCEPT ![t] = Begun(t)]
  <2>1. store'.sweeping /\ store'.impl.bytesSinceSweep = 0
    BY <1>1, <1>3, AccountCases, Zenon DEF Impl
  <2>2. op'[t] = Begun(t) /\ op'[t].todo = Path /\ op'[t].total = 0 /\ op'[t].pc = "walk"
    BY <1>1, <1>3, Zenon DEF Begun, NoOp
  <2>3. \A u \in Sweeper' : u = t
    BY <1>1, <1>3, Zenon DEF Sweeps, Sweeper, MayBegin
  <2>4. \A w : Bytes(w, op'[t]) = 0
    BY <2>2, CoverOfNone, Zenon
  <2>5. Occupied(op[t].root, op[t])' <= op'[t].total + store'.impl.bytesSinceSweep + Waiting'
    BY <1>1, <2>1, <2>2, <2>4 DEF Occupied
  <2> QED BY <2>1, <2>3, <2>5, Zenon DEF Counted
<1>4. CASE store' = [store EXCEPT !.impl = Accounted(t)] /\ Done(t)
  <2>1. /\ store'.impl.bytesSinceSweep = b + n /\ store'.impl.knownBytes = k
        /\ store'.impl.swept = store.impl.swept /\ store'.impl.root = store.impl.root
        /\ store'.epoch = store.epoch /\ store'.sweeping = store.sweeping /\ store'.cut = store.cut
    BY <1>1, <1>4, AccountCases, Zenon
  <2>2. \A u \in Sweeper' : u \in Sweeper /\ op'[u] = op[u]
    BY <1>1, <1>4, Zenon DEF Done, NoOp, Sweeper
  <2>3. \A m \in Int : m + (b + n) + Waiting' = m + b + Waiting
    BY <1>1
  <2>4. ASSUME NEW u \in Sweeper', op'[u].epoch = store'.epoch, ~op'[u].cut
        PROVE  Occupied(op[u].root, op[u])' <= op'[u].total + store'.impl.bytesSinceSweep + Waiting'
    <3>1. op[u].total \in Int
      BY <2>2, Zenon DEF Summands, Scanned
    <3>2. Occupied(op[u].root, op[u]) <= op[u].total + b + Waiting
      BY <1>1, <2>1, <2>2, <2>4, Zenon DEF Counted
    <3>3. Occupied(op[u].root, op[u])' = Occupied(op[u].root, op[u])
      BY <1>2, <2>2, Zenon DEF Occupied
    <3> QED BY <2>1, <2>2, <2>3, <3>1, <3>2, <3>3, Zenon
  <2>5. ASSUME store'.impl.swept, ~store'.sweeping, ~store'.cut
        PROVE  Occupied(store.impl.root, NoOp)'
                 <= store'.impl.knownBytes + store'.impl.bytesSinceSweep + Waiting'
    <3>1. Occupied(store.impl.root, NoOp) <= k + b + Waiting
      BY <1>1, <2>1, <2>5, Zenon DEF Counted
    <3>2. Occupied(store.impl.root, NoOp)' = Occupied(store.impl.root, NoOp)
      BY <1>2, <2>1, Zenon DEF Occupied
    <3> QED BY <2>1, <2>3, <3>1, <3>2, Zenon
  <2> QED BY <2>4, <2>5, Zenon DEF Counted
<1> QED BY <1>3, <1>4, AccountCases, Zenon

\* The total that a whole sweep ends with covers what is there.
LEMMA CountedEnd ==
  ASSUME Summable, Typed, Walks, Summands, Sweeps, Counted, NEW t \in Thread, SweepEnd(t)
  PROVE  Counted'
<1>1. /\ op[t].pc = "swept" /\ t \in Sweeper /\ store.sweeping /\ files' = files
      /\ op \in [Thread -> Op]
      /\ store \in [impl : Impl, epoch : Nat, sweeping : BOOLEAN, cut : BOOLEAN]
      /\ \A u \in Sweeper : u = t
  BY Zenon DEF SweepEnd, Sweeps, Sweeper, Typed, TypeOK
<1>2. op'[t].pc = "idle" /\ \A u \in Thread : u # t => op'[u] = op[u]
  BY <1>1, Zenon DEF SweepEnd, Done, NoOp
<1>3. \A u \in Sweeper' : FALSE
  BY <1>1, <1>2, Zenon DEF Sweeper
<1>4. Pending' = Pending /\ \A r : Weight(r)' = Weight(r)
  BY <1>1, <1>2, Zenon DEF Pending, Weight
<1>5. /\ store'.impl.swept = store.impl.swept /\ store'.impl.root = store.impl.root
      /\ store'.impl.bytesSinceSweep = store.impl.bytesSinceSweep
      /\ op[t].epoch = store.epoch => store'.impl.knownBytes = op[t].total /\ store'.cut = op[t].cut
  BY <1>1, Zenon DEF SweepEnd, Impl
<1>6. ASSUME store'.impl.swept, ~store'.sweeping, ~store'.cut
      PROVE  Occupied(store.impl.root, NoOp)'
               <= store'.impl.knownBytes + store'.impl.bytesSinceSweep + Waiting'
  <2>1. op[t].epoch = store.epoch /\ op[t].root = store.impl.root /\ op[t].root \in Root
    BY <1>1, <1>5, <1>6, Zenon DEF Sweeps
  <2>2. ~op[t].cut /\ op[t].todo = {}
    BY <1>1, <1>5, <1>6, <2>1, Zenon DEF Walks
  <2>3. PICK o \in Op, r \in Root, w \in [Path -> Nat] :
          o = op[t] /\ r = op[t].root /\ w = Weight(r) /\ Scanned(o) /\ o.todo = {}
    BY <1>1, <2>1, <2>2, Zenon DEF Summands
  <2>4. Bytes(w, NoOp) \in Nat /\ Bytes(w, o) \in Nat /\ Bytes(w, NoOp) <= Bytes(w, o)
    BY <2>3, CoverOfAll, Zenon
  <2>5. Bytes(w, o) <= op[t].total + store.impl.bytesSinceSweep + Waiting
    BY <1>1, <2>1, <2>2, <2>3, Zenon DEF Counted, Occupied
  <2>6. op[t].total \in Int /\ store.impl.bytesSinceSweep \in Nat
    BY <1>1, Zenon DEF Op, Impl
  <2>7. Waiting \in Nat
    BY ThreadSums, Zenon DEF Summands, Waiting
  <2>8. Bytes(w, NoOp) <= op[t].total + store.impl.bytesSinceSweep + Waiting
    BY <2>4, <2>5, <2>6, <2>7
  <2>9. Waiting' = Waiting /\ Occupied(store.impl.root, NoOp)' = Bytes(w, NoOp)
    BY <1>4, <1>5, <2>1, <2>3, Zenon DEF Waiting, Occupied
  <2> QED BY <1>5, <2>1, <2>8, <2>9, Zenon
<1> QED BY <1>3, <1>6, Zenon DEF Counted

\* Every step keeps Counted.
LEMMA CountedNext ==
  ASSUME Summable, Typed, Temps, Sweeps, Walks, Counted, [Next]_diskVars
  PROVE  Counted'
<1>1. Typed' /\ Sweeps' /\ Walks' /\ Summands /\ Summands'
  BY TypedNext, SweepsNext, WalksNext, SummandTypes, SummandTypesAfter, Zenon
<1>2. ASSUME NEW t \in Thread, StoreAccount(t)
      PROVE  Counted'
  BY <1>1, <1>2, CountedAccount, Zenon
<1>3. ASSUME NEW t \in Thread, WalkOne(t) \/ WalkEnd(t) \/ TrimOne(t) \/ TrimEnd(t)
      PROVE  Counted'
  BY <1>1, <1>3, CountedSweep, Zenon
<1>4. ASSUME NEW t \in Thread, SweepEnd(t)
      PROVE  Counted'
  BY <1>1, <1>4, CountedEnd, Zenon
<1>5. CASE Crash
  BY <1>5, Zenon DEF Crash, Counted, Sweeper, NoOp, Off
<1>6. ASSUME Clear \/ \E r \in Root \cup {NoRoot} : Configure(r)
      PROVE  Counted'
  <2>1. op' = op /\ store'.epoch = store.epoch + 1 /\ ~store'.impl.swept
    <3>1. Off \in Impl /\ ~Off.swept /\ store \in [impl : Impl, epoch : Nat, sweeping : BOOLEAN, cut : BOOLEAN]
      BY Records, Zenon DEF Off, Typed, TypeOK
    <3>2. CASE Clear
      BY <3>1, <3>2, Zenon DEF Clear, Impl
    <3>3. ASSUME NEW r \in Root \cup {NoRoot}, Configure(r)
          PROVE  op' = op /\ store'.epoch = store.epoch + 1 /\ ~store'.impl.swept
      BY <3>1, <3>3, Zenon DEF Configure, Impl
    <3> QED BY <1>6, <3>2, <3>3, Zenon
  <2>2. \A u \in Sweeper' : op'[u].epoch # store'.epoch
    BY <2>1 DEF Sweeper, Sweeps, Typed, TypeOK, Op
  <2> QED BY <2>1, <2>2, Zenon DEF Counted
<1>7. ASSUME ~Crash, \A t \in Thread : ~StoreAccount(t),
             \/ OtherPublish \/ OtherRemove \/ Spoil \/ UNCHANGED diskVars
             \/ \E t \in Thread :
                  \/ LoadStart(t) \/ LoadStat(t) \/ LoadOpen(t) \/ LoadRemove(t) \/ LoadReturn(t)
                  \/ StoreStart(t) \/ StoreWrite(t) \/ StoreFlush(t) \/ StoreRename(t)
      PROVE  Counted'
  <2>1. store' = store /\ \A u \in Sweeper' : u \in Sweeper /\ op'[u] = op[u]
    <3>1. CASE OtherPublish \/ OtherRemove \/ Spoil \/ UNCHANGED diskVars
      BY <3>1, Zenon DEF OtherPublish, OtherRemove, Spoil, Outside, diskVars, Sweeper
    <3>2. ASSUME NEW t \in Thread,
                 \/ LoadStart(t) \/ LoadStat(t) \/ LoadOpen(t) \/ LoadRemove(t) \/ LoadReturn(t)
                 \/ StoreStart(t) \/ StoreWrite(t) \/ StoreFlush(t) \/ StoreRename(t)
          PROVE  store' = store /\ \A u \in Sweeper' : u \in Sweeper /\ op'[u] = op[u]
      <4>1. store' = store /\ t \notin Sweeper'
        BY <3>2, QuietStep, Zenon
      <4>2. \A u \in Thread : u # t => op'[u] = op[u]
        BY <3>2, OthersStand, Zenon DEF Step
      <4> QED BY <4>1, <4>2, Zenon DEF Sweeper
    <3> QED BY <1>7, <3>1, <3>2, Zenon
  <2> QED BY <1>1, <1>7, <2>1, CountedQuiet, Zenon
<1> QED BY <1>2, <1>3, <1>4, <1>5, <1>6, <1>7, Zenon DEF Next, Step, Finished

\* Once nothing is pending the bound is on what is known and was written since.
LEMMA CountedReported == Summable /\ Typed /\ Walks /\ Sweeps /\ Counted => NeverUnderReported
<1> SUFFICES ASSUME Summable, Typed, Walks, Sweeps, Counted, store.impl.swept, ~store.sweeping, ~store.cut,
                    \A t \in Thread : op[t].pc # "account"
             PROVE  LET ours == {p \in Path : p[1] = "entry" /\ files[store.impl.root][p].by # {}}
                    IN  SumFunction([p \in ours |-> files[store.impl.root][p].len])
                          <= store.impl.knownBytes + store.impl.bytesSinceSweep
  BY Zenon DEF NeverUnderReported
<1>1. PICK r \in Root : r = store.impl.root
  BY Zenon DEF Sweeps
<1> DEFINE ours == {p \in Path : p[1] = "entry" /\ files[r][p].by # {}}
           f == [p \in ours |-> files[r][p].len]
<1>2. PICK w \in [Path -> Nat] :
        /\ w = Weight(r)
        /\ \A p \in ours : w[p] = f[p]
        /\ \A p \in Path \ ours : w[p] = 0
  BY SummandTypes, Zenon DEF Summands, Weight
<1>3. DOMAIN f = ours /\ ours \in SUBSET Path
  BY Zenon
<1>4. SumFunctionOnSet(w, Path) = SumFunctionOnSet(f, ours)
  <2> HIDE DEF f, ours
  <2>1. \A p \in ours : f[p] \in Int
    BY <1>2, <1>3
  <2> QED BY <1>2, <1>3, <2>1 DEF Summable, SumLaws, SumsExtend
<1>5. Waiting = 0
  <2>1. \A t \in Thread : Pending[t] = 0
    BY Zenon DEF Pending
  <2> QED BY <2>1, Zenon DEF Waiting, Summable, SumLaws, SumsVanish
<1>6. Bytes(w, NoOp) <= store.impl.knownBytes + store.impl.bytesSinceSweep + 0
  BY <1>1, <1>2, <1>5, Zenon DEF Counted, Occupied
<1>7. Bytes(w, NoOp) = SumFunctionOnSet(w, Path)
  BY CoverOfNoWalk, Zenon DEF Bytes
<1>8. store.impl.knownBytes \in Int /\ store.impl.bytesSinceSweep \in Int
  BY DEF Typed, TypeOK, Impl
<1>9. SumFunctionOnSet(f, ours) <= store.impl.knownBytes + store.impl.bytesSinceSweep
  <2> HIDE DEF f, ours
  <2> QED BY <1>4, <1>6, <1>7, <1>8
<1> QED BY <1>1, <1>3, <1>9, Zenon DEF SumFunction

-------------------------------------------------------------------------------
\* The inductive invariant of the store.
IInv ==
  /\ Typed /\ Temps /\ PublishedWhole
  /\ Unrepeated /\ Sized /\ LoadIsFaithful
  /\ Sweeps /\ Walks /\ Counted

\* It holds when the process starts.
LEMMA IInvInit == Init => IInv
<1> SUFFICES ASSUME Init
             PROVE  IInv
  BY Zenon
<1>1. Typed
  BY TypedInit, Zenon
<1>2. \A t \in Thread : op[t].pc = "idle"
  BY Zenon DEF Init, NoOp
<1>3. Sweeper = {} /\ Temps /\ Sized /\ LoadIsFaithful /\ Walks
  BY <1>2, Zenon DEF Sweeper, Temps, Sized, LoadIsFaithful, Walks
<1>4. PublishedWhole /\ Unrepeated
  <2>1. \A r \in Root, k \in EntryKey : files[r][EntryPath(k)] = NoFile
    BY Paths, Zenon DEF Init, Empty
  <2>2. \A r \in Root, p \in Path : files[r][p].state = "none"
    BY Zenon DEF Init, Empty, NoFile
  <2>3. Unrepeated
    BY <1>2, <2>2, Zenon DEF Unrepeated, Dated
  <2> QED BY <2>1, <2>3 DEF PublishedWhole, NoFile
<1>5. Sweeps /\ Counted
  BY <1>3, Zenon DEF Sweeps, Counted, Init, Off, Sweeper
<1> QED BY <1>1, <1>3, <1>4, <1>5, Zenon DEF IInv

-------------------------------------------------------------------------------
INSTANCE DataTheorems

\* With at most one sweep, the flag is its number.
LEMMA SweepsCounted == Sweeps => SweepingIsHeld
<1> SUFFICES ASSUME Sweeps PROVE Cardinality(Sweeper) = IF store.sweeping THEN 1 ELSE 0
  BY Zenon DEF SweepingIsHeld
<1>1. CASE store.sweeping
  <2>1. \E t : Sweeper = {t}
    BY <1>1 DEF Sweeps
  <2> QED BY <1>1, <2>1, FS_Singleton
<1>2. CASE ~store.sweeping
  <2>1. Sweeper = {}
    BY <1>2 DEF Sweeps, Sweeper
  <2> QED BY <1>2, <2>1, FS_EmptySet, Zenon
<1> QED BY <1>1, <1>2, Zenon

\* There are finitely many paths.
LEMMA FinitePaths == IsFiniteSet(Path) /\ IsFiniteSet(Thread)
<1> DEFINE Names == {NameOf(k) : k \in EntryKey}
           E == {<<"entry", n>> : n \in Names}
           T == {<<"temp", t>> : t \in Thread}
<1>1. IsFiniteSet(Names) /\ IsFiniteSet(Thread)
  BY DiskAssumption
<1>2. IsFiniteSet(E)
  <2> DEFINE f == [n \in Names |-> <<"entry", n>>]
  <2>1. f \in Surjection(Names, E)
    <3> HIDE DEF Names
    <3> QED BY Zenon DEF Surjection
  <2> HIDE DEF f, Names, E
  <2> QED BY <1>1, <2>1, FS_Surjection, Zenon
<1>3. IsFiniteSet(T)
  <2> DEFINE f == [t \in Thread |-> <<"temp", t>>]
  <2>1. f \in Surjection(Thread, T)
    BY Zenon DEF Surjection
  <2> HIDE DEF f, T
  <2> QED BY <1>1, <2>1, FS_Surjection, Zenon
<1>4. Path = E \cup T
  BY Zenon DEF Path
<1> HIDE DEF E, T
<1> QED BY <1>1, <1>2, <1>3, <1>4, FS_Union, Zenon

\* So the sums obey their laws.
LEMMA PathsSum == Summable
BY FinitePaths, SumsObey DEF Summable

\* And it is always so.
LEMMA Inductive == Spec => []IInv
<1>1. IInv /\ [Next]_diskVars => IInv'
  BY TypedNext, TempsNext, WholeNext, UnrepeatedNext, SizedNext, FaithfulNext,
     SweepsNext, WalksNext, CountedNext, PathsSum DEF IInv
<1> QED BY <1>1, IInvInit, PTL DEF Spec

\* A hit has the bytes that were asked for, and a Load deletes no intact entry
\* that it took the size of, whatever shares its name, is renamed over it or is
\* deleted between the size, the bytes and the removal (ReadWholeFile,
\* DecodeEntry, Load), for any number of threads and of other processes.
THEOREM LoadsAreFaithful == Spec => []LoadIsFaithful
BY Inductive, PTL DEF IInv

\* No entry is ever a partly written one: what is renamed was flushed, and is
\* still the file that was written (Store).
THEOREM EntriesAreWhole == Spec => []PublishedWhole
BY Inductive, PTL DEF IInv

\* At most one thread sweeps, exactly while the flag is up (BeginSweepLocked,
\* RunSweep), across crashes and reconfigurations.
THEOREM OneSweep == Spec => []SweepingIsHeld
<1>1. IInv => SweepingIsHeld
  BY SweepsCounted DEF IInv
<1> QED BY <1>1, Inductive, PTL

\* A count is never adopted for a directory it was not taken of.
THEOREM CountsOfTheirDirectory == Spec => []CountIsOfThisDirectory
<1>1. IInv => CountIsOfThisDirectory
  BY DEF IInv, Sweeps, CountIsOfThisDirectory
<1> QED BY <1>1, Inductive, PTL

\* What the store reports as resident is never less than what its own writes
\* occupy, for any number of threads that write while one walks and trims.
THEOREM ReportsEnough == Spec => []NeverUnderReported
<1>1. IInv => NeverUnderReported
  BY CountedReported, PathsSum DEF IInv
<1> QED BY <1>1, Inductive, PTL
===============================================================================

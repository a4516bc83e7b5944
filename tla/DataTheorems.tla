----------------------------- MODULE DataTheorems -----------------------------
(***************************************************************************)
(* What the data of the models does, for every input.                      *)
(*                                                                         *)
(* SumFunctionOnSet, the fold the counters of the models are compared      *)
(* with, is a recursive function on the subsets of a finite set; what      *)
(* holds for every subset is shown by the least one it would fail for.     *)
(*                                                                         *)
(* PlanRuns, for every set of blocks and every policy: its requests ascend *)
(* without touching, each starts and ends on a block asked for and is the  *)
(* bytes of its blocks, every block asked for is in one, and no way        *)
(* to cut the blocks that obeys the policy has fewer.  Ascending is the    *)
(* ranking of the set, and PlanRuns a recursive function on the places of  *)
(* the ascending sequence; what holds at every place is shown by the first *)
(* place it would fail at.                                                 *)
(*                                                                         *)
(* ResolveReadRange and CoveringBlocks, for every read: the blocks of a    *)
(* range hold each of its bytes once.                                      *)
(***************************************************************************)
EXTENDS DataLaws, PlanLaws, FiniteSetTheorems, TLAPS

\* The element the fold takes from a set.
Pick(s) == CHOOSE x \in s : TRUE

\* iter is the recursion of the fold on the subsets of S.
IsSum(iter, f, S) ==
  iter = [s \in SUBSET S |-> IF s = {} THEN 0 ELSE f[Pick(s)] + iter[s \ {Pick(s)}]]

\* Unfolded, the fold of SumFunctionOnSet is the recursion IsSum describes.
LEMMA SumUnfold ==
  ASSUME NEW f, NEW S
  PROVE  SumFunctionOnSet(f, S) = (CHOOSE iter : IsSum(iter, f, S))[S]
BY Zenon DEF SumFunctionOnSet, FoldFunctionOnSet, MapThenFoldSet, IsSum, Pick

\* A set of subsets of a finite set has a least one: induction over finite sets,
\* by contradiction.
LEMMA LeastSubset ==
  ASSUME NEW S, IsFiniteSet(S), NEW Bad \in SUBSET (SUBSET S), Bad # {}
  PROVE  \E s \in Bad : \A u \in SUBSET s : u # s => u \notin Bad
<1>1. IsWellFoundedOn(StrictSubsetOrdering(S), SUBSET S)
  BY FS_StrictSubsetOrderingWellFounded, FS_FiniteSubsetsOfFinite, Zenon
<1>2. PICK s \in Bad : \A u \in Bad : <<u, s>> \notin StrictSubsetOrdering(S)
  BY <1>1, WFMin, Zenon
<1>3. ASSUME NEW u \in SUBSET s, u # s PROVE u \notin Bad
  <2>1. u \in SUBSET S /\ s \in SUBSET S
    BY <1>3, Zenon
  <2>2. <<u, s>> \in StrictSubsetOrdering(S)
    BY <1>3, <2>1, Zenon DEF StrictSubsetOrdering
  <2> QED BY <1>2, <2>2, Zenon
<1> QED BY <1>2, <1>3, Zenon

\* The element the fold takes from a set is in it, and leaves a smaller set.
LEMMA PickInSet ==
  ASSUME NEW s, s # {}
  PROVE  Pick(s) \in s /\ s \ {Pick(s)} \in SUBSET s /\ s \ {Pick(s)} # s
<1>1. Pick(s) \in s
  BY Zenon DEF Pick
<1> QED BY <1>1, Zenon

\* At most one function satisfies the recursion.
LEMMA SumUnique ==
  ASSUME NEW f, NEW S, IsFiniteSet(S), NEW g, NEW h, IsSum(g, f, S), IsSum(h, f, S)
  PROVE  g = h
<1> DEFINE Bad == {s \in SUBSET S : g[s] # h[s]}
<1>1. Bad = {}
  <2>1. SUFFICES ASSUME Bad # {} PROVE FALSE
    BY Zenon
  <2>2. PICK s \in Bad : \A u \in SUBSET s : u # s => u \notin Bad
    <3> HIDE DEF Bad
    <3>1. Bad \in SUBSET (SUBSET S)
      BY Zenon DEF Bad
    <3> QED BY <2>1, <3>1, LeastSubset, Zenon
  <2>3. s # {}
    BY <2>2, Zenon DEF IsSum
  <2>4. s \ {Pick(s)} \notin Bad /\ s \ {Pick(s)} \in SUBSET S
    BY <2>2, <2>3, PickInSet, Zenon
  <2>5. g[s \ {Pick(s)}] = h[s \ {Pick(s)}]
    BY <2>4, Zenon
  <2>6. /\ g[s] = f[Pick(s)] + g[s \ {Pick(s)}]
        /\ h[s] = f[Pick(s)] + h[s \ {Pick(s)}]
    BY <2>2, <2>3, Zenon DEF IsSum
  <2> QED BY <2>2, <2>5, <2>6, Zenon
<1>2. \A s \in SUBSET S : g[s] = h[s]
  BY <1>1, Zenon
<1> QED BY <1>2, Zenon DEF IsSum

\* The recursion restricted to the subsets of a subset is the recursion there.
LEMMA SumRestrict ==
  ASSUME NEW f, NEW S, NEW h, IsSum(h, f, S), NEW V \in SUBSET S
  PROVE  IsSum([s \in SUBSET V |-> h[s]], f, V)
<1> DEFINE r == [s \in SUBSET V |-> h[s]]
           Step(s) == IF s = {} THEN 0 ELSE f[Pick(s)] + r[s \ {Pick(s)}]
<1>1. ASSUME NEW s \in SUBSET V PROVE r[s] = Step(s)
  <2>1. s \in SUBSET S /\ r[s] = h[s]
    BY Zenon
  <2>2. h[s] = IF s = {} THEN 0 ELSE f[Pick(s)] + h[s \ {Pick(s)}]
    BY <2>1, Zenon DEF IsSum
  <2>3. s \ {Pick(s)} \in SUBSET V
    BY Zenon
  <2>4. r[s \ {Pick(s)}] = h[s \ {Pick(s)}]
    BY <2>3, Zenon
  <2> QED BY <2>1, <2>2, <2>4, Zenon
<1>2. r = [s \in SUBSET V |-> Step(s)]
  BY <1>1, Zenon
<1> QED BY <1>2, Zenon DEF IsSum

\* The recursion has a solution on every finite set.
LEMMA SumExists ==
  ASSUME NEW f, NEW S, IsFiniteSet(S)
  PROVE  \E iter : IsSum(iter, f, S)
<1> DEFINE Bad == {s \in SUBSET S : ~\E iter : IsSum(iter, f, s)}
<1>1. SUFFICES ASSUME Bad # {} PROVE FALSE
  BY Zenon
<1>2. PICK T \in Bad : \A u \in SUBSET T : u # T => u \notin Bad
  <2> HIDE DEF Bad
  <2>1. Bad \in SUBSET (SUBSET S)
    BY Zenon DEF Bad
  <2> QED BY <1>1, <2>1, LeastSubset, Zenon
<1> DEFINE H(u) == CHOOSE iter : IsSum(iter, f, u)
           g == [s \in SUBSET T |-> IF s = {} THEN 0
                                    ELSE f[Pick(s)] + H(s \ {Pick(s)})[s \ {Pick(s)}]]
<1>3. \A u \in SUBSET T : u # T => IsSum(H(u), f, u)
  <2>1. \A u \in SUBSET T : u # T => \E iter : IsSum(iter, f, u)
    BY <1>2, Zenon
  <2> QED BY <2>1, Zenon
<1>4. ASSUME NEW u \in SUBSET T, u # T PROVE g[u] = H(u)[u]
  <2>1. IsSum(H(u), f, u)
    BY <1>3, <1>4, Zenon
  <2> DEFINE v == u \ {Pick(u)}
  <2> HIDE DEF H
  <2>2. CASE u = {}
    <3>1. g[u] = 0
      BY <2>2, Zenon
    <3>2. H(u)[u] = 0
      BY <2>1, <2>2, Zenon DEF IsSum
    <3> QED BY <3>1, <3>2, Zenon
  <2>3. CASE u # {}
    <3>1. v \in SUBSET u /\ v \in SUBSET T /\ v # T /\ IsFiniteSet(v)
      <4>1. v \in SUBSET u /\ v \in SUBSET T /\ v # T
        BY <2>3, PickInSet, Zenon
      <4>2. v \in SUBSET S
        BY <4>1, <1>2, Zenon
      <4> QED BY <4>1, <4>2, FS_Subset, Zenon
    <3>2. IsSum(H(v), f, v)
      BY <3>1, <1>3, Zenon
    <3>3. IsSum([s \in SUBSET v |-> H(u)[s]], f, v)
      BY <3>1, <2>1, SumRestrict, Zenon
    <3>4. [s \in SUBSET v |-> H(u)[s]] = H(v)
      <4> HIDE DEF v
      <4> QED BY <3>1, <3>2, <3>3, SumUnique, Zenon
    <3>5. H(u)[v] = H(v)[v]
      <4>1. [s \in SUBSET v |-> H(u)[s]][v] = H(u)[v]
        BY Zenon
      <4> QED BY <4>1, <3>4, Zenon
    <3>6. H(u)[u] = f[Pick(u)] + H(u)[v]
      BY <2>1, <2>3, Zenon DEF IsSum
    <3>7. g[u] = f[Pick(u)] + H(v)[v]
      BY <2>3, Zenon
    <3> QED BY <3>5, <3>6, <3>7, Zenon
  <2> QED BY <2>2, <2>3, Zenon
<1>5. IsSum(g, f, T)
  <2> DEFINE Step(s) == IF s = {} THEN 0 ELSE f[Pick(s)] + g[s \ {Pick(s)}]
  <2>1. ASSUME NEW s \in SUBSET T PROVE g[s] = Step(s)
    <3>1. CASE s = {}
      BY <3>1, Zenon
    <3>2. CASE s # {}
      <4>1. s \ {Pick(s)} \in SUBSET T /\ s \ {Pick(s)} # T
        BY <3>2, PickInSet, Zenon
      <4>2. g[s \ {Pick(s)}] = H(s \ {Pick(s)})[s \ {Pick(s)}]
        BY <4>1, <1>4, Zenon
      <4>3. g[s] = f[Pick(s)] + H(s \ {Pick(s)})[s \ {Pick(s)}]
        <5> HIDE DEF H
        <5> QED BY <3>2, Zenon
      <4> HIDE DEF g, H
      <4> QED BY <3>2, <4>2, <4>3, Zenon
    <3> QED BY <3>1, <3>2, Zenon
  <2>2. g = [s \in SUBSET T |-> Step(s)]
    <3>1. \A s \in SUBSET T : g[s] = Step(s)
      BY <2>1, Zenon
    <3>2. g = [s \in SUBSET T |-> g[s]]
      OBVIOUS
    <3> HIDE DEF g
    <3> QED BY <3>1, <3>2, Zenon
  <2> HIDE DEF g
  <2> QED BY <2>2, Zenon DEF IsSum
<1> QED BY <1>2, <1>5, Zenon

\* A sum is the element the fold takes first and the sum of the others.
LEMMA SumStep ==
  ASSUME NEW f, NEW S, IsFiniteSet(S)
  PROVE  SumFunctionOnSet(f, S) =
           IF S = {} THEN 0 ELSE f[Pick(S)] + SumFunctionOnSet(f, S \ {Pick(S)})
<1> DEFINE g == CHOOSE iter : IsSum(iter, f, S)
           v == S \ {Pick(S)}
           h == CHOOSE iter : IsSum(iter, f, v)
<1>1. IsSum(g, f, S) /\ SumFunctionOnSet(f, S) = g[S]
  <2>1. IsSum(g, f, S)
    BY SumExists, Zenon
  <2> QED BY <2>1, SumUnfold, Zenon
<1>2. v \in SUBSET S /\ IsFiniteSet(v)
  <2>1. v \in SUBSET S
    BY Zenon
  <2> QED BY <2>1, FS_Subset, Zenon
<1>3. IsSum(h, f, v) /\ SumFunctionOnSet(f, v) = h[v]
  <2> HIDE DEF v
  <2>1. IsSum(h, f, v)
    BY <1>2, SumExists, Zenon
  <2> QED BY <2>1, SumUnfold, Zenon
<1> HIDE DEF g, h
<1>4. [s \in SUBSET v |-> g[s]] = h
  <2>1. IsSum([s \in SUBSET v |-> g[s]], f, v)
    BY <1>1, <1>2, SumRestrict, Zenon
  <2> HIDE DEF v
  <2> QED BY <2>1, <1>2, <1>3, SumUnique, Zenon
<1>5. h[v] = g[v]
  <2>1. [s \in SUBSET v |-> g[s]][v] = g[v]
    BY Zenon
  <2> QED BY <2>1, <1>4, Zenon
<1>6. g[S] = IF S = {} THEN 0 ELSE f[Pick(S)] + g[v]
  BY <1>1, Zenon DEF IsSum
<1> QED BY <1>1, <1>3, <1>5, <1>6, Zenon

\* The empty sum is zero.
LEMMA SumOfNothing ==
  ASSUME NEW f
  PROVE  SumFunctionOnSet(f, {}) = 0
BY SumStep, FS_EmptySet, Zenon

\* A sum of integers is an integer, and any element can be taken from it first.
LEMMA SumRemove ==
  ASSUME NEW f, NEW S, IsFiniteSet(S), \A x \in S : f[x] \in Int
  PROVE  /\ SumFunctionOnSet(f, S) \in Int
         /\ \A x \in S : SumFunctionOnSet(f, S) = f[x] + SumFunctionOnSet(f, S \ {x})
<1> DEFINE Sum(s) == SumFunctionOnSet(f, s)
           Good(s) == Sum(s) \in Int /\ \A x \in s : Sum(s) = f[x] + Sum(s \ {x})
           Bad == {s \in SUBSET S : ~Good(s)}
<1>1. SUFFICES ASSUME Bad # {} PROVE FALSE
  BY Zenon
<1>2. PICK s \in Bad : \A u \in SUBSET s : u # s => u \notin Bad
  <2> HIDE DEF Bad
  <2>1. Bad \in SUBSET (SUBSET S)
    BY Zenon DEF Bad
  <2> QED BY <1>1, <2>1, LeastSubset, Zenon
<1>3. \A u \in SUBSET s : u # s => Good(u)
  <2> HIDE DEF Good
  <2> QED BY <1>2, Zenon
<1> DEFINE p == Pick(s)
<1>4. \A u \in SUBSET s : IsFiniteSet(u)
  BY <1>2, FS_Subset, Zenon
<1>5. s # {}
  <2>1. Good({})
    BY SumOfNothing
  <2> HIDE DEF Good
  <2> QED BY <1>2, <2>1, Zenon
<1>6. p \in s /\ Sum(s) = f[p] + Sum(s \ {p})
  <2>1. Sum(s) = f[p] + Sum(s \ {p})
    BY <1>4, <1>5, SumStep, Zenon
  <2> QED BY <2>1, <1>5, PickInSet, Zenon
<1> HIDE DEF p, Sum
<1>7. \A x \in s : f[x] \in Int
  BY <1>2, Zenon
<1>8. \A x \in s : Sum(s \ {x}) \in Int
  <2> TAKE x \in s
  <2>1. Good(s \ {x})
    BY <1>3, Zenon
  <2> QED BY <2>1, Zenon
<1>9. ASSUME NEW x \in s, x # p PROVE Sum(s) = f[x] + Sum(s \ {x})
  <2>1. Good(s \ {p}) /\ Good(s \ {x})
    BY <1>3, <1>6, Zenon
  <2>2. Sum(s \ {p}) = f[x] + Sum((s \ {p}) \ {x})
    BY <2>1, <1>9, Zenon
  <2>3. Sum(s \ {x}) = f[p] + Sum((s \ {x}) \ {p})
    BY <2>1, <1>6, <1>9, Zenon
  <2>4. (s \ {x}) \ {p} = (s \ {p}) \ {x}
    BY Zenon
  <2>5. Sum((s \ {p}) \ {x}) \in Int
    <3>1. (s \ {p}) \ {x} \in SUBSET s /\ (s \ {p}) \ {x} # s
      BY <1>6, Zenon
    <3>2. Good((s \ {p}) \ {x})
      BY <3>1, <1>3, Zenon
    <3> QED BY <3>2, Zenon
  <2>6. f[x] \in Int /\ f[p] \in Int
    BY <1>6, <1>7, Zenon
  <2>7. Sum(s) = f[p] + (f[x] + Sum((s \ {p}) \ {x}))
    BY <1>6, <2>2, Zenon
  <2>8. Sum(s \ {x}) = f[p] + Sum((s \ {p}) \ {x})
    BY <2>3, <2>4, Zenon
  <2> QED BY <2>5, <2>6, <2>7, <2>8
<1>10. Good(s)
  <2>1. Sum(s) \in Int
    BY <1>6, <1>7, <1>8
  <2> QED BY <2>1, <1>6, <1>9, Zenon
<1> QED BY <1>2, <1>10, Zenon

\* A sum of naturals is a natural.
LEMMA SumType ==
  ASSUME NEW f, NEW S, IsFiniteSet(S), \A x \in S : f[x] \in Nat
  PROVE  SumFunctionOnSet(f, S) \in Nat
<1> DEFINE Bad == {s \in SUBSET S : SumFunctionOnSet(f, s) \notin Nat}
<1>1. SUFFICES ASSUME Bad # {} PROVE FALSE
  BY Zenon
<1>2. PICK s \in Bad : \A u \in SUBSET s : u # s => u \notin Bad
  <2> HIDE DEF Bad
  <2>1. Bad \in SUBSET (SUBSET S)
    BY Zenon DEF Bad
  <2> QED BY <1>1, <2>1, LeastSubset, Zenon
<1>3. IsFiniteSet(s)
  BY <1>2, FS_Subset, Zenon
<1>4. s # {}
  <2>1. {} \notin Bad
    BY SumOfNothing
  <2> QED BY <1>2, <2>1, Zenon
<1>5. Pick(s) \in s /\ SumFunctionOnSet(f, s) = f[Pick(s)] + SumFunctionOnSet(f, s \ {Pick(s)})
  BY <1>3, <1>4, SumStep, PickInSet, Zenon
<1>6. SumFunctionOnSet(f, s \ {Pick(s)}) \in Nat
  BY <1>2, <1>5, Zenon
<1>7. f[Pick(s)] \in Nat
  BY <1>2, <1>5, Zenon
<1> QED BY <1>2, <1>5, <1>6, <1>7

\* A sum grows with its terms.
LEMMA SumMonotone ==
  ASSUME NEW f, NEW g, NEW S, IsFiniteSet(S),
         \A x \in S : f[x] \in Int /\ g[x] \in Int /\ f[x] <= g[x]
  PROVE  SumFunctionOnSet(f, S) <= SumFunctionOnSet(g, S)
<1> DEFINE Bad == {s \in SUBSET S : ~(SumFunctionOnSet(f, s) <= SumFunctionOnSet(g, s))}
<1>1. SUFFICES ASSUME Bad # {} PROVE FALSE
  BY Zenon
<1>2. PICK s \in Bad : \A u \in SUBSET s : u # s => u \notin Bad
  <2> HIDE DEF Bad
  <2>1. Bad \in SUBSET (SUBSET S)
    BY Zenon DEF Bad
  <2> QED BY <1>1, <2>1, LeastSubset, Zenon
<1>3. IsFiniteSet(s) /\ IsFiniteSet(s \ {Pick(s)})
  <2>1. s \ {Pick(s)} \in SUBSET S
    BY <1>2, Zenon
  <2> QED BY <1>2, <2>1, FS_Subset, Zenon
<1>4. s # {}
  <2>1. {} \notin Bad
    BY SumOfNothing
  <2> QED BY <1>2, <2>1, Zenon
<1>5. /\ Pick(s) \in s
      /\ SumFunctionOnSet(f, s) = f[Pick(s)] + SumFunctionOnSet(f, s \ {Pick(s)})
      /\ SumFunctionOnSet(g, s) = g[Pick(s)] + SumFunctionOnSet(g, s \ {Pick(s)})
  BY <1>3, <1>4, SumStep, PickInSet, Zenon
<1>6. SumFunctionOnSet(f, s \ {Pick(s)}) <= SumFunctionOnSet(g, s \ {Pick(s)})
  BY <1>2, <1>5, Zenon
<1>7. /\ SumFunctionOnSet(f, s \ {Pick(s)}) \in Int
      /\ SumFunctionOnSet(g, s \ {Pick(s)}) \in Int
  <2>1. \A x \in s \ {Pick(s)} : f[x] \in Int /\ g[x] \in Int
    BY <1>2, Zenon
  <2> QED BY <2>1, <1>3, SumRemove, Zenon
<1>8. f[Pick(s)] \in Int /\ g[Pick(s)] \in Int /\ f[Pick(s)] <= g[Pick(s)]
  BY <1>2, <1>5, Zenon
<1> QED BY <1>2, <1>5, <1>6, <1>7, <1>8

\* A sum depends on the terms alone.
LEMMA SumSame ==
  ASSUME NEW f, NEW g, NEW S, IsFiniteSet(S),
         \A x \in S : f[x] \in Int /\ g[x] = f[x]
  PROVE  SumFunctionOnSet(g, S) = SumFunctionOnSet(f, S)
<1>1. SumFunctionOnSet(f, S) <= SumFunctionOnSet(g, S)
  BY SumMonotone
<1>2. SumFunctionOnSet(g, S) <= SumFunctionOnSet(f, S)
  BY SumMonotone
<1>3. SumFunctionOnSet(f, S) \in Int /\ SumFunctionOnSet(g, S) \in Int
  BY SumRemove, Zenon
<1> QED BY <1>1, <1>2, <1>3

\* When one term changes the sum changes by as much.
LEMMA SumUpdate ==
  ASSUME NEW f, NEW g, NEW S, IsFiniteSet(S), NEW x \in S,
         \A y \in S : f[y] \in Int /\ g[y] \in Int,
         \A y \in S : y # x => g[y] = f[y]
  PROVE  SumFunctionOnSet(g, S) = SumFunctionOnSet(f, S) - f[x] + g[x]
<1>1. IsFiniteSet(S \ {x})
  BY FS_RemoveElement, Zenon
<1>2. SumFunctionOnSet(g, S \ {x}) = SumFunctionOnSet(f, S \ {x})
  BY <1>1, SumSame, Zenon
<1>3. SumFunctionOnSet(f, S \ {x}) \in Int
  BY <1>1, SumRemove, Zenon
<1>4. /\ SumFunctionOnSet(f, S) = f[x] + SumFunctionOnSet(f, S \ {x})
      /\ SumFunctionOnSet(g, S) = g[x] + SumFunctionOnSet(g, S \ {x})
  BY SumRemove
<1> QED BY <1>2, <1>3, <1>4

\* Terms that are zero may be left out.
LEMMA SumExtend ==
  ASSUME NEW f, NEW g, NEW T, IsFiniteSet(T), NEW S \in SUBSET T,
         \A x \in S : f[x] \in Int /\ g[x] = f[x],
         \A x \in T \ S : g[x] = 0
  PROVE  SumFunctionOnSet(g, T) = SumFunctionOnSet(f, S)
<1> DEFINE Bad == {u \in SUBSET (T \ S) : SumFunctionOnSet(g, S \cup u) # SumFunctionOnSet(f, S)}
<1>1. SUFFICES ASSUME Bad # {} PROVE FALSE
  <2>1. S \cup (T \ S) = T
    BY Zenon
  <2>2. Bad = {} => SumFunctionOnSet(g, S \cup (T \ S)) = SumFunctionOnSet(f, S)
    BY Zenon
  <2> QED BY <2>1, <2>2, Zenon
<1>2. IsFiniteSet(T \ S) /\ IsFiniteSet(S)
  <2>1. T \ S \in SUBSET T
    BY Zenon
  <2> QED BY <2>1, FS_Subset, Zenon
<1>3. PICK u \in Bad : \A v \in SUBSET u : v # u => v \notin Bad
  <2> HIDE DEF Bad
  <2>1. Bad \in SUBSET (SUBSET (T \ S))
    BY Zenon DEF Bad
  <2> QED BY <1>1, <1>2, <2>1, LeastSubset, Zenon
<1>4. u # {}
  <2>1. S \cup {} = S
    BY Zenon
  <2>2. SumFunctionOnSet(g, S) = SumFunctionOnSet(f, S)
    BY <1>2, SumSame
  <2>3. {} \notin Bad
    BY <2>1, <2>2, Zenon
  <2> QED BY <1>3, <2>3, Zenon
<1>5. PICK x \in u : TRUE
  BY <1>4, Zenon
<1>6. u \ {x} \notin Bad /\ u \ {x} \in SUBSET (T \ S)
  BY <1>3, <1>5, Zenon
<1>7. SumFunctionOnSet(g, S \cup (u \ {x})) = SumFunctionOnSet(f, S)
  BY <1>6, Zenon
<1>8. (S \cup u) \ {x} = S \cup (u \ {x})
  BY <1>3, <1>5, Zenon
<1>9. SumFunctionOnSet(g, S \cup u) = g[x] + SumFunctionOnSet(g, (S \cup u) \ {x})
  <2>1. S \cup u \in SUBSET T /\ x \in S \cup u
    BY <1>3, <1>5, Zenon
  <2>2. IsFiniteSet(S \cup u)
    BY <2>1, FS_Subset, Zenon
  <2>3. \A y \in S \cup u : g[y] \in Int
    BY <1>3
  <2> QED BY <2>1, <2>2, <2>3, SumRemove
<1>10. g[x] = 0
  BY <1>3, <1>5, Zenon
<1>11. SumFunctionOnSet(f, S) \in Int
  BY <1>2, SumRemove, Zenon
<1>12. SumFunctionOnSet(g, S \cup u) = SumFunctionOnSet(f, S)
  <2>1. SumFunctionOnSet(g, (S \cup u) \ {x}) = SumFunctionOnSet(f, S)
    BY <1>7, <1>8, Zenon
  <2> QED BY <2>1, <1>9, <1>10, <1>11
<1> QED BY <1>3, <1>12, Zenon

\* An element that joins the set adds its own value.
LEMMA SumAdd ==
  ASSUME NEW f, NEW g, NEW S, IsFiniteSet(S), NEW x, x \notin S, g[x] \in Int,
         \A y \in S : f[y] \in Int /\ g[y] = f[y]
  PROVE  SumFunctionOnSet(g, S \cup {x}) = SumFunctionOnSet(f, S) + g[x]
<1>1. IsFiniteSet(S \cup {x})
  BY FS_AddElement, Zenon
<1>2. PICK T : T = S \cup {x}
  BY Zenon
<1>3. IsFiniteSet(T) /\ x \in T /\ \A y \in T : g[y] \in Int
  BY <1>1, <1>2, Zenon
<1>4. SumFunctionOnSet(g, T) = g[x] + SumFunctionOnSet(g, T \ {x})
  BY <1>3, SumRemove
<1>5. T \ {x} = S
  BY <1>2, Zenon
<1>6. SumFunctionOnSet(g, S) = SumFunctionOnSet(f, S) /\ SumFunctionOnSet(f, S) \in Int
  <2>1. SumFunctionOnSet(g, S) = SumFunctionOnSet(f, S)
    BY SumSame, Zenon
  <2>2. SumFunctionOnSet(f, S) \in Int
    BY SumRemove, Zenon
  <2> QED BY <2>1, <2>2, Zenon
<1>7. SumFunctionOnSet(g, T) = g[x] + SumFunctionOnSet(g, S)
  BY <1>4, <1>5, Zenon
<1> QED BY <1>2, <1>3, <1>6, <1>7

\* The sum over a set is that over a part and that over the rest.
LEMMA SumSplit ==
  ASSUME NEW f, NEW S, IsFiniteSet(S), \A x \in S : f[x] \in Int, NEW R \in SUBSET S
  PROVE  SumFunctionOnSet(f, S) = SumFunctionOnSet(f, R) + SumFunctionOnSet(f, S \ R)
<1> DEFINE Sum(s) == SumFunctionOnSet(f, s)
<1>1. PICK T : T = S \ R
  BY Zenon
<1>2. \A s \in SUBSET S : /\ Sum(s) \in Int
                         /\ \A x \in s : f[x] \in Int /\ Sum(s) = f[x] + Sum(s \ {x})
  <2> SUFFICES ASSUME NEW s \in SUBSET S
               PROVE  /\ Sum(s) \in Int
                      /\ \A x \in s : f[x] \in Int /\ Sum(s) = f[x] + Sum(s \ {x})
    BY Zenon
  <2>1. IsFiniteSet(s) /\ \A x \in s : f[x] \in Int
    BY FS_Subset, Zenon
  <2>2. /\ SumFunctionOnSet(f, s) \in Int
        /\ \A x \in s : SumFunctionOnSet(f, s) = f[x] + SumFunctionOnSet(f, s \ {x})
    BY <2>1, SumRemove
  <2> QED BY <2>1, <2>2, Zenon
<1>3. Sum({}) = 0
  BY SumOfNothing, Zenon
<1> HIDE DEF Sum
<1> DEFINE Bad == {s \in SUBSET R : Sum(s \cup T) # Sum(s) + Sum(T)}
<1>4. Bad = {}
  <2> SUFFICES ASSUME Bad # {}
               PROVE  FALSE
    BY Zenon
  <2>1. PICK s \in Bad : \A u \in SUBSET s : u # s => u \notin Bad
    <3>1. Bad \in SUBSET (SUBSET R) /\ IsFiniteSet(R)
      BY FS_Subset, Zenon
    <3> HIDE DEF Bad
    <3> QED BY <3>1, LeastSubset, Zenon
  <2>2. Sum(T) \in Int
    BY <1>1, <1>2, Zenon
  <2>3. s # {}
    <3>1. CASE s = {}
      <4>1. Sum(T) # 0 + Sum(T)
        <5>1. {} \cup T = T
          BY Zenon
        <5> QED BY <2>1, <3>1, <5>1, <1>3, Zenon
      <4> QED BY <2>2, <4>1
    <3> QED BY <3>1, Zenon
  <2>4. PICK y \in s : TRUE
    BY <2>3, Zenon
  <2>5. PICK u \in SUBSET R : u = s \ {y} /\ u \notin Bad
    <3>1. s \in SUBSET R /\ s \ {y} \in SUBSET s /\ s \ {y} # s
      BY <2>1, <2>4, Zenon
    <3>2. s \ {y} \notin Bad /\ s \ {y} \in SUBSET R
      BY <2>1, <3>1, Zenon
    <3> QED BY <3>2, Zenon
  <2>6. Sum(u \cup T) = Sum(u) + Sum(T)
    BY <2>5, Zenon
  <2>7. /\ s \in SUBSET S /\ s \cup T \in SUBSET S /\ u \in SUBSET S /\ y \in s \cup T
        /\ (s \cup T) \ {y} = u \cup T
    BY <1>1, <2>1, <2>4, <2>5, Zenon
  <2>8. Sum(s \cup T) = f[y] + Sum(u \cup T) /\ Sum(s) = f[y] + Sum(u)
    <3>1. Sum(s \cup T) = f[y] + Sum((s \cup T) \ {y})
      BY <1>2, <2>7, Zenon
    <3>2. Sum(s) = f[y] + Sum(s \ {y})
      BY <1>2, <2>4, <2>7, Zenon
    <3> QED BY <2>5, <2>7, <3>1, <3>2, Zenon
  <2>9. f[y] \in Int /\ Sum(u) \in Int
    BY <1>2, <2>4, <2>7, Zenon
  <2>10. Sum(s \cup T) = Sum(s) + Sum(T)
    BY <2>2, <2>6, <2>8, <2>9
  <2> QED BY <2>1, <2>10, Zenon
<1>5. R \cup T = S /\ R \in SUBSET R
  BY <1>1, Zenon
<1>6. Sum(R \cup T) = Sum(R) + Sum(T)
  BY <1>4, <1>5, Zenon
<1> QED BY <1>1, <1>5, <1>6, Zenon DEF Sum

\* Sums over a finite set obey the laws of DataLaws.
THEOREM SumsObey ==
  ASSUME NEW S, IsFiniteSet(S)
  PROVE  SumLaws(S)
<1>1. SumsTyped(S)
  BY SumType, SumRemove, Zenon DEF SumsTyped
<1>2. SumsMonotone(S)
  BY SumMonotone, Zenon DEF SumsMonotone
<1>3. SumsUpdate(S)
  <2> SUFFICES ASSUME NEW f, NEW g, NEW x \in S,
                      \A y \in S : f[y] \in Int /\ g[y] \in Int,
                      \A y \in S : y # x => g[y] = f[y]
               PROVE  SumFunctionOnSet(g, S) = SumFunctionOnSet(f, S) - f[x] + g[x]
    BY Zenon DEF SumsUpdate
  <2> QED BY SumUpdate
<1>4. SumsExtend(S)
  <2> SUFFICES ASSUME NEW f, NEW g, NEW R \in SUBSET S,
                      \A x \in R : f[x] \in Int /\ g[x] = f[x],
                      \A x \in S \ R : g[x] = 0
               PROVE  SumFunctionOnSet(g, S) = SumFunctionOnSet(f, R)
    BY Zenon DEF SumsExtend
  <2> QED BY SumExtend
<1>5. SumsVanish(S)
  <2> SUFFICES ASSUME NEW f, \A x \in S : f[x] = 0
               PROVE  SumFunctionOnSet(f, S) = 0
    BY Zenon DEF SumsVanish
  <2>1. SumFunctionOnSet(f, S) = SumFunctionOnSet(f, {})
    BY SumExtend
  <2> QED BY <2>1, SumOfNothing, Zenon
<1>6. SumsMove(S)
  <2> SUFFICES ASSUME NEW f, NEW g, NEW x \in S, NEW n \in Int,
                      \A y \in S : f[y] \in Int /\ g[y] \in Int,
                      \A y \in S : y # x => g[y] <= f[y], g[x] <= f[x] + n
               PROVE  SumFunctionOnSet(g, S) <= SumFunctionOnSet(f, S) + n
    BY Zenon DEF SumsMove
  <2> DEFINE h == [y \in S |-> IF y = x THEN f[x] + n ELSE f[y]]
  <2>1. /\ \A y \in S : h[y] \in Int /\ g[y] <= h[y]
        /\ \A y \in S : y # x => h[y] = f[y]
        /\ h[x] = f[x] + n
    OBVIOUS
  <2> HIDE DEF h
  <2>2. SumFunctionOnSet(g, S) <= SumFunctionOnSet(h, S)
    BY <2>1, <1>2, Zenon DEF SumsMonotone
  <2>3. SumFunctionOnSet(h, S) = SumFunctionOnSet(f, S) - f[x] + h[x]
    BY <2>1, <1>3, Zenon DEF SumsUpdate
  <2>4. /\ SumFunctionOnSet(f, S) \in Int /\ SumFunctionOnSet(g, S) \in Int
        /\ SumFunctionOnSet(h, S) \in Int /\ f[x] \in Int
    BY <2>1, <1>1, Zenon DEF SumsTyped
  <2> QED BY <2>1, <2>2, <2>3, <2>4
<1>7. SumsAdd(S)
  <2> SUFFICES ASSUME NEW f, NEW g, NEW x, x \notin S, g[x] \in Int,
                      \A y \in S : f[y] \in Int /\ g[y] = f[y]
               PROVE  SumFunctionOnSet(g, S \cup {x}) = SumFunctionOnSet(f, S) + g[x]
    BY Zenon DEF SumsAdd
  <2> QED BY SumAdd
<1>8. SumsSplit(S)
  <2> SUFFICES ASSUME NEW f, NEW R \in SUBSET S, \A x \in S : f[x] \in Int
               PROVE  SumFunctionOnSet(f, S) = SumFunctionOnSet(f, R) + SumFunctionOnSet(f, S \ R)
    BY Zenon DEF SumsSplit
  <2> QED BY SumSplit
<1> QED BY <1>1, <1>2, <1>3, <1>4, <1>5, <1>6, <1>7, <1>8, Zenon DEF SumLaws

------------------------------------------------------------------------------
\* A finite set of integers has a largest.
LEMMA LargestExists ==
  ASSUME NEW S \in SUBSET Int, IsFiniteSet(S), S # {}
  PROVE  \E m \in S : \A x \in S : x <= m
<1> DEFINE Bad == {u \in SUBSET S : u # {} /\ ~\E m \in u : \A x \in u : x <= m}
<1>1. Bad = {}
  <2> SUFFICES ASSUME Bad # {}
               PROVE  FALSE
    BY Zenon
  <2>1. PICK u \in Bad : \A v \in SUBSET u : v # u => v \notin Bad
    <3>1. Bad \in SUBSET (SUBSET S)
      BY Zenon
    <3> HIDE DEF Bad
    <3> QED BY <3>1, LeastSubset, Zenon
  <2>2. PICK y \in u : TRUE
    BY Zenon
  <2>3. u \ {y} \notin Bad /\ u \ {y} \in SUBSET S
    BY <2>1, <2>2, Zenon
  <2>4. CASE u \ {y} = {}
    BY <2>1, <2>2, <2>4
  <2>5. CASE u \ {y} # {}
    <3>1. PICK m \in u \ {y} : \A x \in u \ {y} : x <= m
      BY <2>3, <2>5, Zenon
    <3>2. m \in Int /\ y \in Int /\ \A x \in u : x \in Int
      BY <2>1, <2>2, <3>1, Zenon
    <3>3. CASE m <= y
      <4>1. \A x \in u : x <= y
        BY <3>1, <3>2, <3>3
      <4> QED BY <2>1, <2>2, <4>1, Zenon
    <3>4. CASE ~(m <= y)
      <4>1. \A x \in u : x <= m
        BY <3>1, <3>2, <3>4
      <4> QED BY <2>1, <3>1, <4>1, Zenon
    <3> QED BY <3>3, <3>4, Zenon
  <2> QED BY <2>4, <2>5, Zenon
<1> QED BY <1>1, Zenon

\* A finite set in which one is ahead of the other has a last element.
LEMMA LastExists ==
  ASSUME NEW S, IsFiniteSet(S), S # {}, NEW a, Lined(S, a)
  PROVE  \E j : IsLast(j, S, a)
<1> DEFINE Bad == {u \in SUBSET S : u # {} /\ ~\E m \in u : \A x \in u : x # m => x \in a[m]}
<1>1. Bad = {}
  <2> SUFFICES ASSUME Bad # {}
               PROVE  FALSE
    BY Zenon
  <2>1. PICK u \in Bad : \A v \in SUBSET u : v # u => v \notin Bad
    <3>1. Bad \in SUBSET (SUBSET S)
      BY Zenon
    <3> HIDE DEF Bad
    <3> QED BY <3>1, LeastSubset, Zenon
  <2>2. PICK y \in u : TRUE
    BY Zenon
  <2>3. u \ {y} \notin Bad /\ u \in SUBSET S
    BY <2>1, <2>2, Zenon
  <2>4. CASE u \ {y} = {}
    BY <2>1, <2>2, <2>4, Zenon
  <2>5. CASE u \ {y} # {}
    <3>1. PICK m \in u \ {y} : \A x \in u \ {y} : x # m => x \in a[m]
      BY <2>3, <2>5, Zenon
    <3>2. CASE m \in a[y]
      <4>1. \A x \in u : x # y => x \in a[y]
        BY <2>2, <2>3, <3>1, <3>2, Zenon DEF Lined
      <4> QED BY <2>1, <2>2, <4>1, Zenon
    <3>3. CASE y \in a[m]
      <4>1. \A x \in u : x # m => x \in a[m]
        BY <3>1, <3>3, Zenon
      <4> QED BY <2>1, <3>1, <4>1, Zenon
    <3> QED BY <2>2, <2>3, <3>1, <3>2, <3>3, Zenon DEF Lined
  <2> QED BY <2>4, <2>5, Zenon
<1> QED BY <1>1, Zenon DEF IsLast

\* The library's finite sets obey the laws of DataLaws.
THEOREM FiniteSetsObey == FiniteLaws
<1>1. EmptyLaw
  BY FS_EmptySet, FS_CardinalityType, Zenon DEF EmptyLaw
<1>2. SubsetLaw
  BY FS_Subset, Zenon DEF SubsetLaw
<1>3. AddLaw
  BY FS_AddElement, Zenon DEF AddLaw
<1>4. RemoveLaw
  BY FS_RemoveElement, Zenon DEF RemoveLaw
<1>5. UnionLaw
  BY FS_Union, Zenon DEF UnionLaw
<1>6. IntervalLaw
  BY FS_Interval, Zenon DEF IntervalLaw
<1>7. LargestLaw
  BY LargestExists, Zenon DEF LargestLaw
<1>8. LastLaw
  BY LastExists, Zenon DEF LastLaw
<1> QED BY <1>1, <1>2, <1>3, <1>4, <1>5, <1>6, <1>7, <1>8, Zenon DEF FiniteLaws

------------------------------------------------------------------------------
\* A set of naturals has a least element: induction, by contradiction.
LEMMA LeastNatural ==
  ASSUME NEW S \in SUBSET Nat, S # {}
  PROVE  \E n \in S : \A m \in S : n <= m
<1>1. PICK n \in S : \A m \in S : <<m, n>> \notin OpToRel(<, Nat)
  BY NatLessThanWellFounded, WFMin, Zenon
<1>2. \A m \in S : ~(m < n)
  BY <1>1, Zenon DEF OpToRel
<1> QED BY <1>2

------------------------------------------------------------------------------
\* The place of a block in its set.
Below(S, b) == {c \in S : c < b}
Rank(S, b)  == Cardinality(Below(S, b))

\* A block has fewer blocks below it than there are.
LEMMA RankType ==
  ASSUME NEW S \in SUBSET Nat, IsFiniteSet(S), NEW b \in S
  PROVE  /\ IsFiniteSet(Below(S, b)) /\ Rank(S, b) \in Nat
         /\ Cardinality(S) \in Nat /\ Rank(S, b) < Cardinality(S)
<1>1. Below(S, b) \in SUBSET (S \ {b})
  BY DEF Below
<1>2. IsFiniteSet(S \ {b}) /\ Cardinality(S \ {b}) = Cardinality(S) - 1
  BY FS_RemoveElement, Zenon
<1>3. IsFiniteSet(Below(S, b)) /\ Cardinality(Below(S, b)) <= Cardinality(S \ {b})
  BY <1>1, <1>2, FS_Subset, Zenon
<1>4. Cardinality(Below(S, b)) \in Nat /\ Cardinality(S) \in Nat
  BY <1>3, FS_CardinalityType, Zenon
<1> QED BY <1>2, <1>3, <1>4 DEF Rank

\* The lower of two blocks has fewer below it.
LEMMA RankAscends ==
  ASSUME NEW S \in SUBSET Nat, IsFiniteSet(S), NEW a \in S, NEW b \in S, a < b
  PROVE  Rank(S, a) < Rank(S, b)
<1>1. Below(S, a) \cup {a} \in SUBSET Below(S, b) /\ a \notin Below(S, a)
  <2>1. \A c \in S : c < a => c < b
    OBVIOUS
  <2>2. ~(a < a)
    OBVIOUS
  <2> QED BY Zenon, <2>1, <2>2 DEF Below
<1>2. IsFiniteSet(Below(S, a)) /\ IsFiniteSet(Below(S, b))
      /\ Rank(S, a) \in Nat /\ Rank(S, b) \in Nat
  BY RankType, Zenon
<1>3. Cardinality(Below(S, a) \cup {a}) = Rank(S, a) + 1
  BY <1>1, <1>2, FS_AddElement, Zenon DEF Rank
<1>4. Cardinality(Below(S, a) \cup {a}) <= Rank(S, b)
  BY <1>1, <1>2, FS_Subset, Zenon DEF Rank
<1> QED BY <1>2, <1>3, <1>4

\* Every place is some block's.
LEMMA RankOnto ==
  ASSUME NEW S \in SUBSET Nat, IsFiniteSet(S), NEW i \in 1 .. Cardinality(S)
  PROVE  \E b \in S : Rank(S, b) = i - 1
<1> DEFINE n == Cardinality(S)
           f == [b \in S |-> Rank(S, b) + 1]
<1>1. n \in Nat
  BY FS_CardinalityType, Zenon
<1>2. \A b \in S : Rank(S, b) + 1 \in 1 .. n
  BY RankType
<1>3. f \in [S -> 1 .. n]
  BY <1>2, Zenon
<1>4. \A a, b \in S : f[a] = f[b] => a = b
  <2>1. SUFFICES ASSUME NEW a \in S, NEW b \in S, Rank(S, a) + 1 = Rank(S, b) + 1 PROVE a = b
    BY Zenon
  <2>2. Rank(S, a) \in Nat /\ Rank(S, b) \in Nat /\ a \in Nat /\ b \in Nat
    BY RankType, Zenon
  <2> QED BY <2>1, <2>2, RankAscends
<1>5. f \in Injection(S, 1 .. n)
  BY <1>3, <1>4, Zenon DEF Injection, IsInjective
<1>6. IsFiniteSet(1 .. n) /\ Cardinality(1 .. n) = n
  BY <1>1, FS_Interval
<1>7. f \in Surjection(S, 1 .. n)
  BY <1>5, <1>6, FS_Injection, Zenon
<1>8. \E b \in S : f[b] = i
  BY <1>7, Zenon DEF Surjection
<1> QED BY <1>8, RankType

\* Ascending lists the blocks of a set, each once and in order.
LEMMA AscendingLists ==
  ASSUME NEW S \in SUBSET Nat, IsFiniteSet(S)
  PROVE  /\ Cardinality(S) \in Nat
         /\ Ascending(S) \in [1 .. Cardinality(S) -> S]
         /\ \A i, j \in 1 .. Cardinality(S) : i < j => Ascending(S)[i] < Ascending(S)[j]
         /\ \A b \in S : \E i \in 1 .. Cardinality(S) : Ascending(S)[i] = b
<1> DEFINE n == Cardinality(S)
           Chosen(i) == CHOOSE b \in S : Rank(S, b) = i - 1
<1>1. n \in Nat
  BY FS_CardinalityType, Zenon
<1>2. Ascending(S) = [i \in 1 .. n |-> Chosen(i)]
  BY Zenon DEF Ascending, Rank, Below
<1>3. ASSUME NEW i \in 1 .. n PROVE Chosen(i) \in S /\ Rank(S, Chosen(i)) = i - 1
  BY RankOnto, Zenon
<1> HIDE DEF Chosen
<1>4. ASSUME NEW i \in 1 .. n, NEW j \in 1 .. n, i < j PROVE Chosen(i) < Chosen(j)
  <2>1. /\ Chosen(i) \in S /\ Rank(S, Chosen(i)) = i - 1
        /\ Chosen(j) \in S /\ Rank(S, Chosen(j)) = j - 1
    BY <1>3, Zenon
  <2>2. Chosen(i) \in Nat /\ Chosen(j) \in Nat
    BY <2>1, Zenon
  <2> QED BY <1>4, <2>1, <2>2, RankAscends, RankType
<1>5. ASSUME NEW b \in S PROVE \E i \in 1 .. n : Chosen(i) = b
  <2>1. Rank(S, b) \in Nat /\ Rank(S, b) < n
    BY RankType, Zenon
  <2>2. Rank(S, b) + 1 \in 1 .. n /\ (Rank(S, b) + 1) - 1 = Rank(S, b)
    BY <1>1, <2>1
  <2> DEFINE c == Chosen(Rank(S, b) + 1)
  <2>3. c \in S /\ Rank(S, c) = Rank(S, b)
    BY <1>3, <2>2, Zenon
  <2> HIDE DEF c
  <2>4. c = b
    BY <2>1, <2>3, RankAscends
  <2> QED BY <2>2, <2>4, Zenon DEF c
<1> QED BY <1>1, <1>2, <1>3, <1>4, <1>5, Zenon
------------------------------------------------------------------------------
\* The recursion of PlanRuns, with its policy z in one piece: block size, asset
\* size, widest gap and longest request.
BegunAt(b) == [runs |-> <<>>, first |-> b, last |-> b]
Shut(plan, z) == Append(plan.runs, FetchRun(plan.first, plan.last, z[1], z[2]))
Taken(plan, b, z) ==
  IF Joins(plan, b, z[1], z[2], z[3], z[4])
    THEN [plan EXCEPT !.last = b]
    ELSE [runs |-> Shut(plan, z), first |-> b, last |-> b]

IsWalk(w, blocks, z) ==
  w = [i \in DOMAIN blocks |-> IF i = 1 THEN BegunAt(blocks[1]) ELSE Taken(w[i - 1], blocks[i], z)]

Policy == (Nat \ {0}) \X Nat \X Nat \X Nat

\* Unfolded, PlanRuns is the last step of the recursion IsWalk describes.
LEMMA PlanUnfold ==
  ASSUME NEW blocks, NEW z \in Policy, blocks # <<>>
  PROVE  PlanRuns(blocks, z[1], z[2], z[3], z[4])
           = Shut((CHOOSE w : IsWalk(w, blocks, z))[Len(blocks)], z)
BY Zenon DEF PlanRuns, IsWalk, BegunAt, Shut, Taken

\* The recursion has a solution.
LEMMA WalkExists ==
  ASSUME NEW n \in Nat, NEW blocks \in [1 .. n -> Nat], NEW z
  PROVE  \E w : IsWalk(w, blocks, z)
<1> DEFINE Upto(m, w) == w = [i \in 1 .. m |-> IF i = 1 THEN BegunAt(blocks[1])
                                              ELSE Taken(w[i - 1], blocks[i], z)]
           Bad == {m \in 0 .. n : ~ \E w : Upto(m, w)}
<1>1. Bad = {}
  <2>1. SUFFICES ASSUME Bad # {} PROVE FALSE
    BY Zenon
  <2>2. PICK m \in Bad : \A k \in Bad : m <= k
    <3>1. Bad \in SUBSET Nat
      OBVIOUS
    <3> HIDE DEF Bad
    <3> QED BY <2>1, <3>1, LeastNatural, Zenon
  <2>3. m \in 0 .. n /\ ~ \E w : Upto(m, w)
    BY <2>2, Zenon
  <2>4. m # 0
    <3>1. Upto(0, <<>>)
      OBVIOUS
    <3> QED BY <2>3, <3>1, Zenon
  <2>5. m - 1 \in 0 .. n /\ m - 1 \notin Bad
    <3>1. m - 1 \in 0 .. n /\ ~(m <= m - 1)
      BY <2>3, <2>4
    <3> HIDE DEF Bad
    <3> QED BY <2>2, <3>1, Zenon
  <2>6. PICK w : Upto(m - 1, w)
    BY <2>5, Zenon
  <2> DEFINE v == [i \in 1 .. m |-> IF i = m THEN IF m = 1 THEN BegunAt(blocks[1])
                                                  ELSE Taken(w[m - 1], blocks[m], z)
                                    ELSE w[i]]
  <2>7. ASSUME NEW i \in 1 .. m
        PROVE  v[i] = IF i = 1 THEN BegunAt(blocks[1]) ELSE Taken(v[i - 1], blocks[i], z)
    <3>1. CASE i = m
      BY <2>3, <2>4, <3>1
    <3>2. CASE i # m
      <4>1. i \in 1 .. m - 1 /\ v[i] = w[i] /\ (i # 1 => i - 1 \in 1 .. m /\ i - 1 # m)
        BY <2>3, <2>4, <3>2
      <4>2. w[i] = IF i = 1 THEN BegunAt(blocks[1]) ELSE Taken(w[i - 1], blocks[i], z)
        BY <2>6, <4>1, Zenon
      <4> QED BY <4>1, <4>2, Zenon
    <3> QED BY <3>1, <3>2, Zenon
  <2>8. Upto(m, v)
    <3> DEFINE u == [i \in 1 .. m |-> IF i = 1 THEN BegunAt(blocks[1])
                                      ELSE Taken(v[i - 1], blocks[i], z)]
    <3>1. \A i \in 1 .. m : v[i] = u[i]
      BY <2>7, Zenon
    <3>2. v = u
      <4>1. DOMAIN v = 1 .. m /\ DOMAIN u = 1 .. m /\ v = [i \in 1 .. m |-> v[i]]
            /\ u = [i \in 1 .. m |-> u[i]]
        OBVIOUS
      <4> HIDE DEF u, v
      <4> QED BY <3>1, <4>1, Zenon
    <3> QED BY <3>2, Zenon
  <2> QED BY <2>3, <2>8, Zenon
<1>2. \E w : Upto(n, w)
  <2>1. n \in 0 .. n
    OBVIOUS
  <2> HIDE DEF Upto
  <2> QED BY <1>1, <2>1, Zenon
<1> QED BY <1>2, Zenon DEF IsWalk

------------------------------------------------------------------------------
\* A request from one block to a later one starts and ends there.
LEMMA FetchRunType ==
  ASSUME NEW first \in Nat, NEW last \in Nat, first <= last, NEW z \in Policy
  PROVE  LET run == FetchRun(first, last, z[1], z[2])
         IN  run \in Run /\ run.firstBlock = first /\ LastBlock(run) = last
<1> DEFINE e == ExtentOf(last, z[1], z[2])
           f == ExtentOf(first, z[1], z[2])
<1>1. z[1] \in Nat /\ z[2] \in Nat
  BY Zenon DEF Policy
<1>2. ASSUME NEW b \in Nat
      PROVE  ExtentOf(b, z[1], z[2]).offset \in Int /\ ExtentOf(b, z[1], z[2]).length \in Int
  <2> DEFINE start == b * z[1]
  <2>1. start \in Nat
    BY <1>1, SMT
  <2>2. /\ ExtentOf(b, z[1], z[2]).offset = start
        /\ ExtentOf(b, z[1], z[2]).length = IF start >= z[2] THEN 0
             ELSE IF z[2] - start < z[1] THEN z[2] - start ELSE z[1]
    BY Zenon DEF ExtentOf
  <2> HIDE DEF start
  <2> QED BY <1>1, <2>1, <2>2
<1>3. e.offset \in Int /\ e.length \in Int /\ f.offset \in Int
  BY <1>2, Zenon
<1>4. last - first + 1 \in Nat \ {0} /\ first + (last - first + 1) - 1 = last
  OBVIOUS
<1>5. e.offset + e.length - f.offset \in Int
  BY <1>3
<1>6. FetchRun(first, last, z[1], z[2])
        = [firstBlock |-> first, blockCount |-> last - first + 1, offset |-> f.offset,
           length |-> e.offset + e.length - f.offset]
  BY Zenon DEF FetchRun, SpanBytes
<1> HIDE DEF e, f
<1> QED BY <1>3, <1>4, <1>5, <1>6 DEF Run, LastBlock

Plan == [runs : Seq(Run), first : Nat, last : Nat]

\* Of the blocks up to place i, the requests rs hold those below first, start and
\* end on some of them, and ascend.
RunsOK(rs, first, blocks, i) ==
  /\ Ascends(rs)
  /\ \A j \in 1 .. Len(rs) :
       /\ LastBlock(rs[j]) < first
       /\ \E m \in 1 .. i : rs[j].firstBlock = blocks[m]
       /\ \E m \in 1 .. i : LastBlock(rs[j]) = blocks[m]
  /\ \A m \in 1 .. i : first <= blocks[m] \/ \E j \in 1 .. Len(rs) : Reaches(rs[j], blocks[m])

\* What a plan is after the blocks up to place i: the closed requests hold those
\* below the open one, which ends on the last.
PlanOK(p, blocks, i) ==
  /\ p \in Plan
  /\ p.last = blocks[i] /\ p.first <= p.last
  /\ \E m \in 1 .. i : p.first = blocks[m]
  /\ RunsOK(p.runs, p.first, blocks, i)

\* With the open request closed there is no block left.
ShutOK(rs, last, blocks, i) ==
  /\ Ascends(rs)
  /\ \A j \in 1 .. Len(rs) :
       /\ LastBlock(rs[j]) <= last
       /\ \E m \in 1 .. i : rs[j].firstBlock = blocks[m]
       /\ \E m \in 1 .. i : LastBlock(rs[j]) = blocks[m]
  /\ \A m \in 1 .. i : \E j \in 1 .. Len(rs) : Reaches(rs[j], blocks[m])

\* Closing the open request adds it after the others.
LEMMA ShutAscends ==
  ASSUME NEW n \in Nat, NEW blocks \in [1 .. n -> Nat], NEW z \in Policy, NEW i \in 1 .. n,
         NEW p, PlanOK(p, blocks, i),
         \A j, k \in 1 .. n : j < k => blocks[j] < blocks[k]
  PROVE  ShutOK(Shut(p, z), p.last, blocks, i)
<1> DEFINE run == FetchRun(p.first, p.last, z[1], z[2])
           old == p.runs
           len == Len(old)
           rs  == Append(old, run)
<1>1. p \in Plan /\ old \in Seq(Run) /\ p.first \in Nat /\ p.last \in Nat /\ p.first <= p.last
      /\ len \in Nat
  BY DEF PlanOK, Plan
<1>2. run \in Run /\ run.firstBlock = p.first /\ LastBlock(run) = p.last
  BY <1>1, FetchRunType
<1> HIDE DEF run
<1>3. /\ rs \in Seq(Run) /\ Len(rs) = len + 1 /\ rs[len + 1] = run
      /\ \A j \in 1 .. len : rs[j] = old[j] /\ old[j] \in Run
  BY <1>1, <1>2
<1>4. \A j \in 1 .. len + 1 : j \in 1 .. len \/ j = len + 1
  BY <1>1
<1>5. \A j \in 1 .. len : LastBlock(old[j]) \in Int /\ LastBlock(old[j]) < p.first
  <2>1. \A r \in Run : LastBlock(r) \in Int
    BY DEF LastBlock, Run
  <2> QED BY <1>3, <2>1, Zenon DEF PlanOK, RunsOK
<1> HIDE DEF rs, old, len
<1>6. Ascends(rs)
  <2>1. ASSUME NEW j \in 1 .. len + 1, NEW k \in 1 .. len + 1, j < k
        PROVE  LastBlock(rs[j]) < rs[k].firstBlock
    <3>1. j \in 1 .. len
      BY <1>1, <2>1
    <3>2. CASE k \in 1 .. len
      BY <2>1, <3>1, <3>2, <1>3, Zenon DEF PlanOK, RunsOK, Ascends, old, len
    <3>3. CASE k = len + 1
      BY <3>1, <3>3, <1>2, <1>3, <1>5, Zenon
    <3> QED BY <1>4, <3>2, <3>3, Zenon
  <2> QED BY <1>3, <2>1, Zenon DEF Ascends
<1>7. ASSUME NEW j \in 1 .. len + 1
      PROVE  /\ LastBlock(rs[j]) <= p.last
             /\ \E m \in 1 .. i : rs[j].firstBlock = blocks[m]
             /\ \E m \in 1 .. i : LastBlock(rs[j]) = blocks[m]
  <2>1. CASE j \in 1 .. len
    <3>1. LastBlock(rs[j]) <= p.last
      BY <2>1, <1>1, <1>3, <1>5
    <3>2. RunsOK(old, p.first, blocks, i)
      BY Zenon DEF PlanOK, old
    <3>3. /\ \E m \in 1 .. i : old[j].firstBlock = blocks[m]
          /\ \E m \in 1 .. i : LastBlock(old[j]) = blocks[m]
      BY <2>1, <3>2, Zenon DEF RunsOK, len
    <3> QED BY <2>1, <3>1, <3>3, <1>3, Zenon
  <2>2. CASE j = len + 1
    BY <2>2, <1>1, <1>2, <1>3 DEF PlanOK
  <2> QED BY <1>4, <2>1, <2>2, Zenon
<1>8. ASSUME NEW m \in 1 .. i
      PROVE  \E j \in 1 .. len + 1 : Reaches(rs[j], blocks[m])
  <2>1. CASE p.first <= blocks[m]
    <3>1. blocks[m] <= p.last
      <4>1. m \in 1 .. n /\ (m = i \/ m < i) /\ blocks[m] \in Nat /\ blocks[i] \in Nat
        OBVIOUS
      <4>2. m < i => blocks[m] < blocks[i]
        BY <4>1, Zenon
      <4> QED BY <4>1, <4>2 DEF PlanOK
    <3>2. Reaches(rs[len + 1], blocks[m]) /\ len + 1 \in 1 .. len + 1
      BY <2>1, <3>1, <1>1, <1>2, <1>3 DEF Reaches
    <3> QED BY <3>2, Zenon
  <2>2. CASE \E j \in 1 .. len : Reaches(old[j], blocks[m])
    BY <2>2, <1>1, <1>3
  <2> QED BY <2>1, <2>2, Zenon DEF PlanOK, RunsOK, old, len
<1>9. ShutOK(rs, p.last, blocks, i)
  BY <1>3, <1>6, <1>7, <1>8, Zenon DEF ShutOK
<1> QED BY <1>9, Zenon DEF Shut, rs, old, run

\* The first block opens a request.
LEMMA BegunOK ==
  ASSUME NEW n \in Nat \ {0}, NEW blocks \in [1 .. n -> Nat]
  PROVE  PlanOK(BegunAt(blocks[1]), blocks, 1)
<1>1. blocks[1] \in Nat /\ <<>> \in Seq(Run) /\ Len(<<>>) = 0
  OBVIOUS
<1>2. 1 .. 0 = {} /\ \A m \in 1 .. 1 : m = 1
  OBVIOUS
<1> QED BY <1>1, <1>2 DEF BegunAt, PlanOK, RunsOK, Plan, Ascends

\* The next block joins the open request, or closes it and opens its own.
LEMMA TakenOK ==
  ASSUME NEW n \in Nat, NEW blocks \in [1 .. n -> Nat], NEW z \in Policy, NEW i \in 1 .. n,
         i + 1 \in 1 .. n, NEW p, PlanOK(p, blocks, i),
         \A j, k \in 1 .. n : j < k => blocks[j] < blocks[k]
  PROVE  PlanOK(Taken(p, blocks[i + 1], z), blocks, i + 1)
<1> DEFINE b == blocks[i + 1]
<1>1. /\ p \in Plan /\ p.first \in Nat /\ p.last \in Nat /\ p.runs \in Seq(Run)
      /\ b \in Nat /\ p.last < b /\ p.first <= p.last
  <2>1. i < i + 1 /\ blocks[i] < blocks[i + 1]
    OBVIOUS
  <2> QED BY <2>1, Zenon DEF PlanOK, Plan
<1>2. /\ \A m \in 1 .. i + 1 : m \in 1 .. i \/ m = i + 1
      /\ \A m \in 1 .. i : m \in 1 .. i + 1
      /\ i + 1 \in 1 .. i + 1
  OBVIOUS
<1>3. CASE Joins(p, b, z[1], z[2], z[3], z[4])
  <2> DEFINE q == [p EXCEPT !.last = b]
  <2>1. q \in Plan /\ q.runs = p.runs /\ q.first = p.first /\ q.last = b
    BY <1>1, Zenon DEF Plan
  <2>2. Taken(p, b, z) = q
    BY <1>3, Zenon DEF Taken
  <2> HIDE DEF q
  <2>3. p.first <= b
    BY <1>1
  <2>4. RunsOK(p.runs, p.first, blocks, i) /\ \E m \in 1 .. i : p.first = blocks[m]
    BY Zenon DEF PlanOK
  <2>5. RunsOK(p.runs, p.first, blocks, i + 1)
    BY Zenon, <1>2, <2>3, <2>4 DEF RunsOK
  <2>6. \E m \in 1 .. i + 1 : p.first = blocks[m]
    BY Zenon, <1>2, <2>4
  <2>7. PlanOK(q, blocks, i + 1)
    BY <2>1, <2>3, <2>5, <2>6, Zenon DEF PlanOK
  <2> QED BY <2>2, <2>7, Zenon
<1>4. CASE ~Joins(p, b, z[1], z[2], z[3], z[4])
  <2> DEFINE rs == Shut(p, z)
             q  == [runs |-> rs, first |-> b, last |-> b]
  <2>1. ShutOK(rs, p.last, blocks, i)
    BY ShutAscends, Zenon
  <2>2. Taken(p, b, z) = q
    BY <1>4, Zenon DEF Taken
  <2> HIDE DEF rs
  <2>3. rs \in Seq(Run) /\ Len(rs) \in Nat
    BY <2>1 DEF ShutOK, Ascends
  <2>4. q \in Plan /\ q.runs = rs /\ q.first = b /\ q.last = b /\ b <= b
    BY <1>1, <2>3 DEF Plan
  <2>5. \A j \in 1 .. Len(rs) : LastBlock(rs[j]) < b
    <3> TAKE j \in 1 .. Len(rs)
    <3>1. rs[j] \in Run
      BY <2>3
    <3>2. LastBlock(rs[j]) \in Int /\ LastBlock(rs[j]) <= p.last
      BY <2>1, <3>1 DEF ShutOK, Run, LastBlock
    <3> QED BY <1>1, <3>2
  <2> HIDE DEF q
  <2>6. RunsOK(rs, b, blocks, i + 1)
    BY Zenon, <1>2, <2>1, <2>4, <2>5 DEF RunsOK, ShutOK
  <2>7. PlanOK(q, blocks, i + 1)
    BY <1>2, <2>4, <2>6, Zenon DEF PlanOK
  <2> QED BY <2>2, <2>7
<1> QED BY <1>3, <1>4, Zenon

\* At every place of the walk the plan is right.
LEMMA WalkOK ==
  ASSUME NEW n \in Nat, NEW blocks \in [1 .. n -> Nat], NEW z \in Policy, NEW w,
         IsWalk(w, blocks, z), \A j, k \in 1 .. n : j < k => blocks[j] < blocks[k], NEW i \in 1 .. n
  PROVE  PlanOK(w[i], blocks, i)
<1> DEFINE Bad == {j \in 1 .. n : ~PlanOK(w[j], blocks, j)}
<1>1. SUFFICES ASSUME Bad # {} PROVE FALSE
  BY Zenon
<1>2. PICK k \in Bad : \A j \in Bad : k <= j
  <2>1. Bad \in SUBSET Nat
    OBVIOUS
  <2> HIDE DEF Bad
  <2> QED BY <1>1, <2>1, LeastNatural, Zenon
<1>3. k \in 1 .. n /\ ~PlanOK(w[k], blocks, k)
  BY <1>2, Zenon
<1>4. w[k] = IF k = 1 THEN BegunAt(blocks[1]) ELSE Taken(w[k - 1], blocks[k], z)
  BY <1>3, Zenon DEF IsWalk
<1>5. n \in Nat \ {0}
  BY <1>3
<1>6. k # 1
  BY <1>3, <1>4, <1>5, BegunOK, Zenon
<1>7. PICK j : j = k - 1
  BY Zenon
<1>8. j \in 1 .. n /\ j + 1 \in 1 .. n /\ k = j + 1 /\ ~(k <= j)
  BY <1>3, <1>6, <1>7
<1>9. j \notin Bad
  <2> HIDE DEF Bad
  <2> QED BY <1>2, <1>8, Zenon
<1>10. PlanOK(w[j], blocks, j)
  BY <1>8, <1>9, Zenon
<1>11. PlanOK(Taken(w[j], blocks[j + 1], z), blocks, j + 1)
  BY <1>8, <1>10, TakenOK, Zenon
<1> QED BY <1>3, <1>4, <1>6, <1>7, <1>8, <1>11, Zenon

\* PlanRuns fetches every block once, whatever the policy: the requests ascend
\* without touching, every block asked for is in one, and each starts and ends
\* on a block asked for.
THEOREM PlanCoversOnce ==
  ASSUME NEW S \in SUBSET Nat, IsFiniteSet(S), S # {}, NEW blockSize \in Nat \ {0},
         NEW assetSize \in Nat, NEW gapBlocks \in Nat, NEW maxRequestBytes \in Nat
  PROVE  LET rs == PlanRuns(Ascending(S), blockSize, assetSize, gapBlocks, maxRequestBytes)
         IN  /\ Ascends(rs)
             /\ \A b \in S : \E i \in 1 .. Len(rs) : Reaches(rs[i], b)
             /\ \A i \in 1 .. Len(rs) : rs[i].firstBlock \in S /\ LastBlock(rs[i]) \in S
<1> DEFINE z == <<blockSize, assetSize, gapBlocks, maxRequestBytes>>
           n == Cardinality(S)
           blocks == Ascending(S)
           rs == PlanRuns(blocks, z[1], z[2], z[3], z[4])
<1>1. z \in Policy
  BY Zenon DEF Policy
<1>2. /\ n \in Nat /\ blocks \in [1 .. n -> S]
      /\ \A i, j \in 1 .. n : i < j => blocks[i] < blocks[j]
      /\ \A b \in S : \E i \in 1 .. n : blocks[i] = b
  BY AscendingLists, Zenon
<1>3. n # 0
  BY FS_EmptySet, Zenon
<1> HIDE DEF z, n, blocks
<1>4. /\ blocks \in [1 .. n -> Nat] /\ n \in Nat \ {0} /\ DOMAIN blocks = 1 .. n
      /\ blocks \in Seq(Nat) /\ Len(blocks) = n /\ blocks # <<>>
  <2>1. blocks \in [1 .. n -> Nat] /\ n \in Nat \ {0} /\ DOMAIN blocks = 1 .. n
    BY <1>2, <1>3, Zenon
  <2>2. blocks \in Seq(Nat) /\ Len(blocks) = n
    BY <2>1
  <2> QED BY <2>1, <2>2, Zenon
<1>5. PICK w : w = CHOOSE v : IsWalk(v, blocks, z)
  BY Zenon
<1>6. IsWalk(w, blocks, z)
  BY <1>4, <1>5, WalkExists, Zenon
<1>7. \A i \in 1 .. n : PlanOK(w[i], blocks, i)
  BY <1>1, <1>2, <1>4, <1>6, WalkOK, Zenon
<1>8. PlanOK(w[n], blocks, n)
  BY <1>4, <1>7
<1>9. rs = Shut(w[n], z)
  BY <1>1, <1>4, <1>5, PlanUnfold, Zenon
<1>10. ShutOK(rs, w[n].last, blocks, n)
  <2>1. n \in Nat /\ n \in 1 .. n
    BY <1>4
  <2>2. \A j, k \in 1 .. n : j < k => blocks[j] < blocks[k]
    BY <1>2, Zenon
  <2> HIDE DEF rs
  <2> QED BY Zenon, <1>1, <1>4, <1>8, <1>9, <2>1, <2>2, ShutAscends
<1>11. z[1] = blockSize /\ z[2] = assetSize /\ z[3] = gapBlocks /\ z[4] = maxRequestBytes
  BY Zenon DEF z
<1>12. rs = PlanRuns(Ascending(S), blockSize, assetSize, gapBlocks, maxRequestBytes)
  BY <1>11, Zenon DEF blocks
<1> HIDE DEF rs
<1>13. \A j \in 1 .. Len(rs) : rs[j].firstBlock \in S /\ LastBlock(rs[j]) \in S
  <2>1. ASSUME NEW j \in 1 .. Len(rs)
        PROVE  rs[j].firstBlock \in S /\ LastBlock(rs[j]) \in S
    <3>1. PICK k \in 1 .. n, m \in 1 .. n : rs[j].firstBlock = blocks[k] /\ LastBlock(rs[j]) = blocks[m]
      BY <1>10, <2>1, Zenon DEF ShutOK
    <3>2. blocks[k] \in S /\ blocks[m] \in S
      BY <1>2, <3>1, Zenon
    <3> QED BY <3>1, <3>2, Zenon
  <2> QED BY <2>1, Zenon
<1>14. \A b \in S : \E j \in 1 .. Len(rs) : Reaches(rs[j], b)
  BY <1>2, <1>10, Zenon DEF ShutOK
<1> QED BY <1>10, <1>12, <1>13, <1>14, Zenon DEF ShutOK

------------------------------------------------------------------------------
\* A block holds the bytes its index times the block size and up.
LEMMA BlocksApart ==
  ASSUME NEW size \in Nat, NEW b \in Nat, NEW c \in Nat, b < c
  PROVE  b * size + size <= c * size /\ b * size \in Nat /\ c * size \in Nat
<1>1. PICK g \in Nat : c = b + 1 + g
  <2>1. c - b - 1 \in Nat /\ c = b + 1 + (c - b - 1)
    OBVIOUS
  <2> QED BY <2>1, Zenon
<1>2. c * size = b * size + size + g * size
  BY <1>1, SMT
<1>3. g * size \in Nat /\ b * size \in Nat /\ c * size \in Nat
  BY SMT
<1> QED BY <1>2, <1>3

\* The block of a byte.
IsBlockOf(b, x, size) == b \in Nat /\ b * size \in Nat /\ b * size <= x /\ x < b * size + size

LEMMA BlockOfByte ==
  ASSUME NEW x \in Nat, NEW size \in Nat \ {0}
  PROVE  IsBlockOf(x \div size, x, size)
<1>1. /\ x \div size \in Nat /\ (x \div size) * size <= x
      /\ x < (x \div size) * size + size
  BY SMT
<1>2. (x \div size) * size \in Nat
  BY <1>1, SMT
<1> QED BY <1>1, <1>2, Zenon DEF IsBlockOf

\* Bytes in order are in blocks in order.
LEMMA BlocksInOrder ==
  ASSUME NEW size \in Nat \ {0}, NEW x \in Nat, NEW y \in Nat, x <= y, NEW b, NEW c,
         IsBlockOf(b, x, size), IsBlockOf(c, y, size)
  PROVE  b <= c
<1>1. b \in Nat /\ c \in Nat /\ b * size <= x /\ y < c * size + size
  BY Zenon DEF IsBlockOf
<1>2. SUFFICES ASSUME c < b PROVE FALSE
  BY <1>1
<1>3. c * size + size <= b * size /\ b * size \in Nat /\ c * size \in Nat
  BY <1>1, <1>2, BlocksApart, Zenon
<1> QED BY <1>1, <1>3

\* The bytes of a block that are in the asset.
LEMMA ExtentBytes ==
  ASSUME NEW b \in Nat, NEW size \in Nat \ {0}, NEW assetSize \in Nat, NEW x \in Nat
  PROVE  LET e == ExtentOf(b, size, assetSize)
         IN  x \in e.offset .. e.offset + e.length - 1
               <=> x < assetSize /\ b * size <= x /\ x < b * size + size
<1> DEFINE start == b * size
           e == ExtentOf(b, size, assetSize)
<1>1. start \in Nat
  BY SMT
<1>2. /\ e.offset = start
      /\ e.length = IF start >= assetSize THEN 0
                    ELSE IF assetSize - start < size THEN assetSize - start ELSE size
  BY Zenon DEF ExtentOf
<1> HIDE DEF start, e
<1>3. x \in e.offset .. e.offset + e.length - 1
        <=> x < assetSize /\ start <= x /\ x < start + size
  BY <1>1, <1>2
<1> QED BY <1>3, Zenon DEF start, e

\* Of a range that ends inside the asset a block holds what is between its ends.
LEMMA WantedBytes ==
  ASSUME NEW low \in Nat, NEW length \in Nat, NEW size \in Nat \ {0}, NEW assetSize \in Nat,
         low + length <= assetSize, NEW r, r.offset = low, r.length = length, NEW b \in Nat, NEW x
  PROVE  x \in Wanted(r, b, size, assetSize)
           <=> x \in low .. low + length - 1 /\ b * size <= x /\ x < b * size + size
<1>1. CASE x \in low .. low + length - 1
  <2>1. x \in Nat /\ x < assetSize
    BY <1>1
  <2> QED BY <1>1, <2>1, ExtentBytes, Zenon DEF Wanted
<1>2. CASE x \notin low .. low + length - 1
  BY <1>2, Zenon DEF Wanted
<1> QED BY <1>1, <1>2, Zenon

\* Every read resolves to what it should, whatever the block size and whatever the
\* asset: a range in the asset, each byte of which is in exactly one of its
\* covering blocks, none of which is there in vain (ResolveReadRange,
\* CoveringBlocks, ExtentOf).
THEOREM RangesCovered ==
  ASSUME NEW offset \in Nat, NEW size \in Nat, NEW assetSize \in Nat, NEW limit \in Nat,
         NEW blockSize \in Nat \ {0}
  PROVE  RangeCovered(ResolveReadRange(offset, size, assetSize, limit),
                      offset, size, assetSize, blockSize, limit)
<1>1. PICK r : r = ResolveReadRange(offset, size, assetSize, limit)
  BY Zenon
<1>2. /\ r.outcome = "Overflow" <=> offset + size > limit
      /\ r.outcome = "Empty" => size = 0 \/ offset >= assetSize
      /\ r.outcome = "Transfer" =>
           /\ r.offset = offset /\ r.length \in Nat \ {0} /\ offset + r.length <= assetSize
           /\ r.length = (IF offset + size < assetSize THEN offset + size ELSE assetSize) - offset
  BY <1>1 DEF ResolveReadRange
<1>3. ASSUME r.outcome = "Transfer"
      PROVE  LET span == CoveringBlocks(r.offset, r.length, blockSize)
                 W(b) == Wanted(r, b, blockSize, assetSize)
             IN  /\ UNION {W(b) : b \in span} = r.offset .. r.offset + r.length - 1
                 /\ \A b \in span : W(b) # {}
                 /\ \A b, c \in span : b # c => W(b) \cap W(c) = {}
  <2> DEFINE W(b) == Wanted(r, b, blockSize, assetSize)
  <2>1. PICK length \in Nat \ {0} : r.length = length /\ offset + length <= assetSize
    BY <1>2, <1>3, Zenon
  <2>2. r.offset = offset
    BY <1>2, <1>3, Zenon
  <2>3. PICK last : last = offset + length - 1
    BY Zenon
  <2>4. last \in Nat /\ offset <= last
    BY <2>1, <2>3
  <2>5. PICK low, high : low = offset \div blockSize /\ high = last \div blockSize
    BY Zenon
  <2>6. IsBlockOf(low, offset, blockSize) /\ IsBlockOf(high, last, blockSize)
    BY <2>4, <2>5, BlockOfByte, Zenon
  <2>7. low \in Nat /\ high \in Nat
    BY <2>6, Zenon DEF IsBlockOf
  <2>8. CoveringBlocks(r.offset, r.length, blockSize) = low .. high
    BY <2>1, <2>2, <2>3, <2>5, Zenon DEF CoveringBlocks
  <2>9. ASSUME NEW b \in Nat, NEW x
        PROVE  x \in W(b) <=> x \in offset .. last /\ b * blockSize <= x /\ x < b * blockSize + blockSize
    BY <2>1, <2>2, <2>3, WantedBytes, Zenon
  <2> HIDE DEF W
  <2>10. \A b \in low .. high : b \in Nat /\ low <= b /\ b <= high
    BY <2>7
  <2>11. UNION {W(b) : b \in low .. high} = offset .. last
    <3>1. ASSUME NEW x \in offset .. last PROVE \E b \in low .. high : x \in W(b)
      <4>1. x \in Nat /\ offset <= x /\ x <= last
        BY <2>4
      <4>2. PICK b : IsBlockOf(b, x, blockSize)
        BY <4>1, BlockOfByte, Zenon
      <4>3. low <= b /\ b <= high
        BY <2>4, <2>6, <4>1, <4>2, BlocksInOrder, Zenon
      <4>4. b \in Nat /\ x \in W(b)
        BY <2>9, <4>2, Zenon DEF IsBlockOf
      <4>5. b \in low .. high
        BY <2>7, <4>3, <4>4
      <4> QED BY <4>4, <4>5, Zenon
    <3>2. \A b \in low .. high : \A x \in W(b) : x \in offset .. last
      BY <2>9, <2>10, Zenon
    <3> QED BY <3>1, <3>2, Zenon
  <2>12. ASSUME NEW b \in low .. high PROVE W(b) # {}
    <3>1. b \in Nat /\ b * blockSize \in Nat /\ low <= b /\ b <= high
      BY <2>10, SMT
    <3>2. b * blockSize <= last
      <4>1. b = high \/ b < high
        BY <2>7, <3>1
      <4>2. CASE b = high
        BY <2>6, <4>2, Zenon DEF IsBlockOf
      <4>3. CASE b < high
        <5>1. b * blockSize + blockSize <= high * blockSize /\ high * blockSize \in Nat
          BY <2>7, <3>1, <4>3, BlocksApart, Zenon
        <5> QED BY <2>4, <2>6, <3>1, <5>1 DEF IsBlockOf
      <4> QED BY <4>1, <4>2, <4>3, Zenon
    <3>3. offset < b * blockSize + blockSize
      <4>1. b = low \/ low < b
        BY <2>7, <3>1
      <4>2. CASE b = low
        BY <2>6, <4>2, Zenon DEF IsBlockOf
      <4>3. CASE low < b
        <5>1. low * blockSize + blockSize <= b * blockSize /\ low * blockSize \in Nat
          BY <2>7, <3>1, <4>3, BlocksApart, Zenon
        <5> QED BY <2>6, <3>1, <5>1 DEF IsBlockOf
      <4> QED BY <4>1, <4>2, <4>3, Zenon
    <3>4. PICK start \in Nat : start = b * blockSize
      BY <3>1, Zenon
    <3>5. PICK x : x = IF start < offset THEN offset ELSE start
      BY Zenon
    <3>6. x \in offset .. last /\ start <= x /\ x < start + blockSize
      BY <2>4, <3>2, <3>3, <3>4, <3>5
    <3>7. x \in W(b)
      BY <2>9, <3>1, <3>4, <3>6, Zenon
    <3> QED BY <3>7, Zenon
  <2>13. ASSUME NEW b \in low .. high, NEW c \in low .. high, b # c
         PROVE  W(b) \cap W(c) = {}
    <3>1. ASSUME NEW f \in Nat, NEW g \in Nat, f < g, NEW x \in W(f) \cap W(g) PROVE FALSE
      <4>1. f * blockSize + blockSize <= g * blockSize /\ f * blockSize \in Nat /\ g * blockSize \in Nat
        BY <3>1, BlocksApart, Zenon
      <4>2. x \in offset .. last /\ x < f * blockSize + blockSize /\ g * blockSize <= x
        BY <2>9, <3>1, Zenon
      <4> QED BY <2>4, <4>1, <4>2
    <3>2. b \in Nat /\ c \in Nat /\ (b < c \/ c < b)
      BY <2>7, <2>13
    <3> QED BY <3>1, <3>2, Zenon
  <2>14. r.offset + r.length - 1 = last
    BY <2>1, <2>2, <2>3, Zenon
  <2> QED BY <2>2, <2>8, <2>11, <2>12, <2>13, <2>14, Zenon DEF W
<1>4. RangeCovered(r, offset, size, assetSize, blockSize, limit)
  <2>1. CASE r.outcome = "Transfer"
    BY <1>2, <1>3, <2>1, Zenon DEF RangeCovered
  <2>2. CASE r.outcome # "Transfer"
    BY <1>2, <2>2, Zenon DEF RangeCovered
  <2> QED BY <2>1, <2>2, Zenon
<1> QED BY <1>1, <1>4, Zenon

------------------------------------------------------------------------------
\* Where a block ends: at the asset's end if it holds that, and past it where it
\* starts.
EndOf(b, size, assetSize) ==
  IF b * size >= assetSize THEN b * size
  ELSE IF assetSize - b * size < size THEN assetSize ELSE b * size + size

SpansTo(a, b, size, assetSize) ==
  /\ a * size \in Nat /\ b * size \in Nat /\ EndOf(b, size, assetSize) \in Nat
  /\ b * size <= EndOf(b, size, assetSize) /\ EndOf(b, size, assetSize) <= b * size + size
  /\ SpanBytes(a, b, size, assetSize) = EndOf(b, size, assetSize) - a * size
  /\ ExtentOf(b, size, assetSize).length = EndOf(b, size, assetSize) - b * size

LEMMA SpanIs ==
  ASSUME NEW a \in Nat, NEW b \in Nat, NEW size \in Nat \ {0}, NEW assetSize \in Nat
  PROVE  SpansTo(a, b, size, assetSize)
<1> DEFINE s == a * size
           t == b * size
           e == ExtentOf(b, size, assetSize)
           f == ExtentOf(a, size, assetSize)
<1>1. s \in Nat /\ t \in Nat
  BY SMT
<1>2. /\ e.offset = t /\ f.offset = s
      /\ e.length = IF t >= assetSize THEN 0
                    ELSE IF assetSize - t < size THEN assetSize - t ELSE size
  BY Zenon DEF ExtentOf
<1>3. SpanBytes(a, b, size, assetSize) = e.offset + e.length - f.offset
  BY Zenon DEF SpanBytes
<1>4. EndOf(b, size, assetSize) = IF t >= assetSize THEN t
                                  ELSE IF assetSize - t < size THEN assetSize ELSE t + size
  BY Zenon DEF EndOf
<1> HIDE DEF s, t, e, f
<1>5. /\ s \in Nat /\ EndOf(b, size, assetSize) \in Nat
      /\ t <= EndOf(b, size, assetSize) /\ EndOf(b, size, assetSize) <= t + size
      /\ SpanBytes(a, b, size, assetSize) = EndOf(b, size, assetSize) - s
      /\ e.length = EndOf(b, size, assetSize) - t
  BY <1>1, <1>2, <1>3, <1>4
<1> QED BY <1>1, <1>5, Zenon DEF s, t, e, SpansTo

\* A wider span has no fewer bytes.
LEMMA SpanGrows ==
  ASSUME NEW size \in Nat \ {0}, NEW assetSize \in Nat, NEW f \in Nat, NEW a \in Nat, NEW b \in Nat,
         NEW g \in Nat, f <= a, b <= g
  PROVE  /\ SpanBytes(a, b, size, assetSize) <= SpanBytes(f, g, size, assetSize)
         /\ SpanBytes(a, b, size, assetSize) \in Int /\ SpanBytes(f, g, size, assetSize) \in Int
<1>1. a * size \in Nat /\ f * size \in Nat /\ f * size <= a * size
  <2>1. f = a \/ f < a
    OBVIOUS
  <2>2. a * size \in Nat /\ f * size \in Nat
    BY SMT
  <2>3. CASE f < a
    BY <2>2, <2>3, BlocksApart
  <2> QED BY <2>1, <2>2, <2>3
<1>2. PICK p, q : p = EndOf(b, size, assetSize) /\ q = EndOf(g, size, assetSize)
  BY Zenon
<1>3. p \in Nat /\ q \in Nat /\ p <= q
  <2>1. b = g \/ b < g
    OBVIOUS
  <2>2. /\ p \in Nat /\ q \in Nat /\ g * size <= q /\ p <= b * size + size
        /\ b * size \in Nat /\ g * size \in Nat
    <3>1. SpansTo(a, b, size, assetSize) /\ SpansTo(f, g, size, assetSize)
      BY SpanIs, Zenon
    <3> QED BY <1>2, <3>1, Zenon DEF SpansTo
  <2>3. CASE b < g
    <3>1. b * size + size <= g * size
      BY <2>3, BlocksApart, Zenon
    <3> QED BY <2>2, <3>1
  <2>4. CASE b = g
    BY <1>2, <2>2, <2>4
  <2> QED BY <2>1, <2>2, <2>3, <2>4, Zenon
<1>4. /\ SpanBytes(a, b, size, assetSize) = p - a * size
      /\ SpanBytes(f, g, size, assetSize) = q - f * size
  <2>1. SpansTo(a, b, size, assetSize) /\ SpansTo(f, g, size, assetSize)
    BY SpanIs, Zenon
  <2> QED BY <1>2, <2>1, Zenon DEF SpansTo
<1> QED BY <1>1, <1>3, <1>4

\* A span is as many bytes as its blocks.
SpanSummed(first, last, size, assetSize) ==
  SpanBytes(first, last, size, assetSize)
    = SumFunctionOnSet([b \in first .. last |-> ExtentOf(b, size, assetSize).length], first .. last)
LEMMA SpanSums ==
  ASSUME NEW size \in Nat \ {0}, NEW assetSize \in Nat, NEW first \in Nat, NEW last \in Nat,
         first <= last, last * size < assetSize
  PROVE  SpanSummed(first, last, size, assetSize)
<1> DEFINE L(b) == ExtentOf(b, size, assetSize).length
           F(l) == [b \in first .. l |-> L(b)]
           Sums(l) == SpanBytes(first, l, size, assetSize) = SumFunctionOnSet(F(l), first .. l)
           Bad == {l \in first .. last : ~Sums(l)}
<1>1. ASSUME NEW b \in Nat PROVE L(b) \in Int
  <2>1. SpansTo(b, b, size, assetSize)
    BY SpanIs, Zenon
  <2> HIDE DEF L
  <2>2. L(b) = EndOf(b, size, assetSize) - b * size
    BY <2>1, Zenon DEF SpansTo, L
  <2> QED BY <2>1, <2>2 DEF SpansTo
<1>2. SUFFICES ASSUME Bad # {} PROVE FALSE
  <2>1. last \in first .. last
    OBVIOUS
  <2> QED BY <1>2, <2>1, Zenon DEF SpanSummed
<1>3. PICK l \in Bad : \A k \in Bad : l <= k
  <2>1. Bad \in SUBSET Nat
    OBVIOUS
  <2> HIDE DEF Bad
  <2> QED BY <1>2, <2>1, LeastNatural, Zenon
<1>4. l \in first .. last /\ l \in Nat /\ first <= l /\ l <= last /\ ~Sums(l)
  BY <1>3
<1>5. SpanBytes(l, l, size, assetSize) = L(l)
  <2>1. SpansTo(l, l, size, assetSize)
    BY <1>4, SpanIs, Zenon
  <2> QED BY <2>1, Zenon DEF SpansTo
<1>6. CASE l = first
  <2>1. first .. l = {} \cup {l} /\ l \notin {}
    BY <1>4, <1>6
  <2>2. SumsAdd({}) /\ SumsVanish({})
    BY FS_EmptySet, SumsObey, Zenon DEF SumLaws
  <2>3. F(l)[l] = L(l) /\ L(l) \in Int
    BY <1>1, <1>4
  <2> HIDE DEF F, L
  <2>4. SumFunctionOnSet(F(l), {} \cup {l}) = SumFunctionOnSet(F(l), {}) + F(l)[l]
    <3>1. \A x : x \notin {} /\ F(l)[x] \in Int /\ (\A y \in {} : F(l)[y] \in Int /\ F(l)[y] = F(l)[y])
            => SumFunctionOnSet(F(l), {} \cup {x}) = SumFunctionOnSet(F(l), {}) + F(l)[x]
      BY <2>2, Zenon DEF SumsAdd
    <3> QED BY <2>1, <2>3, <3>1, Zenon
  <2>5. SumFunctionOnSet(F(l), {}) = 0
    BY <2>2, Zenon DEF SumsVanish
  <2>6. SumFunctionOnSet(F(l), first .. l) = L(l)
    <3>1. SumFunctionOnSet(F(l), first .. l) = 0 + L(l)
      BY <2>1, <2>3, <2>4, <2>5, Zenon
    <3> QED BY <2>3, <3>1
  <2> QED BY <1>4, <1>5, <1>6, <2>6
<1>7. CASE first < l
  <2>1. PICK k : k = l - 1
    BY Zenon
  <2>2. k \in Nat /\ k \in first .. last /\ l = k + 1 /\ ~(l <= k) /\ first <= k /\ k < l
    BY <1>4, <1>7, <2>1
  <2>3. Sums(k)
    <3>1. k \notin Bad
      <4> HIDE DEF Bad
      <4> QED BY <1>3, <2>2, Zenon
    <3> QED BY <2>2, <3>1, Zenon
  <2>4. SumFunctionOnSet(F(l), first .. l) = SumFunctionOnSet(F(k), first .. k) + L(l)
    <3>1. IsFiniteSet(first .. k)
      <4>1. first \in Int /\ k \in Int
        BY <2>2
      <4> QED BY <4>1, FS_Interval, Zenon
    <3>2. SumsAdd(first .. k)
      BY <3>1, SumsObey, Zenon DEF SumLaws
    <3>3. /\ l \notin first .. k /\ F(l)[l] = L(l) /\ L(l) \in Int
          /\ \A b \in first .. k : F(k)[b] \in Int /\ F(l)[b] = F(k)[b]
      BY <1>1, <1>4, <2>2
    <3>4. first .. l = (first .. k) \cup {l}
      BY <1>4, <2>2
    <3> HIDE DEF F, L
    <3>5. SumFunctionOnSet(F(l), (first .. k) \cup {l}) = SumFunctionOnSet(F(k), first .. k) + F(l)[l]
      <4>1. \A x : x \notin first .. k /\ F(l)[x] \in Int
                    /\ (\A y \in first .. k : F(k)[y] \in Int /\ F(l)[y] = F(k)[y])
              => SumFunctionOnSet(F(l), (first .. k) \cup {x}) = SumFunctionOnSet(F(k), first .. k) + F(l)[x]
        BY <3>2, Zenon DEF SumsAdd
      <4> QED BY <3>3, <4>1, Zenon
    <3> QED BY <3>3, <3>4, <3>5, Zenon
  <2>5. SpanBytes(first, l, size, assetSize) = SpanBytes(first, k, size, assetSize) + L(l)
    <3>1. PICK p, q : p = EndOf(k, size, assetSize) /\ q = EndOf(l, size, assetSize)
      BY Zenon
    <3>2. /\ SpanBytes(first, l, size, assetSize) = q - first * size /\ L(l) = q - l * size
          /\ SpanBytes(first, k, size, assetSize) = p - first * size
          /\ p \in Nat /\ q \in Nat /\ first * size \in Nat
      <4>1. SpansTo(first, l, size, assetSize) /\ SpansTo(first, k, size, assetSize)
        BY <1>4, <2>2, SpanIs, Zenon
      <4> QED BY <3>1, <4>1, Zenon DEF SpansTo
    <3>3. l * size \in Nat /\ k * size \in Nat /\ l * size = k * size + size
      BY <1>4, <2>2, SMT
    <3>4. l * size < assetSize
      <4>1. l = last \/ l < last
        BY <1>4
      <4>2. CASE l < last
        <5>1. l * size + size <= last * size /\ last * size \in Nat
          BY <1>4, <4>2, BlocksApart, Zenon
        <5> QED BY <3>3, <5>1
      <4> QED BY <4>1, <4>2
    <3>5. p = l * size
      <4>1. PICK s, t : s = k * size /\ t = l * size
        BY Zenon
      <4>2. p = IF s >= assetSize THEN s ELSE IF assetSize - s < size THEN assetSize ELSE s + size
        BY <3>1, <4>1, Zenon DEF EndOf
      <4> QED BY <3>3, <3>4, <4>1, <4>2
    <3> HIDE DEF L
    <3> QED BY <3>2, <3>3, <3>5
  <2> HIDE DEF L, F
  <2> QED BY <1>4, <2>3, <2>4, <2>5, Zenon
<1> QED BY <1>4, <1>6, <1>7

------------------------------------------------------------------------------
\* What the policy z makes of the requests: each is that of its ends and within
\* the ceiling unless it is a single block, none spans a gap that is too wide,
\* and the first block of the next one was refused.
RunFits(run, z) ==
  /\ run = FetchRun(run.firstBlock, LastBlock(run), z[1], z[2])
  /\ \/ run.firstBlock = LastBlock(run)
     \/ SpanBytes(run.firstBlock, LastBlock(run), z[1], z[2]) <= z[4]
GapsFit(first, last, blocks, i, z) ==
  \A m \in 1 .. i - 1 :
    first <= blocks[m] /\ blocks[m + 1] <= last => blocks[m + 1] - blocks[m] - 1 <= z[3]
Refuses(first, last, b, z) ==
  ~(b - last - 1 <= z[3] /\ SpanBytes(first, b, z[1], z[2]) <= z[4])
RunGreedy(run, blocks, i, z) ==
  RunFits(run, z) /\ GapsFit(run.firstBlock, LastBlock(run), blocks, i, z)
Greedy(rs, blocks, i, z) ==
  /\ \A j \in 1 .. Len(rs) : RunGreedy(rs[j], blocks, i, z)
  /\ \A j \in 1 .. Len(rs) - 1 :
       Refuses(rs[j].firstBlock, LastBlock(rs[j]), rs[j + 1].firstBlock, z)

\* The open request of a plan and the ones before it.
OpenRun(p, z) == FetchRun(p.first, p.last, z[1], z[2])
LEMMA ShutIs ==
  ASSUME NEW p \in Plan, p.first <= p.last, NEW z \in Policy
  PROVE  /\ Len(p.runs) \in Nat /\ Len(Shut(p, z)) = Len(p.runs) + 1
         /\ Shut(p, z)[Len(p.runs) + 1] = OpenRun(p, z)
         /\ \A j \in 1 .. Len(p.runs) : Shut(p, z)[j] = p.runs[j]
         /\ OpenRun(p, z) \in Run
         /\ OpenRun(p, z).firstBlock = p.first /\ LastBlock(OpenRun(p, z)) = p.last
<1>1. p.runs \in Seq(Run) /\ p.first \in Nat /\ p.last \in Nat
  BY DEF Plan
<1>2. /\ OpenRun(p, z) \in Run
      /\ OpenRun(p, z).firstBlock = p.first /\ LastBlock(OpenRun(p, z)) = p.last
  BY <1>1, FetchRunType DEF OpenRun
<1>3. PICK run \in Run : run = OpenRun(p, z)
  BY <1>2, Zenon
<1>4. Shut(p, z) = Append(p.runs, run)
  BY <1>3, Zenon DEF Shut, OpenRun
<1>5. /\ Len(p.runs) \in Nat /\ Len(Append(p.runs, run)) = Len(p.runs) + 1
      /\ Append(p.runs, run)[Len(p.runs) + 1] = run
      /\ \A j \in 1 .. Len(p.runs) : Append(p.runs, run)[j] = p.runs[j]
  BY <1>1
<1> QED BY <1>2, <1>3, <1>4, <1>5, Zenon

\* One block is a request the policy allows.
LEMMA SingleGreedy ==
  ASSUME NEW n \in Nat, NEW blocks \in [1 .. n -> Nat], NEW z \in Policy, NEW i \in 1 .. n,
         \A j, k \in 1 .. n : j < k => blocks[j] < blocks[k], NEW b \in Nat
  PROVE  RunGreedy(FetchRun(b, b, z[1], z[2]), blocks, i, z)
<1>1. PICK run : run = FetchRun(b, b, z[1], z[2])
  BY Zenon
<1>2. run.firstBlock = b /\ LastBlock(run) = b
  BY <1>1, FetchRunType
<1>3. RunFits(run, z)
  BY <1>1, <1>2, Zenon DEF RunFits
<1>4. ASSUME NEW m \in 1 .. i - 1, b <= blocks[m], blocks[m + 1] <= b PROVE FALSE
  <2>1. m \in 1 .. n /\ m + 1 \in 1 .. n /\ m < m + 1
    OBVIOUS
  <2>2. blocks[m] < blocks[m + 1] /\ blocks[m] \in Nat /\ blocks[m + 1] \in Nat
    BY <2>1, Zenon
  <2> QED BY <1>4, <2>2
<1>5. GapsFit(b, b, blocks, i, z)
  BY <1>4, Zenon DEF GapsFit
<1> QED BY <1>1, <1>2, <1>3, <1>5, Zenon DEF RunGreedy

\* A closed request is not concerned by the next block.
LEMMA ClosedGreedy ==
  ASSUME NEW n \in Nat, NEW blocks \in [1 .. n -> Nat], NEW z, NEW i \in 1 .. n, i + 1 \in 1 .. n,
         NEW run, LastBlock(run) \in Int, LastBlock(run) < blocks[i + 1], RunGreedy(run, blocks, i, z)
  PROVE  RunGreedy(run, blocks, i + 1, z)
<1>1. ASSUME NEW m \in 1 .. (i + 1) - 1, run.firstBlock <= blocks[m], blocks[m + 1] <= LastBlock(run)
      PROVE  blocks[m + 1] - blocks[m] - 1 <= z[3]
  <2>1. m = i \/ m \in 1 .. i - 1
    OBVIOUS
  <2>2. m # i
    <3>1. blocks[i + 1] \in Nat
      BY Zenon
    <3>2. ~(blocks[i + 1] <= LastBlock(run))
      BY <3>1
    <3> QED BY <1>1, <3>2, Zenon
  <2> QED BY <1>1, <2>1, <2>2, Zenon DEF RunGreedy, GapsFit
<1>2. GapsFit(run.firstBlock, LastBlock(run), blocks, i + 1, z)
  BY <1>1, Zenon DEF GapsFit
<1> QED BY <1>2, Zenon DEF RunGreedy

\* The first block begins a plan that is greedy.
LEMMA BegunGreedy ==
  ASSUME NEW n \in Nat \ {0}, NEW blocks \in [1 .. n -> Nat], NEW z \in Policy,
         \A j, k \in 1 .. n : j < k => blocks[j] < blocks[k]
  PROVE  Greedy(Shut(BegunAt(blocks[1]), z), blocks, 1, z)
<1>1. PICK p : p = BegunAt(blocks[1])
  BY Zenon
<1>2. blocks[1] \in Nat /\ 1 \in 1 .. n /\ n \in Nat
  OBVIOUS
<1>3. p.runs = <<>> /\ p.first = blocks[1] /\ p.last = blocks[1]
  BY <1>1, Zenon DEF BegunAt
<1>4. PICK run : run = FetchRun(blocks[1], blocks[1], z[1], z[2])
  BY Zenon
<1>5. RunGreedy(run, blocks, 1, z)
  BY <1>2, <1>4, SingleGreedy, Zenon
<1>6. Shut(p, z) = Append(<<>>, run)
  BY <1>3, <1>4, Zenon DEF Shut
<1>7. Len(Append(<<>>, run)) = 1 /\ Append(<<>>, run)[1] = run
  OBVIOUS
<1>8. (\A j \in 1 .. 1 : j = 1) /\ 1 .. 1 - 1 = {}
  OBVIOUS
<1>9. Greedy(Append(<<>>, run), blocks, 1, z)
  BY <1>5, <1>7, <1>8, Zenon DEF Greedy
<1> QED BY <1>1, <1>6, <1>9, Zenon

\* The next block joins a request that stays within the policy, or was refused.
LEMMA TakenGreedy ==
  ASSUME NEW n \in Nat, NEW blocks \in [1 .. n -> Nat], NEW z \in Policy, NEW i \in 1 .. n,
         i + 1 \in 1 .. n, NEW p, PlanOK(p, blocks, i),
         \A j, k \in 1 .. n : j < k => blocks[j] < blocks[k],
         Greedy(Shut(p, z), blocks, i, z)
  PROVE  Greedy(Shut(Taken(p, blocks[i + 1], z), z), blocks, i + 1, z)
<1>1. PICK b \in Nat : b = blocks[i + 1]
  BY Zenon
<1>2. /\ p \in Plan /\ p.runs \in Seq(Run) /\ p.first \in Nat /\ p.last \in Nat
      /\ p.first <= p.last /\ p.last = blocks[i] /\ p.last < b
  <2>1. i < i + 1 /\ blocks[i] < blocks[i + 1]
    OBVIOUS
  <2> QED BY <1>1, <2>1, Zenon DEF PlanOK, Plan
<1>3. PICK len \in Nat : len = Len(p.runs)
  BY <1>2
<1>4. PICK old : old = Shut(p, z)
  BY Zenon
<1>5. PICK open : open = OpenRun(p, z)
  BY Zenon
<1>6. /\ Len(old) = len + 1 /\ old[len + 1] = open /\ \A j \in 1 .. len : old[j] = p.runs[j]
      /\ open.firstBlock = p.first /\ LastBlock(open) = p.last
  BY <1>2, <1>3, <1>4, <1>5, ShutIs, Zenon
<1>7. \A j \in 1 .. len + 1 : RunGreedy(old[j], blocks, i, z)
  BY <1>4, <1>6, Zenon DEF Greedy
<1>8. \A j \in 1 .. len :
        Refuses(old[j].firstBlock, LastBlock(old[j]), old[j + 1].firstBlock, z)
  <2>1. (len + 1) - 1 = len
    OBVIOUS
  <2> QED BY <1>4, <1>6, <2>1, Zenon DEF Greedy
<1>9. \A j \in 1 .. len + 1 : LastBlock(old[j]) \in Int /\ LastBlock(old[j]) < b
  <2>1. ShutOK(old, p.last, blocks, i)
    BY <1>4, ShutAscends, Zenon
  <2>2. old \in Seq(Run) /\ \A j \in 1 .. len + 1 : LastBlock(old[j]) <= p.last
    BY <1>6, <2>1, Zenon DEF ShutOK, Ascends
  <2>3. \A j \in 1 .. len + 1 : old[j] \in Run
    BY <1>6, <2>2
  <2>4. \A run \in Run : LastBlock(run) \in Int
    BY DEF LastBlock, Run
  <2>5. \A j \in 1 .. len + 1 : LastBlock(old[j]) \in Int
    BY <2>3, <2>4, Zenon
  <2> QED BY <1>2, <2>2, <2>5
<1>10. \A j \in 1 .. len + 1 : RunGreedy(old[j], blocks, i + 1, z)
  BY <1>1, <1>7, <1>9, ClosedGreedy, Zenon
<1>11. /\ \A j \in 1 .. len + 1 : j \in 1 .. len \/ j = len + 1
       /\ \A j \in 1 .. len : j \in 1 .. len + 1
       /\ len + 1 \in 1 .. len + 1 /\ (len + 1) - 1 = len /\ ~(len + 1 \in 1 .. len)
  OBVIOUS
<1>12. CASE Joins(p, b, z[1], z[2], z[3], z[4])
  <2>1. PICK q : q = [p EXCEPT !.last = b]
    BY Zenon
  <2>2. q \in Plan /\ q.runs = p.runs /\ q.first = p.first /\ q.last = b /\ q.first <= q.last
    <3>1. q \in Plan /\ q.runs = p.runs /\ q.first = p.first /\ q.last = b
      BY <1>2, <2>1, Zenon DEF Plan
    <3>2. p.first <= b
      BY <1>2
    <3> QED BY <3>1, <3>2, Zenon
  <2>3. Taken(p, b, z) = q
    BY <1>12, <2>1, Zenon DEF Taken
  <2>4. PICK new : new = Shut(q, z)
    BY Zenon
  <2>5. PICK run : run = OpenRun(q, z)
    BY Zenon
  <2>6. /\ Len(new) = len + 1 /\ new[len + 1] = run /\ \A j \in 1 .. len : new[j] = p.runs[j]
        /\ run.firstBlock = p.first /\ LastBlock(run) = b
    <3>1. /\ Len(Shut(q, z)) = Len(q.runs) + 1 /\ Shut(q, z)[Len(q.runs) + 1] = OpenRun(q, z)
          /\ \A j \in 1 .. Len(q.runs) : Shut(q, z)[j] = q.runs[j]
          /\ OpenRun(q, z).firstBlock = q.first /\ LastBlock(OpenRun(q, z)) = q.last
      BY <2>2, ShutIs, Zenon
    <3> QED BY <1>3, <2>2, <2>4, <2>5, <3>1, Zenon
  <2>7. RunFits(run, z)
    <3>1. run = FetchRun(run.firstBlock, LastBlock(run), z[1], z[2])
      BY <2>2, <2>5, <2>6, Zenon DEF OpenRun
    <3>2. SpanBytes(p.first, b, z[1], z[2]) <= z[4]
      BY <1>12, Zenon DEF Joins
    <3> QED BY <2>6, <3>1, <3>2, Zenon DEF RunFits
  <2>8. GapsFit(p.first, b, blocks, i + 1, z)
    <3>1. ASSUME NEW m \in 1 .. (i + 1) - 1, p.first <= blocks[m], blocks[m + 1] <= b
          PROVE  blocks[m + 1] - blocks[m] - 1 <= z[3]
      <4>1. m = i \/ m \in 1 .. i - 1
        OBVIOUS
      <4>2. CASE m = i
        BY <1>1, <1>2, <1>12, <4>2, Zenon DEF Joins
      <4>3. CASE m \in 1 .. i - 1
        <5>1. m + 1 \in 1 .. n /\ i \in 1 .. n /\ (m + 1 = i \/ m + 1 < i)
          BY <4>3
        <5>2. blocks[m + 1] \in Nat /\ blocks[i] \in Nat /\ (m + 1 < i => blocks[m + 1] < blocks[i])
          BY <5>1, Zenon
        <5>3. blocks[m + 1] <= p.last
          BY <1>2, <5>1, <5>2
        <5>4. GapsFit(p.first, p.last, blocks, i, z)
          BY <1>6, <1>7, <1>11, Zenon DEF RunGreedy
        <5> QED BY <3>1, <4>3, <5>3, <5>4, Zenon DEF GapsFit
      <4> QED BY <4>1, <4>2, <4>3, Zenon
    <3> QED BY <3>1, Zenon DEF GapsFit
  <2>9. RunGreedy(run, blocks, i + 1, z)
    BY <2>6, <2>7, <2>8, Zenon DEF RunGreedy
  <2>10. \A j \in 1 .. len + 1 : RunGreedy(new[j], blocks, i + 1, z)
    BY <1>6, <1>10, <1>11, <2>6, <2>9, Zenon
  <2>11. \A j \in 1 .. len + 1 : new[j].firstBlock = old[j].firstBlock
    BY <1>6, <1>11, <2>6, Zenon
  <2>12. ASSUME NEW j \in 1 .. len
         PROVE  Refuses(new[j].firstBlock, LastBlock(new[j]), new[j + 1].firstBlock, z)
    <3>1. j + 1 \in 1 .. len + 1 /\ j \in 1 .. len + 1
      OBVIOUS
    <3>2. new[j] = old[j] /\ new[j + 1].firstBlock = old[j + 1].firstBlock
      BY <1>6, <2>6, <2>11, <3>1, Zenon
    <3> QED BY <1>8, <3>2, Zenon
  <2>13. Greedy(new, blocks, i + 1, z)
    BY <1>11, <2>6, <2>10, <2>12, Zenon DEF Greedy
  <2> QED BY <1>1, <2>3, <2>4, <2>13, Zenon
<1>13. CASE ~Joins(p, b, z[1], z[2], z[3], z[4])
  <2>1. PICK q : q = [runs |-> old, first |-> b, last |-> b]
    BY Zenon
  <2>2. old \in Seq(Run)
    <3>1. ShutOK(old, p.last, blocks, i)
      BY <1>4, ShutAscends, Zenon
    <3> QED BY <3>1, Zenon DEF ShutOK, Ascends
  <2>3. q \in Plan /\ q.runs = old /\ q.first = b /\ q.last = b /\ q.first <= q.last
    BY <2>1, <2>2 DEF Plan
  <2>4. Taken(p, b, z) = q
    BY <1>4, <1>13, <2>1, Zenon DEF Taken
  <2>5. PICK new : new = Shut(q, z)
    BY Zenon
  <2>6. PICK run : run = FetchRun(b, b, z[1], z[2])
    BY Zenon
  <2>7. PICK more \in Nat : more = len + 1
    OBVIOUS
  <2>8. /\ Len(new) = more + 1 /\ new[more + 1] = run /\ \A j \in 1 .. more : new[j] = old[j]
        /\ run.firstBlock = b
    <3>1. OpenRun(q, z) = run
      BY <2>3, <2>6, Zenon DEF OpenRun
    <3> QED BY <1>6, <2>3, <2>5, <2>7, <3>1, ShutIs, Zenon
  <2>9. RunGreedy(run, blocks, i + 1, z)
    BY <2>6, SingleGreedy, Zenon
  <2>10. \A j \in 1 .. more + 1 : j \in 1 .. more \/ j = more + 1
    OBVIOUS
  <2>11. \A j \in 1 .. more + 1 : RunGreedy(new[j], blocks, i + 1, z)
    BY <1>10, <2>7, <2>8, <2>9, <2>10, Zenon
  <2>12. Refuses(p.first, p.last, b, z)
    BY <1>13, Zenon DEF Joins, Refuses
  <2>13. ASSUME NEW j \in 1 .. more
         PROVE  Refuses(new[j].firstBlock, LastBlock(new[j]), new[j + 1].firstBlock, z)
    <3>1. CASE j \in 1 .. len
      <4>1. j + 1 \in 1 .. more /\ j \in 1 .. more
        BY <2>7, <3>1
      <4> QED BY <1>8, <2>8, <3>1, <4>1, Zenon
    <3>2. CASE j = len + 1
      BY <1>6, <2>7, <2>8, <2>12, <3>2, Zenon
    <3> QED BY <1>11, <2>7, <3>1, <3>2, Zenon
  <2>14. (more + 1) - 1 = more
    OBVIOUS
  <2>15. Greedy(new, blocks, i + 1, z)
    BY <2>8, <2>11, <2>13, <2>14, Zenon DEF Greedy
  <2> QED BY <1>1, <2>4, <2>5, <2>15, Zenon
<1> QED BY <1>12, <1>13, Zenon

LEMMA WalkGreedy ==
  ASSUME NEW n \in Nat, NEW blocks \in [1 .. n -> Nat], NEW z \in Policy, NEW w,
         IsWalk(w, blocks, z), \A j, k \in 1 .. n : j < k => blocks[j] < blocks[k], NEW i \in 1 .. n
  PROVE  Greedy(Shut(w[i], z), blocks, i, z)
<1> DEFINE Bad == {j \in 1 .. n : ~Greedy(Shut(w[j], z), blocks, j, z)}
<1>1. SUFFICES ASSUME Bad # {} PROVE FALSE
  BY Zenon
<1>2. PICK k \in Bad : \A j \in Bad : k <= j
  <2>1. Bad \in SUBSET Nat
    OBVIOUS
  <2> HIDE DEF Bad
  <2> QED BY <1>1, <2>1, LeastNatural, Zenon
<1>3. k \in 1 .. n /\ ~Greedy(Shut(w[k], z), blocks, k, z)
  BY <1>2, Zenon
<1>4. w[k] = IF k = 1 THEN BegunAt(blocks[1]) ELSE Taken(w[k - 1], blocks[k], z)
  BY <1>3, Zenon DEF IsWalk
<1>5. n \in Nat \ {0}
  BY <1>3
<1>6. k # 1
  BY <1>3, <1>4, <1>5, BegunGreedy, Zenon
<1>7. PICK j : j = k - 1
  BY Zenon
<1>8. j \in 1 .. n /\ j + 1 \in 1 .. n /\ k = j + 1 /\ ~(k <= j)
  BY <1>3, <1>6, <1>7
<1>9. j \notin Bad
  <2> HIDE DEF Bad
  <2> QED BY <1>2, <1>8, Zenon
<1>10. Greedy(Shut(w[j], z), blocks, j, z) /\ PlanOK(w[j], blocks, j)
  BY <1>8, <1>9, WalkOK, Zenon
<1>11. Greedy(Shut(Taken(w[j], blocks[j + 1], z), z), blocks, j + 1, z)
  BY <1>8, <1>10, TakenGreedy, Zenon
<1> QED BY <1>3, <1>4, <1>6, <1>7, <1>8, <1>11, Zenon

------------------------------------------------------------------------------
\* The plan in terms of the set of blocks alone.
Adjacent(a, b, S) == a < b /\ \A c \in S : c <= a \/ b <= c
PlanShape(rs, S, z) ==
  /\ Ascends(rs)
  /\ \A b \in S : \E j \in 1 .. Len(rs) : Reaches(rs[j], b)
  /\ \A j \in 1 .. Len(rs) :
       /\ rs[j].firstBlock \in S /\ LastBlock(rs[j]) \in S /\ rs[j].firstBlock <= LastBlock(rs[j])
       /\ RunFits(rs[j], z)
       /\ \A a, b \in S : Adjacent(a, b, S) /\ Reaches(rs[j], a) /\ Reaches(rs[j], b)
                            => b - a - 1 <= z[3]
  /\ \A j \in 1 .. Len(rs) - 1 :
       Refuses(rs[j].firstBlock, LastBlock(rs[j]), rs[j + 1].firstBlock, z)

LEMMA PlanShaped ==
  ASSUME NEW S \in SUBSET Nat, IsFiniteSet(S), S # {}, NEW z \in Policy
  PROVE  PlanShape(PlanRuns(Ascending(S), z[1], z[2], z[3], z[4]), S, z)
<1>1. PICK n, blocks, rs : /\ n = Cardinality(S) /\ blocks = Ascending(S)
                           /\ rs = PlanRuns(blocks, z[1], z[2], z[3], z[4])
  BY Zenon
<1>2. /\ n \in Nat /\ blocks \in [1 .. n -> S]
      /\ \A i, j \in 1 .. n : i < j => blocks[i] < blocks[j]
      /\ \A b \in S : \E i \in 1 .. n : blocks[i] = b
  BY <1>1, AscendingLists, Zenon
<1>3. n # 0
  BY <1>1, FS_EmptySet, Zenon
<1>4. /\ blocks \in [1 .. n -> Nat] /\ Len(blocks) = n /\ blocks # <<>> /\ n \in 1 .. n
  <2>1. blocks \in [1 .. n -> Nat] /\ n \in Nat \ {0} /\ DOMAIN blocks = 1 .. n
    BY <1>2, <1>3, Zenon
  <2>2. blocks \in Seq(Nat) /\ Len(blocks) = n /\ n \in 1 .. n
    BY <2>1
  <2>3. 1 .. n # {}
    BY <2>2, Zenon
  <2> QED BY <2>1, <2>2, <2>3
<1>5. PICK w : w = CHOOSE v : IsWalk(v, blocks, z)
  BY Zenon
<1>6. IsWalk(w, blocks, z)
  BY <1>2, <1>4, <1>5, WalkExists, Zenon
<1>7. rs = Shut(w[n], z)
  BY <1>1, <1>4, <1>5, PlanUnfold, Zenon
<1>8. PlanOK(w[n], blocks, n) /\ Greedy(rs, blocks, n, z)
  BY <1>2, <1>4, <1>6, <1>7, WalkOK, WalkGreedy, Zenon
<1>9. ShutOK(rs, w[n].last, blocks, n)
  BY <1>2, <1>4, <1>7, <1>8, ShutAscends, Zenon
<1>10. Ascends(rs) /\ Len(rs) \in Nat /\ \A j \in 1 .. Len(rs) : rs[j] \in Run
  BY <1>9 DEF ShutOK, Ascends
<1>11. \A b \in S : \E j \in 1 .. Len(rs) : Reaches(rs[j], b)
  BY <1>2, <1>9, Zenon DEF ShutOK
<1>12. ASSUME NEW j \in 1 .. Len(rs)
       PROVE  /\ rs[j].firstBlock \in S /\ LastBlock(rs[j]) \in S /\ rs[j].firstBlock <= LastBlock(rs[j])
              /\ RunGreedy(rs[j], blocks, n, z)
  <2>1. PICK k \in 1 .. n, m \in 1 .. n : rs[j].firstBlock = blocks[k] /\ LastBlock(rs[j]) = blocks[m]
    BY <1>9, <1>12, Zenon DEF ShutOK
  <2>2. blocks[k] \in S /\ blocks[m] \in S
    BY <1>2, <2>1, Zenon
  <2>3. rs[j].firstBlock <= LastBlock(rs[j])
    BY <1>10, <1>12 DEF Run, LastBlock
  <2> QED BY <1>8, <2>1, <2>2, <2>3, Zenon DEF Greedy
<1>13. ASSUME NEW j \in 1 .. Len(rs), NEW a \in S, NEW b \in S, Adjacent(a, b, S),
              Reaches(rs[j], a), Reaches(rs[j], b)
       PROVE  b - a - 1 <= z[3]
  <2>1. PICK m \in 1 .. n, k \in 1 .. n : blocks[m] = a /\ blocks[k] = b
    BY <1>2, Zenon
  <2>2. a \in Nat /\ b \in Nat /\ a < b
    BY <1>13, Zenon DEF Adjacent
  <2>3. m < k
    <3>1. m = k \/ m < k \/ k < m
      OBVIOUS
    <3>2. k < m => b < a
      BY <1>2, <2>1, Zenon
    <3> QED BY <2>1, <2>2, <3>1, <3>2
  <2>4. k = m + 1
    <3>1. SUFFICES ASSUME m + 1 < k PROVE FALSE
      BY <2>3
    <3>2. m + 1 \in 1 .. n /\ m < m + 1
      BY <1>2, <3>1
    <3>3. blocks[m] < blocks[m + 1] /\ blocks[m + 1] < blocks[k] /\ blocks[m + 1] \in S
      BY <1>2, <3>1, <3>2, Zenon
    <3>4. blocks[m + 1] <= a \/ b <= blocks[m + 1]
      BY <1>13, <3>3, Zenon DEF Adjacent
    <3>5. blocks[m + 1] \in Nat
      BY <3>3, Zenon
    <3> QED BY <2>1, <2>2, <3>3, <3>4, <3>5
  <2>5. m \in 1 .. n - 1
    BY <1>2, <2>4
  <2>6. rs[j].firstBlock <= a /\ b <= LastBlock(rs[j])
    BY <1>13, Zenon DEF Reaches
  <2>7. GapsFit(rs[j].firstBlock, LastBlock(rs[j]), blocks, n, z)
    BY <1>12, <1>13, Zenon DEF RunGreedy
  <2> QED BY <2>1, <2>4, <2>5, <2>6, <2>7, Zenon DEF GapsFit
<1>14. \A j \in 1 .. Len(rs) - 1 :
         Refuses(rs[j].firstBlock, LastBlock(rs[j]), rs[j + 1].firstBlock, z)
  BY <1>8, Zenon DEF Greedy
<1>15. PlanShape(rs, S, z)
  BY <1>10, <1>11, <1>12, <1>13, <1>14, Zenon DEF PlanShape, RunGreedy
<1> QED BY <1>1, <1>15, Zenon

\* The order of the requests and their blocks.
LEMMA ShapeOrder ==
  ASSUME NEW S \in SUBSET Nat, NEW z, NEW rs, PlanShape(rs, S, z)
  PROVE  /\ Len(rs) \in Nat /\ rs \in Seq(Run)
         /\ \A j \in 1 .. Len(rs) :
              /\ rs[j] \in Run /\ rs[j].firstBlock \in Nat /\ LastBlock(rs[j]) \in Nat
              /\ rs[j].firstBlock <= LastBlock(rs[j])
         /\ \A j, k \in 1 .. Len(rs) : j < k => LastBlock(rs[j]) < rs[k].firstBlock
<1>1. Len(rs) \in Nat /\ rs \in Seq(Run) /\ \A j \in 1 .. Len(rs) : rs[j] \in Run
  BY DEF PlanShape, Ascends
<1> QED BY <1>1, Zenon DEF PlanShape, Ascends

\* A block asked for that is not past a request's end and not before its start is
\* in that one.
LEMMA ShapeReach ==
  ASSUME NEW S \in SUBSET Nat, NEW z, NEW rs, PlanShape(rs, S, z), NEW j \in 1 .. Len(rs),
         NEW b \in S, rs[j].firstBlock <= b,
         \A k \in 1 .. Len(rs) : j < k => b < rs[k].firstBlock
  PROVE  Reaches(rs[j], b)
<1>1. PICK k \in 1 .. Len(rs) : Reaches(rs[k], b)
  BY Zenon DEF PlanShape
<1>2. b \in Nat /\ rs[k].firstBlock <= b /\ b <= LastBlock(rs[k])
  BY <1>1, Zenon DEF Reaches
<1>3. /\ Len(rs) \in Nat /\ rs[k].firstBlock \in Nat /\ rs[j].firstBlock \in Nat
      /\ LastBlock(rs[k]) \in Nat
  BY ShapeOrder, Zenon
<1>4. k = j \/ k < j \/ j < k
  BY <1>3
<1>5. ~(j < k)
  <2>1. SUFFICES ASSUME j < k PROVE FALSE
    BY Zenon
  <2>2. b < rs[k].firstBlock
    BY <2>1, Zenon
  <2> QED BY <1>2, <1>3, <2>2
<1>6. ~(k < j)
  <2>1. SUFFICES ASSUME k < j PROVE FALSE
    BY Zenon
  <2>2. LastBlock(rs[k]) < rs[j].firstBlock
    BY <2>1, ShapeOrder, Zenon
  <2> QED BY <1>2, <1>3, <2>2
<1> QED BY <1>1, <1>4, <1>5, <1>6, Zenon

\* A plan fetches the bytes of the blocks asked for, once each: for any blocks
\* of the asset and any policy, every block is in a request, every request
\* starts and ends with a block asked for and is the bytes of its blocks, none
\* of them is empty or past the asset's end, and they ascend without touching
\* (PlanRuns in BlockPlan.cpp).
THEOREM PlansFetch ==
  ASSUME NEW S \in SUBSET Nat, IsFiniteSet(S), S # {}, NEW blockSize \in Nat \ {0},
         NEW assetSize \in Nat, NEW gapBlocks \in Nat, NEW maxRequestBytes \in Nat,
         \A b \in S : b * blockSize < assetSize
  PROVE  PlanFetches(PlanRuns(Ascending(S), blockSize, assetSize, gapBlocks, maxRequestBytes),
                     S, blockSize, assetSize)
<1>1. PICK z : z = <<blockSize, assetSize, gapBlocks, maxRequestBytes>>
  BY Zenon
<1>2. /\ z \in Policy
      /\ z[1] = blockSize /\ z[2] = assetSize /\ z[3] = gapBlocks /\ z[4] = maxRequestBytes
  BY <1>1, Zenon DEF Policy
<1>3. PICK rs : rs = PlanRuns(Ascending(S), blockSize, assetSize, gapBlocks, maxRequestBytes)
  BY Zenon
<1>4. PlanShape(rs, S, z)
  BY <1>2, <1>3, PlanShaped, Zenon
<1>5. /\ Len(rs) \in Nat /\ rs \in Seq(Run)
      /\ \A j \in 1 .. Len(rs) :
           /\ rs[j] \in Run /\ rs[j].firstBlock \in Nat /\ LastBlock(rs[j]) \in Nat
           /\ rs[j].firstBlock <= LastBlock(rs[j])
      /\ \A j, k \in 1 .. Len(rs) : j < k => LastBlock(rs[j]) < rs[k].firstBlock
  BY <1>4, ShapeOrder, Zenon
<1>6. DOMAIN rs = 1 .. Len(rs)
  BY <1>5
<1>7. S \subseteq UNION {RunBlocks(rs[i]) : i \in DOMAIN rs}
  <2>1. SUFFICES ASSUME NEW b \in S PROVE \E i \in 1 .. Len(rs) : b \in RunBlocks(rs[i])
    BY <1>6, Zenon
  <2>2. PICK i \in 1 .. Len(rs) : Reaches(rs[i], b)
    BY <1>4, Zenon DEF PlanShape
  <2>3. rs[i].firstBlock \in Nat /\ LastBlock(rs[i]) \in Nat /\ b \in Nat
    BY <1>5, Zenon
  <2>4. b \in RunBlocks(rs[i])
    BY <2>2, <2>3 DEF Reaches, RunBlocks
  <2> QED BY <2>4, Zenon
<1>8. ASSUME NEW i \in 1 .. Len(rs)
      PROVE  /\ {rs[i].firstBlock, LastBlock(rs[i])} \subseteq S
             /\ rs[i].length > 0
             /\ rs[i].offset + rs[i].length <= assetSize
             /\ rs[i].length
                  = SumFunctionOnSet([b \in RunBlocks(rs[i]) |->
                                        ExtentOf(b, blockSize, assetSize).length], RunBlocks(rs[i]))
             /\ i > 1 => LastBlock(rs[i - 1]) < rs[i].firstBlock
  <2>1. PICK run, f, l : run = rs[i] /\ f = run.firstBlock /\ l = LastBlock(run)
    BY Zenon
  <2>2. f \in S /\ l \in S /\ f <= l /\ f \in Nat /\ l \in Nat /\ RunFits(run, z)
    BY <1>4, <1>5, <2>1, Zenon DEF PlanShape
  <2>3. run = FetchRun(f, l, blockSize, assetSize)
    BY <1>2, <2>1, <2>2, Zenon DEF RunFits
  <2>4. run.length = SpanBytes(f, l, blockSize, assetSize) /\ run.offset = f * blockSize
    BY <2>3, Zenon DEF FetchRun, ExtentOf
  <2>5. f * blockSize < assetSize /\ l * blockSize < assetSize
    BY <2>2, Zenon
  <2>6. RunBlocks(run) = f .. l
    BY <2>1, Zenon DEF RunBlocks
  <2>7. run.length = SumFunctionOnSet([b \in f .. l |-> ExtentOf(b, blockSize, assetSize).length], f .. l)
    <3>1. SpanSummed(f, l, blockSize, assetSize)
      BY <2>2, <2>5, SpanSums, Zenon
    <3> QED BY <2>4, <3>1, Zenon DEF SpanSummed
  <2>8. run.length > 0 /\ run.offset + run.length <= assetSize
    <3>1. SpansTo(f, l, blockSize, assetSize)
      BY <2>2, SpanIs, Zenon
    <3>2. PICK s, t, e : s = f * blockSize /\ t = l * blockSize /\ e = EndOf(l, blockSize, assetSize)
      BY Zenon
    <3>3. s \in Nat /\ t \in Nat /\ e \in Nat /\ run.length = e - s /\ run.offset = s /\ t < assetSize
      BY <2>4, <2>5, <3>1, <3>2, Zenon DEF SpansTo
    <3>4. e = IF t >= assetSize THEN t
              ELSE IF assetSize - t < blockSize THEN assetSize ELSE t + blockSize
      BY <3>2, Zenon DEF EndOf
    <3>5. s <= t
      <4>1. f = l \/ f < l
        BY <2>2
      <4>2. CASE f < l
        BY <2>2, <3>2, <3>3, <4>2, BlocksApart
      <4> QED BY <3>2, <3>3, <4>1, <4>2
    <3> QED BY <3>3, <3>4, <3>5
  <2>9. i > 1 => LastBlock(rs[i - 1]) < run.firstBlock
    <3>1. SUFFICES ASSUME i > 1 PROVE LastBlock(rs[i - 1]) < rs[i].firstBlock
      BY <2>1, Zenon
    <3>2. i - 1 \in 1 .. Len(rs) /\ i - 1 < i
      BY <1>5, <3>1
    <3> QED BY <1>5, <3>2, Zenon
  <2>10. {f, l} \subseteq S
    BY <2>2, Zenon
  <2> QED BY <2>1, <2>6, <2>7, <2>8, <2>9, <2>10, Zenon
<1>9. PlanFetches(rs, S, blockSize, assetSize)
  BY <1>6, <1>7, <1>8, Zenon DEF PlanFetches
<1> QED BY <1>3, <1>9, Zenon

\* The firsts of the requests cut the blocks into the requests' groups.
LEMMA GroupReached ==
  ASSUME NEW S \in SUBSET Nat, NEW z, NEW rs, PlanShape(rs, S, z), NEW j \in 1 .. Len(rs),
         NEW b \in GroupOf(S, {rs[i].firstBlock : i \in 1 .. Len(rs)}, rs[j].firstBlock)
  PROVE  b \in S /\ Reaches(rs[j], b)
<1>1. /\ b \in S /\ b >= rs[j].firstBlock
      /\ \A i \in 1 .. Len(rs) : rs[i].firstBlock > rs[j].firstBlock => b < rs[i].firstBlock
  BY Zenon DEF GroupOf
<1>2. ASSUME NEW k \in 1 .. Len(rs), j < k PROVE b < rs[k].firstBlock
  <2>1. LastBlock(rs[j]) < rs[k].firstBlock
    BY <1>2, ShapeOrder, Zenon
  <2>2. /\ rs[j].firstBlock \in Nat /\ LastBlock(rs[j]) \in Nat /\ rs[k].firstBlock \in Nat
        /\ rs[j].firstBlock <= LastBlock(rs[j])
    BY ShapeOrder, Zenon
  <2>3. rs[k].firstBlock > rs[j].firstBlock
    BY <2>1, <2>2
  <2> QED BY <1>1, <2>3, Zenon
<1>3. rs[j].firstBlock <= b
  <2>1. b \in Nat /\ rs[j].firstBlock \in Nat
    BY <1>1, ShapeOrder, Zenon
  <2> QED BY <1>1, <2>1
<1> QED BY <1>1, <1>2, <1>3, ShapeReach, Zenon

\* The group of a request holds every block of the plan between two of its own.
LEMMA GroupConvex ==
  ASSUME NEW S \in SUBSET Nat, NEW cut \in SUBSET S, NEW f \in cut, NEW a \in GroupOf(S, cut, f),
         NEW b \in GroupOf(S, cut, f), NEW c \in S, a < c, c < b
  PROVE  c \in GroupOf(S, cut, f)
<1>1. /\ a \in Nat /\ b \in Nat /\ c \in Nat /\ f \in Nat /\ a >= f
      /\ \A d \in cut : d > f => b < d
  BY Zenon DEF GroupOf
<1>2. c >= f
  BY <1>1
<1>3. ASSUME NEW d \in cut, d > f PROVE c < d
  <2>1. b < d /\ d \in Nat
    BY <1>1, <1>3, Zenon
  <2> QED BY <1>1, <2>1
<1> QED BY <1>2, <1>3, Zenon DEF GroupOf

\* The plan's own cut obeys the policy.
LEMMA ShapeLegal ==
  ASSUME NEW S \in SUBSET Nat, NEW z \in Policy, NEW rs, PlanShape(rs, S, z)
  PROVE  LegalCut(S, {rs[i].firstBlock : i \in 1 .. Len(rs)}, z[1], z[2], z[3], z[4])
<1>1. PICK cut : cut = {rs[i].firstBlock : i \in 1 .. Len(rs)}
  BY Zenon
<1>2. z[1] \in Nat \ {0} /\ z[2] \in Nat /\ z[3] \in Nat /\ z[4] \in Nat
  BY DEF Policy
<1>3. cut \in SUBSET S
  BY <1>1, Zenon DEF PlanShape
<1>4. ASSUME NEW j \in 1 .. Len(rs), NEW a \in GroupOf(S, cut, rs[j].firstBlock),
             NEW b \in GroupOf(S, cut, rs[j].firstBlock), a < b
      PROVE  /\ SpanBytes(a, b, z[1], z[2]) <= z[4]
             /\ (\A c \in GroupOf(S, cut, rs[j].firstBlock) : c <= a \/ b <= c) => b - a - 1 <= z[3]
  <2>1. PICK f, l : f = rs[j].firstBlock /\ l = LastBlock(rs[j])
    BY Zenon
  <2>2. a \in S /\ b \in S /\ Reaches(rs[j], a) /\ Reaches(rs[j], b)
    BY <1>1, GroupReached, Zenon
  <2>3. a \in Nat /\ b \in Nat /\ f <= a /\ a <= l /\ f <= b /\ b <= l
    BY <2>1, <2>2, Zenon DEF Reaches
  <2>4. f \in Nat /\ l \in Nat
    BY <2>1, ShapeOrder, Zenon
  <2>5. RunFits(rs[j], z)
    BY Zenon DEF PlanShape
  <2>6. SpanBytes(a, b, z[1], z[2]) <= z[4]
    <3>1. f # l
      BY <1>4, <2>3, <2>4
    <3>2. SpanBytes(f, l, z[1], z[2]) <= z[4]
      BY <2>1, <2>5, <3>1, Zenon DEF RunFits
    <3>3. PICK u, v : u = SpanBytes(a, b, z[1], z[2]) /\ v = SpanBytes(f, l, z[1], z[2])
      BY Zenon
    <3>4. u <= v /\ u \in Int /\ v \in Int
      BY <1>2, <2>3, <2>4, <3>3, SpanGrows, Zenon
    <3> QED BY <1>2, <3>2, <3>3, <3>4
  <2>7. ASSUME \A c \in GroupOf(S, cut, rs[j].firstBlock) : c <= a \/ b <= c
        PROVE  b - a - 1 <= z[3]
    <3>1. ASSUME NEW c \in S PROVE c <= a \/ b <= c
      <4>1. SUFFICES ASSUME a < c, c < b PROVE FALSE
        <5>1. c \in Nat
          BY Zenon
        <5> QED BY <2>3, <4>1, <5>1
      <4>2. rs[j].firstBlock \in cut
        BY <1>1, Zenon
      <4>3. c \in GroupOf(S, cut, rs[j].firstBlock)
        BY <1>3, <1>4, <4>1, <4>2, GroupConvex, Zenon
      <4>4. c <= a \/ b <= c
        BY <2>7, <4>3, Zenon
      <4>5. c \in Nat
        BY Zenon
      <4> QED BY <2>3, <4>1, <4>4, <4>5
    <3>2. Adjacent(a, b, S)
      BY <1>4, <3>1, Zenon DEF Adjacent
    <3> QED BY <2>2, <3>2, Zenon DEF PlanShape
  <2> QED BY <2>6, <2>7, Zenon
<1>5. LegalCut(S, cut, z[1], z[2], z[3], z[4])
  <2>1. SUFFICES ASSUME NEW f \in cut
                 PROVE  AllowedGroup(GroupOf(S, cut, f), z[1], z[2], z[3], z[4])
    BY Zenon DEF LegalCut
  <2>2. PICK j \in 1 .. Len(rs) : f = rs[j].firstBlock
    BY <1>1, Zenon
  <2> QED BY <1>4, <2>2, Zenon DEF AllowedGroup
<1> QED BY <1>1, <1>5, Zenon

\* Any cut that obeys the policy starts a group after each request's first block
\* and no later than the next one's: between them the policy forbids to go on.
Meets(c, rs, j) == c <= rs[j].firstBlock /\ (j > 1 => rs[j - 1].firstBlock < c)
LEMMA CutMeets ==
  ASSUME NEW S \in SUBSET Nat, IsFiniteSet(S), NEW z \in Policy, NEW rs, PlanShape(rs, S, z),
         NEW cut \in CutsOf(S), LegalCut(S, cut, z[1], z[2], z[3], z[4]), NEW j \in 1 .. Len(rs)
  PROVE  \E c \in cut : Meets(c, rs, j)
<1>1. cut \in SUBSET S /\ \A b \in S : \E c \in cut : c <= b
  BY Zenon DEF CutsOf
<1>2. rs[j].firstBlock \in S /\ rs[j].firstBlock \in Nat /\ Len(rs) \in Nat
  BY ShapeOrder, Zenon DEF PlanShape
<1>3. CASE j = 1
  <2>1. PICK c \in cut : c <= rs[j].firstBlock
    BY <1>1, <1>2, Zenon
  <2>2. ~(j > 1)
    BY <1>3
  <2> QED BY <2>1, <2>2, Zenon DEF Meets
<1>4. CASE j > 1
  <2>1. PICK k : k = j - 1
    BY Zenon
  <2>2. k \in 1 .. Len(rs) - 1 /\ k \in 1 .. Len(rs) /\ j = k + 1 /\ k < j
    BY <1>2, <1>4, <2>1
  <2>3. PICK f, l, g : f = rs[k].firstBlock /\ l = LastBlock(rs[k]) /\ g = rs[j].firstBlock
    BY Zenon
  <2>4. f \in S /\ l \in S /\ g \in S /\ f \in Nat /\ l \in Nat /\ g \in Nat /\ f <= l /\ l < g
    BY <2>2, <2>3, ShapeOrder, Zenon DEF PlanShape
  <2>5. SUFFICES ASSUME \A c \in cut : ~(c <= g /\ f < c) PROVE FALSE
    BY <2>1, <2>3, Zenon DEF Meets
  <2>6. PICK m \in cut : m <= f /\ \A d \in cut : d <= f => d <= m
    <3>1. PICK T : T = {c \in cut : c <= f}
      BY Zenon
    <3>2. T # {} /\ T \subseteq S
      BY <1>1, <2>4, <3>1, Zenon
    <3>3. T \in SUBSET Int
      BY <3>2
    <3>4. IsFiniteSet(T)
      BY <3>2, FS_Subset, Zenon
    <3>5. PICK m \in T : \A x \in T : x <= m
      BY <3>2, <3>3, <3>4, LargestExists, Zenon
    <3> QED BY <3>1, <3>5, Zenon
  <2>7. m \in Nat
    BY <1>1, <2>6, Zenon
  <2>8. ASSUME NEW d \in cut, d > m PROVE g < d
    <3>1. d \in Nat
      BY <1>1, Zenon
    <3>2. ~(d <= f)
      <4>1. d <= f => d <= m
        BY <2>6, Zenon
      <4> QED BY <2>7, <2>8, <3>1, <4>1
    <3>3. ~(d <= g /\ f < d)
      BY <2>5, Zenon
    <3> QED BY <2>4, <3>1, <3>2, <3>3
  <2>9. f \in GroupOf(S, cut, m) /\ l \in GroupOf(S, cut, m) /\ g \in GroupOf(S, cut, m)
    <3>1. f >= m /\ l >= m /\ g >= m
      BY <2>4, <2>6, <2>7
    <3>2. ASSUME NEW d \in cut, d > m PROVE f < d /\ l < d /\ g < d
      <4>1. g < d /\ d \in Nat
        BY <1>1, <2>8, <3>2, Zenon
      <4> QED BY <2>4, <4>1
    <3> QED BY <2>4, <3>1, <3>2, Zenon DEF GroupOf
  <2>10. AllowedGroup(GroupOf(S, cut, m), z[1], z[2], z[3], z[4])
    BY Zenon DEF LegalCut
  <2>11. SpanBytes(f, g, z[1], z[2]) <= z[4]
    <3>1. f < g
      BY <2>4
    <3> QED BY <2>9, <2>10, <3>1, Zenon DEF AllowedGroup
  <2>12. g - l - 1 <= z[3]
    <3>1. ASSUME NEW c \in GroupOf(S, cut, m) PROVE c <= l \/ g <= c
      <4>1. SUFFICES ASSUME l < c, c < g PROVE FALSE
        <5>1. c \in Nat
          BY Zenon DEF GroupOf
        <5> QED BY <2>4, <4>1, <5>1
      <4>2. c \in S /\ c \in Nat
        BY Zenon DEF GroupOf
      <4>3. f <= c
        BY <2>4, <4>1, <4>2
      <4>4. ASSUME NEW i \in 1 .. Len(rs), k < i PROVE c < rs[i].firstBlock
        <5>1. i = j \/ j < i
          BY <1>2, <2>2, <4>4
        <5>2. CASE i = j
          BY <2>3, <4>1, <5>2, Zenon
        <5>3. CASE j < i
          <6>1. LastBlock(rs[j]) < rs[i].firstBlock
            BY <5>3, ShapeOrder, Zenon
          <6>2. /\ LastBlock(rs[j]) \in Nat /\ rs[i].firstBlock \in Nat
                /\ rs[j].firstBlock <= LastBlock(rs[j])
            BY ShapeOrder, Zenon
          <6> QED BY <2>3, <2>4, <4>1, <4>2, <6>1, <6>2
        <5> QED BY <5>1, <5>2, <5>3, Zenon
      <4>5. Reaches(rs[k], c)
        BY <2>2, <2>3, <4>2, <4>3, <4>4, ShapeReach, Zenon
      <4>6. c <= l
        BY <2>3, <4>5, Zenon DEF Reaches
      <4> QED BY <2>4, <4>1, <4>2, <4>6
    <3> QED BY <2>4, <2>9, <2>10, <3>1, Zenon DEF AllowedGroup
  <2>13. Refuses(f, l, g, z)
    BY <2>2, <2>3, Zenon DEF PlanShape
  <2> QED BY <2>11, <2>12, <2>13, Zenon DEF Refuses
<1> QED BY <1>2, <1>3, <1>4

\* So it has as many groups as the plan has requests, at least.
LEMMA CutAsLong ==
  ASSUME NEW S \in SUBSET Nat, IsFiniteSet(S), NEW z \in Policy, NEW rs, PlanShape(rs, S, z),
         NEW cut \in CutsOf(S), LegalCut(S, cut, z[1], z[2], z[3], z[4])
  PROVE  Len(rs) <= Cardinality(cut)
<1>1. cut \in SUBSET S /\ Len(rs) \in Nat
  BY ShapeOrder, Zenon DEF CutsOf
<1>2. PICK F : F = [j \in 1 .. Len(rs) |-> CHOOSE c \in cut : Meets(c, rs, j)]
  BY Zenon
<1>3. \A j \in 1 .. Len(rs) : F[j] \in cut /\ Meets(F[j], rs, j)
  BY <1>2, CutMeets, Zenon
<1>4. ASSUME NEW i \in 1 .. Len(rs), NEW j \in 1 .. Len(rs), i < j PROVE F[i] # F[j]
  <2>1. PICK k : k = j - 1
    BY Zenon
  <2>2. k \in 1 .. Len(rs) /\ (i = k \/ i < k) /\ j > 1
    BY <1>1, <1>4, <2>1
  <2>3. F[i] <= rs[i].firstBlock /\ rs[k].firstBlock < F[j]
    BY <1>3, <2>1, <2>2, Zenon DEF Meets
  <2>4. F[i] \in Nat /\ F[j] \in Nat /\ rs[i].firstBlock \in Nat /\ rs[k].firstBlock \in Nat
    BY <1>1, <1>3, <2>2, ShapeOrder, Zenon
  <2>5. rs[i].firstBlock <= rs[k].firstBlock
    <3>1. CASE i < k
      <4>1. LastBlock(rs[i]) < rs[k].firstBlock
        BY <2>2, <3>1, ShapeOrder, Zenon
      <4>2. LastBlock(rs[i]) \in Nat /\ rs[i].firstBlock <= LastBlock(rs[i])
        BY ShapeOrder, Zenon
      <4> QED BY <2>4, <4>1, <4>2
    <3>2. CASE i = k
      BY <2>4, <3>2
    <3> QED BY <2>2, <3>1, <3>2, Zenon
  <2> QED BY <2>3, <2>4, <2>5
<1>5. ASSUME NEW i \in 1 .. Len(rs), NEW j \in 1 .. Len(rs), F[i] = F[j] PROVE i = j
  <2>1. i = j \/ i < j \/ j < i
    OBVIOUS
  <2> QED BY <1>4, <1>5, <2>1, Zenon
<1>6. F \in Injection(1 .. Len(rs), cut)
  <2>1. F \in [1 .. Len(rs) -> cut]
    BY <1>2, <1>3, Zenon
  <2> QED BY <1>5, <2>1, Zenon DEF Injection, IsInjective
<1>7. IsFiniteSet(cut)
  BY <1>1, FS_Subset, Zenon
<1>8. Cardinality(1 .. Len(rs)) <= Cardinality(cut)
  BY <1>6, <1>7, FS_Injection, Zenon
<1>9. Cardinality(1 .. Len(rs)) = Len(rs)
  BY <1>1, FS_Interval
<1> QED BY <1>8, <1>9, Zenon

\* No plan is shorter: for any blocks and any policy, the requests obey the gap
\* and the length ceiling, and every other way to cut the blocks into requests
\* that obeys them has at least as many (PlanRuns in BlockPlan.cpp merges
\* greedily).
THEOREM PlansAreLeast ==
  ASSUME NEW S \in SUBSET Nat, IsFiniteSet(S), S # {}, NEW blockSize \in Nat \ {0},
         NEW assetSize \in Nat, NEW gapBlocks \in Nat, NEW maxRequestBytes \in Nat
  PROVE  PlanLeast(PlanRuns(Ascending(S), blockSize, assetSize, gapBlocks, maxRequestBytes),
                   S, blockSize, assetSize, gapBlocks, maxRequestBytes)
<1>1. PICK z : z = <<blockSize, assetSize, gapBlocks, maxRequestBytes>>
  BY Zenon
<1>2. /\ z \in Policy
      /\ z[1] = blockSize /\ z[2] = assetSize /\ z[3] = gapBlocks /\ z[4] = maxRequestBytes
  BY <1>1, Zenon DEF Policy
<1>3. PICK rs : rs = PlanRuns(Ascending(S), blockSize, assetSize, gapBlocks, maxRequestBytes)
  BY Zenon
<1>4. PlanShape(rs, S, z)
  BY <1>2, <1>3, PlanShaped, Zenon
<1>5. DOMAIN rs = 1 .. Len(rs)
  <2>1. rs \in Seq(Run)
    BY <1>4, ShapeOrder, Zenon
  <2> QED BY <2>1
<1>6. LegalCut(S, {rs[i].firstBlock : i \in DOMAIN rs}, blockSize, assetSize, gapBlocks, maxRequestBytes)
  BY <1>2, <1>4, <1>5, ShapeLegal, Zenon
<1>7. ASSUME NEW cut \in CutsOf(S),
             LegalCut(S, cut, blockSize, assetSize, gapBlocks, maxRequestBytes)
      PROVE  Len(rs) <= Cardinality(cut)
  <2>1. LegalCut(S, cut, z[1], z[2], z[3], z[4])
    BY <1>2, <1>7, Zenon
  <2> QED BY <1>2, <1>4, <2>1, CutAsLong, Zenon
<1>8. PlanLeast(rs, S, blockSize, assetSize, gapBlocks, maxRequestBytes)
  BY <1>6, <1>7, Zenon DEF PlanLeast
<1> QED BY <1>3, <1>8, Zenon
================================================================================

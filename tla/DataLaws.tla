------------------------------- MODULE DataLaws -------------------------------
(***************************************************************************)
(* What the proofs about the components use of finite sets and of sums     *)
(* over them.  They take these laws as hypotheses, so that the theorems of *)
(* the library are not before the provers in every step of theirs, and     *)
(* discharge them by DataTheorems, which proves them.                      *)
(***************************************************************************)
EXTENDS Integers, FiniteSets, Functions

\* The empty set, and only it, has no elements; a finite set has a number of them.
EmptyLaw == /\ IsFiniteSet({}) /\ Cardinality({}) = 0
            /\ \A S : IsFiniteSet(S) => Cardinality(S) \in Nat /\ (Cardinality(S) = 0 <=> S = {})

\* A subset of a finite set is finite, and no larger.
SubsetLaw ==
  \A S : \A T \in SUBSET S : IsFiniteSet(S) => IsFiniteSet(T) /\ Cardinality(T) <= Cardinality(S)

\* One element more, or one less.
AddLaw ==
  \A S, x : IsFiniteSet(S) =>
    /\ IsFiniteSet(S \cup {x})
    /\ Cardinality(S \cup {x}) = IF x \in S THEN Cardinality(S) ELSE Cardinality(S) + 1
RemoveLaw ==
  \A S, x : IsFiniteSet(S) =>
    /\ IsFiniteSet(S \ {x})
    /\ Cardinality(S \ {x}) = IF x \in S THEN Cardinality(S) - 1 ELSE Cardinality(S)

\* The elements of two sets.
UnionLaw ==
  \A S, T : IsFiniteSet(S) /\ IsFiniteSet(T) =>
    /\ IsFiniteSet(S \cup T)
    /\ Cardinality(S \cup T) = Cardinality(S) + Cardinality(T) - Cardinality(S \cap T)

\* The numbers of an interval.
IntervalLaw ==
  \A a, b \in Int :
    IsFiniteSet(a .. b) /\ Cardinality(a .. b) = IF a > b THEN 0 ELSE b - a + 1

\* A finite set of integers has a largest.
LargestLaw ==
  \A S \in SUBSET Int : IsFiniteSet(S) /\ S # {} => \E m \in S : \A x \in S : x <= m

\* A finite set in which, of any two, one is ahead of the other has an element
\* that is behind all the others.
Lined(S, a) ==
  /\ \A i, j \in S : i # j => i \in a[j] \/ j \in a[i]
  /\ \A i, j, k \in S : i \in a[j] /\ j \in a[k] => i \in a[k]
IsLast(j, S, a) == j \in S /\ \A i \in S : i # j => i \in a[j]
LastLaw == \A S, a : IsFiniteSet(S) /\ S # {} /\ Lined(S, a) => \E j : IsLast(j, S, a)

FiniteLaws ==
  /\ EmptyLaw /\ SubsetLaw /\ AddLaw /\ RemoveLaw /\ UnionLaw
  /\ IntervalLaw /\ LargestLaw /\ LastLaw

\* A sum of naturals is a natural, one of integers an integer.
SumsTyped(S) ==
  \A f : /\ (\A x \in S : f[x] \in Nat) => SumFunctionOnSet(f, S) \in Nat
         /\ (\A x \in S : f[x] \in Int) => SumFunctionOnSet(f, S) \in Int

\* Larger summands have a sum that is no smaller.
SumsMonotone(S) ==
  \A f, g : (\A x \in S : f[x] \in Int /\ g[x] \in Int /\ f[x] <= g[x])
              => SumFunctionOnSet(f, S) <= SumFunctionOnSet(g, S)

\* A summand that changes changes the sum by as much.
SumsUpdate(S) ==
  \A f, g : \A x \in S :
    /\ \A y \in S : f[y] \in Int /\ g[y] \in Int
    /\ \A y \in S : y # x => g[y] = f[y]
    => SumFunctionOnSet(g, S) = SumFunctionOnSet(f, S) - f[x] + g[x]

\* A sum grows by no more than the one summand that may grow.
SumsMove(S) ==
  \A f, g : \A x \in S, n \in Int :
    /\ \A y \in S : f[y] \in Int /\ g[y] \in Int
    /\ \A y \in S : y # x => g[y] <= f[y]
    /\ g[x] <= f[x] + n
    => SumFunctionOnSet(g, S) <= SumFunctionOnSet(f, S) + n

\* Nothing sums up to 0.
SumsVanish(S) == \A f : (\A x \in S : f[x] = 0) => SumFunctionOnSet(f, S) = 0

\* Summands that are 0 may be left out.
SumsExtend(S) ==
  \A f, g : \A R \in SUBSET S :
    /\ \A x \in R : f[x] \in Int /\ g[x] = f[x]
    /\ \A x \in S \ R : g[x] = 0
    => SumFunctionOnSet(g, S) = SumFunctionOnSet(f, R)

\* An element that joins the set adds its own value.
SumsAdd(S) ==
  \A f, g, x :
    /\ x \notin S /\ g[x] \in Int
    /\ \A y \in S : f[y] \in Int /\ g[y] = f[y]
    => SumFunctionOnSet(g, S \cup {x}) = SumFunctionOnSet(f, S) + g[x]

\* A part of the set and the rest of it.
SumsSplit(S) ==
  \A f : \A R \in SUBSET S :
    (\A x \in S : f[x] \in Int)
      => SumFunctionOnSet(f, S) = SumFunctionOnSet(f, R) + SumFunctionOnSet(f, S \ R)

SumLaws(S) ==
  /\ SumsTyped(S) /\ SumsMonotone(S) /\ SumsUpdate(S) /\ SumsMove(S)
  /\ SumsVanish(S) /\ SumsExtend(S) /\ SumsAdd(S) /\ SumsSplit(S)

\* They hold of every finite set.
FiniteSums == \A S : IsFiniteSet(S) => SumLaws(S)
===============================================================================

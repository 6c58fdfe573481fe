----------------------------- MODULE SumTheorems -----------------------------
(***************************************************************************)
(* What MapThenSumSet of the community modules computes: the balances, the *)
(* spending rows and the payments of the models are added up with it.  Its *)
(* recursion takes an arbitrary element of the set at every step; shown    *)
(* here is that the recursion has a solution on a finite set, that the     *)
(* order does not matter, and how the sum follows an update of one term.   *)
(*                                                                         *)
(* Every induction is over the subsets of a finite set, as the search for  *)
(* a minimal counterexample (MinimalSubset).                               *)
(***************************************************************************)
EXTENDS Integers, FiniteSetsExt, FiniteSetTheorems, WellFoundedInduction, TLAPS

\* The sum of the values of a function over a set.
SumOf(f, S) == MapThenSumSet(LAMBDA x : f[x], S)

\* The element the recursion of MapThenSumSet takes next, and what it solves.
Pick(s) == CHOOSE x \in s : TRUE
IsFold(g, f, S) ==
  g = [s \in SUBSET S |-> IF s = {} THEN 0 ELSE f[Pick(s)] + g[s \ {Pick(s)}]]
Fold(f, S) == CHOOSE g : IsFold(g, f, S)

-----------------------------------------------------------------------------
(* Induction.                                                              *)

\* A nonempty family of subsets of a finite set has a member none of whose
\* proper subsets is in the family.
LEMMA MinimalSubset ==
  ASSUME NEW S, IsFiniteSet(S), NEW T \in SUBSET SUBSET S, T # {}
  PROVE  \E s \in T : \A u \in SUBSET s : u # s => u \notin T
<1> DEFINE R == StrictSubsetOrdering(S)
<1>1. IsWellFoundedOn(R, SUBSET S)
  BY FS_StrictSubsetOrderingWellFounded, FS_FiniteSubsetsOfFinite
<1>2. PICK s \in T : \A y \in T : ~ (<<y, s>> \in R)
  <2> HIDE DEF R
  <2> QED
    BY <1>1, WFMin
<1>3. ASSUME NEW u \in SUBSET s, u # s, u \in T PROVE FALSE
  <2>1. <<u, s>> \in R
    BY <1>3 DEF StrictSubsetOrdering
  <2> QED
    BY <1>2, <1>3, <2>1
<1> QED
  BY <1>2, <1>3

LEMMA PickIn == \A s : s # {} => Pick(s) \in s
BY DEF Pick

-----------------------------------------------------------------------------
(* The recursion has a solution.                                           *)

LEMMA SumIsFold ==
  ASSUME NEW f, NEW S
  PROVE  SumOf(f, S) = Fold(f, S)[S]
BY Zenon DEF SumOf, Fold, MapThenSumSet, MapThenFoldSet, IsFold, Pick

\* One step of a solution.
LEMMA FoldStep ==
  ASSUME NEW f, NEW S, NEW g, IsFold(g, f, S), NEW s \in SUBSET S
  PROVE  /\ s = {} => g[s] = 0
         /\ s # {} => g[s] = f[Pick(s)] + g[s \ {Pick(s)}]
<1> DEFINE G == [u \in SUBSET S |-> IF u = {} THEN 0 ELSE f[Pick(u)] + g[u \ {Pick(u)}]]
<1>1. g = G
  BY DEF IsFold
<1>2. G[s] = IF s = {} THEN 0 ELSE f[Pick(s)] + g[s \ {Pick(s)}]
  OBVIOUS
<1>3. g[s] = G[s]
  BY <1>1
<1> QED
  BY <1>2, <1>3

\* Solutions for two sets agree on what they have in common.
LEMMA FoldsAgree ==
  ASSUME NEW f, NEW A, NEW B, IsFiniteSet(A),
         NEW g, NEW h, IsFold(g, f, A), IsFold(h, f, B)
  PROVE  \A s \in SUBSET (A \cap B) : g[s] = h[s]
<1> DEFINE T == {s \in SUBSET (A \cap B) : g[s] # h[s]}
<1> SUFFICES ASSUME T # {} PROVE FALSE
  OBVIOUS
<1>1. IsFiniteSet(A \cap B)
  BY FS_Subset
<1>2. PICK s \in T : \A u \in SUBSET s : u # s => u \notin T
  <2>1. T \in SUBSET SUBSET (A \cap B)
    OBVIOUS
  <2> HIDE DEF T
  <2> QED
    BY <1>1, <2>1, MinimalSubset
<1>3. s \in SUBSET A /\ s \in SUBSET B /\ g[s] # h[s]
  OBVIOUS
<1>4. s # {}
  <2> SUFFICES ASSUME s = {} PROVE FALSE
    OBVIOUS
  <2>1. g[s] = 0
    BY <1>3, FoldStep
  <2>2. h[s] = 0
    BY <1>3, FoldStep
  <2> QED
    BY <1>3, <2>1, <2>2
<1>5. Pick(s) \in s
  BY <1>4, PickIn
<1>6. g[s \ {Pick(s)}] = h[s \ {Pick(s)}]
  <2>1. s \ {Pick(s)} \in SUBSET s /\ s \ {Pick(s)} # s
    BY <1>5
  <2> QED
    BY <1>2, <2>1
<1>7. g[s] = f[Pick(s)] + g[s \ {Pick(s)}] /\ h[s] = f[Pick(s)] + h[s \ {Pick(s)}]
  BY <1>3, <1>4, FoldStep
<1> QED
  BY <1>6, <1>7

LEMMA FoldExists ==
  ASSUME NEW f, NEW S, IsFiniteSet(S)
  PROVE  IsFold(Fold(f, S), f, S)
<1> DEFINE T == {s \in SUBSET S : ~ \E g : IsFold(g, f, s)}
<1>1. ASSUME T # {} PROVE FALSE
  <2>1. PICK v \in T : \A u \in SUBSET v : u # v => u \notin T
    <3>1. T \in SUBSET SUBSET S
      OBVIOUS
    <3> HIDE DEF T
    <3> QED
      BY <1>1, <3>1, MinimalSubset
  <2>2. ASSUME NEW u \in SUBSET v, u # v PROVE IsFold(Fold(f, u), f, u)
    <3>1. \E g : IsFold(g, f, u)
      BY <2>1, <2>2
    <3> QED
      BY <3>1 DEF Fold
  <2>3. ASSUME NEW u \in SUBSET v, u # v, u # {}
        PROVE  /\ u \ {Pick(u)} \in SUBSET v /\ u \ {Pick(u)} # v
               /\ Fold(f, u)[u] = f[Pick(u)] + Fold(f, u \ {Pick(u)})[u \ {Pick(u)}]
    <3> DEFINE w == u \ {Pick(u)}
    <3>1. Pick(u) \in u
      BY <2>3, PickIn
    <3>2. w \in SUBSET v /\ w # v /\ w \in SUBSET u /\ w \in SUBSET (u \cap w)
      BY <2>3, <3>1
    <3>3. IsFold(Fold(f, u), f, u) /\ IsFold(Fold(f, w), f, w)
      BY <2>2, <2>3, <3>2
    <3>4. IsFiniteSet(u)
      BY FS_Subset
    <3>5. Fold(f, u)[w] = Fold(f, w)[w]
      BY <3>2, <3>3, <3>4, FoldsAgree
    <3>6. Fold(f, u)[u] = f[Pick(u)] + Fold(f, u)[w]
      BY <2>3, <3>3, FoldStep
    <3> QED
      BY <3>2, <3>5, <3>6
  <2> DEFINE Below(s) == IF s = {} THEN 0
                         ELSE f[Pick(s)] + Fold(f, s \ {Pick(s)})[s \ {Pick(s)}]
             G == [s \in SUBSET v |-> Below(s)]
  <2>4. ASSUME NEW s \in SUBSET v, s # v PROVE G[s] = Fold(f, s)[s]
    <3>1. CASE s = {}
      <4>1. IsFold(Fold(f, s), f, s)
        BY <2>2, <2>4
      <4>2. Fold(f, s)[s] = 0
        BY <3>1, <4>1, FoldStep
      <4> QED
        BY <3>1, <4>2
    <3>2. CASE s # {}
      BY <2>3, <2>4, <3>2
    <3> QED
      BY <3>1, <3>2
  <2>5. ASSUME NEW s \in SUBSET v, s # {}
        PROVE  G[s] = f[Pick(s)] + G[s \ {Pick(s)}]
    <3> DEFINE w == s \ {Pick(s)}
    <3>1. Pick(s) \in s
      BY <2>5, PickIn
    <3>2. w \in SUBSET v /\ w # v
      BY <3>1
    <3>3. G[w] = Fold(f, w)[w]
      BY <2>4, <3>2
    <3>4. G[s] = f[Pick(s)] + Fold(f, w)[w]
      BY <2>5
    <3> QED
      BY <3>3, <3>4
  <2>6. G[{}] = 0
    OBVIOUS
  <2> DEFINE H == [s \in SUBSET v |-> IF s = {} THEN 0 ELSE f[Pick(s)] + G[s \ {Pick(s)}]]
  <2>7. ASSUME NEW s \in SUBSET v PROVE G[s] = H[s]
    <3>1. H[s] = IF s = {} THEN 0 ELSE f[Pick(s)] + G[s \ {Pick(s)}]
      OBVIOUS
    <3> HIDE DEF G, H
    <3> QED
      BY <2>5, <2>6, <3>1
  <2>8. G = H
    <3>1. G = [s \in SUBSET v |-> G[s]] /\ H = [s \in SUBSET v |-> H[s]]
      OBVIOUS
    <3> HIDE DEF G, H
    <3> QED
      BY <2>7, <3>1
  <2>9. IsFold(G, f, v)
    <3> HIDE DEF G
    <3> QED
      BY <2>8 DEF IsFold
  <2> QED
    BY <2>9
<1>2. \E g : IsFold(g, f, S)
  BY <1>1
<1> QED
  BY <1>2 DEF Fold

-----------------------------------------------------------------------------
(* What the sum is, whatever the order of its terms.                       *)

\* The recursion of the sum itself.
LEMMA SumStep ==
  ASSUME NEW f, NEW S, IsFiniteSet(S)
  PROVE  /\ S = {} => SumOf(f, S) = 0
         /\ S # {} => SumOf(f, S) = f[Pick(S)] + SumOf(f, S \ {Pick(S)})
<1>1. IsFold(Fold(f, S), f, S) /\ S \in SUBSET S
  BY FoldExists
<1>2. S = {} => Fold(f, S)[S] = 0
  BY <1>1, FoldStep
<1>3. ASSUME S # {} PROVE SumOf(f, S) = f[Pick(S)] + SumOf(f, S \ {Pick(S)})
  <2> DEFINE w == S \ {Pick(S)}
  <2>1. IsFiniteSet(w) /\ w \in SUBSET (S \cap w)
    BY FS_Subset
  <2>2. IsFold(Fold(f, w), f, w)
    BY <2>1, FoldExists
  <2>3. Fold(f, S)[w] = Fold(f, w)[w]
    BY <1>1, <2>1, <2>2, FoldsAgree
  <2>4. Fold(f, S)[S] = f[Pick(S)] + Fold(f, S)[w]
    BY <1>1, <1>3, FoldStep
  <2> HIDE DEF w
  <2>5. SumOf(f, S) = f[Pick(S)] + SumOf(f, w)
    BY <2>3, <2>4, SumIsFold
  <2> QED
    BY <2>5 DEF w
<1> QED
  BY <1>2, <1>3, SumIsFold

\* Sums of integers are integers, and of naturals naturals.
LEMMA SumType ==
  ASSUME NEW S, IsFiniteSet(S), NEW f, \A x \in S : f[x] \in Int
  PROVE  /\ SumOf(f, S) \in Int
         /\ (\A x \in S : f[x] \in Nat) => SumOf(f, S) \in Nat
<1> DEFINE Fine(s) == SumOf(f, s) \in Int /\ ((\A x \in s : f[x] \in Nat) => SumOf(f, s) \in Nat)
           T == {s \in SUBSET S : ~Fine(s)}
<1>1. ASSUME T # {} PROVE FALSE
  <2>0. T \in SUBSET SUBSET S
    OBVIOUS
  <2>1. PICK v \in T : \A u \in SUBSET v : u # v => u \notin T
    <3> HIDE DEF T
    <3> QED
      BY <1>1, <2>0, MinimalSubset
  <2>2. IsFiniteSet(v) /\ v \in SUBSET S /\ ~Fine(v)
    BY FS_Subset
  <2> DEFINE w == v \ {Pick(v)}
  <2>3. v # {}
    <3> SUFFICES ASSUME v = {} PROVE FALSE
      OBVIOUS
    <3>1. SumOf(f, v) = 0
      BY <2>2, SumStep
    <3> QED
      BY <2>2, <3>1
  <2>4. SumOf(f, v) = f[Pick(v)] + SumOf(f, w)
    BY <2>2, <2>3, SumStep
  <2>5. Pick(v) \in v /\ w \in SUBSET v /\ w # v
    BY <2>3, PickIn
  <2>6. Fine(w)
    <3>1. w \notin T
      BY <2>1, <2>5
    <3>2. w \in SUBSET S
      BY <2>2
    <3> HIDE DEF w, Fine
    <3> QED
      BY <3>1, <3>2
  <2>7. f[Pick(v)] \in Int
    BY <2>2, <2>5
  <2>8. \A x \in w : x \in v
    OBVIOUS
  <2> HIDE DEF w
  <2>9. SumOf(f, v) \in Int
    BY <2>4, <2>6, <2>7
  <2>10. ASSUME \A x \in v : f[x] \in Nat PROVE SumOf(f, v) \in Nat
    <3>1. f[Pick(v)] \in Nat /\ SumOf(f, w) \in Nat
      BY <2>5, <2>6, <2>8, <2>10
    <3> QED
      BY <2>4, <3>1
  <2> QED
    BY <2>2, <2>9, <2>10
<1>2. Fine(S)
  <2> HIDE DEF Fine
  <2> QED
    BY <1>1
<1> QED
  BY <1>2

\* Any one term can be taken out of a sum.
LEMMA SumTake ==
  ASSUME NEW S, IsFiniteSet(S), NEW f, \A x \in S : f[x] \in Int, NEW y \in S
  PROVE  SumOf(f, S) = f[y] + SumOf(f, S \ {y})
<1> DEFINE Fine(s) == \A x \in s : SumOf(f, s) = f[x] + SumOf(f, s \ {x})
           T == {s \in SUBSET S : ~Fine(s)}
<1>1. ASSUME T # {} PROVE FALSE
  <2>0. T \in SUBSET SUBSET S
    OBVIOUS
  <2>1. PICK v \in T : \A u \in SUBSET v : u # v => u \notin T
    <3> HIDE DEF T
    <3> QED
      BY <1>1, <2>0, MinimalSubset
  <2>2. IsFiniteSet(v) /\ v \in SUBSET S /\ ~Fine(v)
    BY FS_Subset
  <2>3. PICK x \in v : SumOf(f, v) # f[x] + SumOf(f, v \ {x})
    BY <2>2
  <2> DEFINE p == Pick(v)
             both == v \ {x, p}
  <2>4. SumOf(f, v) = f[p] + SumOf(f, v \ {p})
    BY <2>2, <2>3, SumStep
  <2>5. p \in v /\ p # x
    BY <2>3, <2>4, PickIn
  <2>6. ASSUME NEW a \in v, NEW b \in v, a # b
        PROVE  SumOf(f, v \ {a}) = f[b] + SumOf(f, v \ {a, b})
    <3>1. v \ {a} \in SUBSET v /\ v \ {a} # v /\ b \in v \ {a}
      BY <2>6
    <3>2. v \ {a} \in SUBSET S
      BY <2>2
    <3>3. v \ {a} \notin T
      BY <2>1, <3>1
    <3>4. Fine(v \ {a})
      <4> DEFINE w == v \ {a}
      <4>1. w \in SUBSET S /\ w \notin T
        BY <3>2, <3>3
      <4>2. Fine(w)
        <5> HIDE DEF w, Fine
        <5> QED
          BY <4>1
      <4> QED
        BY <4>2
    <3>5. (v \ {a}) \ {b} = v \ {a, b}
      OBVIOUS
    <3> QED
      BY <3>1, <3>4, <3>5
  <2>7. SumOf(f, v \ {p}) = f[x] + SumOf(f, both)
    <3>1. {p, x} = {x, p}
      OBVIOUS
    <3> QED
      BY <2>3, <2>5, <2>6, <3>1
  <2>8. SumOf(f, v \ {x}) = f[p] + SumOf(f, both)
    BY <2>3, <2>5, <2>6
  <2>9. f[x] \in Int /\ f[p] \in Int
    BY <2>2, <2>3, <2>5
  <2>10. SumOf(f, both) \in Int
    <3>1. IsFiniteSet(both) /\ \A z \in both : f[z] \in Int
      BY <2>2, FS_Subset
    <3> HIDE DEF both
    <3> QED
      BY <3>1, SumType
  <2> HIDE DEF both, p
  <2> QED
    BY <2>3, <2>4, <2>7, <2>8, <2>9, <2>10
<1>2. Fine(S)
  <2> HIDE DEF Fine
  <2> QED
    BY <1>1
<1> QED
  BY <1>2

\* Functions with the same values have the same sum.
LEMMA SumCongruent ==
  ASSUME NEW S, IsFiniteSet(S), NEW f, NEW g, \A x \in S : f[x] = g[x]
  PROVE  SumOf(f, S) = SumOf(g, S)
<1> DEFINE Fine(s) == SumOf(f, s) = SumOf(g, s)
           T == {s \in SUBSET S : ~Fine(s)}
<1>1. ASSUME T # {} PROVE FALSE
  <2>0. T \in SUBSET SUBSET S
    OBVIOUS
  <2>1. PICK v \in T : \A u \in SUBSET v : u # v => u \notin T
    <3> HIDE DEF T
    <3> QED
      BY <1>1, <2>0, MinimalSubset
  <2>2. IsFiniteSet(v) /\ v \in SUBSET S /\ ~Fine(v)
    BY FS_Subset
  <2> DEFINE w == v \ {Pick(v)}
  <2>3. v # {}
    <3> SUFFICES ASSUME v = {} PROVE FALSE
      OBVIOUS
    <3>1. SumOf(f, v) = 0 /\ SumOf(g, v) = 0
      BY <2>2, SumStep
    <3> QED
      BY <2>2, <3>1
  <2>4. SumOf(f, v) = f[Pick(v)] + SumOf(f, w) /\ SumOf(g, v) = g[Pick(v)] + SumOf(g, w)
    BY <2>2, <2>3, SumStep
  <2>5. Pick(v) \in v /\ w \in SUBSET v /\ w # v
    BY <2>3, PickIn
  <2>6. Fine(w)
    <3>1. w \notin T
      BY <2>1, <2>5
    <3>2. w \in SUBSET S
      BY <2>2
    <3> HIDE DEF w, Fine
    <3> QED
      BY <3>1, <3>2
  <2>7. f[Pick(v)] = g[Pick(v)]
    BY <2>2, <2>5
  <2> HIDE DEF w
  <2> QED
    BY <2>2, <2>4, <2>6, <2>7
<1>2. Fine(S)
  <2> HIDE DEF Fine
  <2> QED
    BY <1>1
<1> QED
  BY <1>2

-----------------------------------------------------------------------------
(* The facts the proofs cite.                                              *)

\* A sum of nothing.
LEMMA SumEmpty == \A f : SumOf(f, {}) = 0
BY SumStep, FS_EmptySet

\* A sum whose terms are zero.
LEMMA SumZero ==
  ASSUME NEW S, IsFiniteSet(S), NEW f, \A x \in S : f[x] = 0
  PROVE  SumOf(f, S) = 0
<1> DEFINE T == {s \in SUBSET S : SumOf(f, s) # 0}
<1>1. ASSUME T # {} PROVE FALSE
  <2>0. T \in SUBSET SUBSET S
    OBVIOUS
  <2>1. PICK v \in T : \A u \in SUBSET v : u # v => u \notin T
    <3> HIDE DEF T
    <3> QED
      BY <1>1, <2>0, MinimalSubset
  <2>2. IsFiniteSet(v) /\ v \in SUBSET S /\ SumOf(f, v) # 0
    BY FS_Subset
  <2> DEFINE w == v \ {Pick(v)}
  <2>3. v # {} /\ SumOf(f, v) = f[Pick(v)] + SumOf(f, w)
    BY <2>2, SumStep
  <2>4. Pick(v) \in v /\ w \in SUBSET v /\ w # v
    BY <2>3, PickIn
  <2>5. w \notin T /\ w \in SUBSET S
    BY <2>1, <2>2, <2>4
  <2>6. SumOf(f, w) = 0
    <3> HIDE DEF w
    <3> QED
      BY <2>5
  <2>7. f[Pick(v)] = 0
    BY <2>2, <2>4
  <2> HIDE DEF w
  <2> QED
    BY <2>2, <2>3, <2>6, <2>7
<1> QED
  BY <1>1

\* One term changes, and the sum with it.
LEMMA SumUpdate ==
  ASSUME NEW S, IsFiniteSet(S), NEW f, NEW g, NEW c \in S,
         \A x \in S : f[x] \in Int /\ g[x] \in Int,
         \A x \in S : x # c => g[x] = f[x]
  PROVE  SumOf(g, S) = SumOf(f, S) + g[c] - f[c]
<1> DEFINE rest == S \ {c}
<1>1. IsFiniteSet(rest) /\ \A x \in rest : f[x] = g[x] /\ f[x] \in Int
  BY FS_Subset
<1>2. SumOf(f, S) = f[c] + SumOf(f, rest)
  BY SumTake
<1>3. SumOf(g, S) = g[c] + SumOf(g, rest)
  BY SumTake
<1> HIDE DEF rest
<1>4. SumOf(f, rest) = SumOf(g, rest) /\ SumOf(f, rest) \in Int
  BY <1>1, SumCongruent, SumType
<1>5. f[c] \in Int /\ g[c] \in Int
  OBVIOUS
<1> QED
  BY <1>2, <1>3, <1>4, <1>5

\* A sum splits into the sum over a part and the sum over the rest.
LEMMA SumSplit ==
  ASSUME NEW S, IsFiniteSet(S), NEW f, \A x \in S : f[x] \in Int, NEW A \in SUBSET S
  PROVE  SumOf(f, S) = SumOf(f, A) + SumOf(f, S \ A)
<1> DEFINE Fine(s) == SumOf(f, A \cup s) = SumOf(f, A) + SumOf(f, s)
           T == {s \in SUBSET (S \ A) : ~Fine(s)}
<1>0. IsFiniteSet(S \ A) /\ IsFiniteSet(A)
  BY FS_Subset
<1>1. ASSUME T # {} PROVE FALSE
  <2>0. T \in SUBSET SUBSET (S \ A)
    OBVIOUS
  <2>1. PICK v \in T : \A u \in SUBSET v : u # v => u \notin T
    <3> HIDE DEF T
    <3> QED
      BY <1>0, <1>1, <2>0, MinimalSubset
  <2>2. v \in SUBSET (S \ A) /\ ~Fine(v)
    OBVIOUS
  <2>3. SumOf(f, A) \in Int
    <3>1. \A x \in A : f[x] \in Int
      OBVIOUS
    <3> QED
      BY <1>0, <3>1, SumType
  <2>4. v # {}
    <3>1. A \cup {} = A
      OBVIOUS
    <3> QED
      BY <2>2, <2>3, <3>1, SumEmpty
  <2>5. PICK x \in v : TRUE
    BY <2>4
  <2> DEFINE u == v \ {x}
  <2>6. /\ u \in SUBSET v /\ u # v /\ u \in SUBSET (S \ A)
        /\ A \cup v \in SUBSET S /\ v \in SUBSET S /\ u \in SUBSET S
        /\ x \in A \cup v /\ (A \cup v) \ {x} = A \cup u
    BY <2>2, <2>5
  <2>7. Fine(u)
    <3>1. u \notin T
      BY <2>1, <2>6
    <3> HIDE DEF u, Fine
    <3> QED
      BY <2>6, <3>1
  <2>8. SumOf(f, v) = f[x] + SumOf(f, u)
    <3>1. IsFiniteSet(v) /\ \A y \in v : f[y] \in Int
      BY <2>6, FS_Subset
    <3> QED
      BY <2>5, <3>1, SumTake
  <2> HIDE DEF u
  <2>9. SumOf(f, A \cup v) = f[x] + SumOf(f, A \cup u)
    <3>1. IsFiniteSet(A \cup v) /\ \A y \in A \cup v : f[y] \in Int
      BY <2>6, FS_Subset
    <3> QED
      BY <2>6, <3>1, SumTake
  <2>10. SumOf(f, u) \in Int
    <3>1. IsFiniteSet(u) /\ \A y \in u : f[y] \in Int
      BY <2>6, FS_Subset
    <3> QED
      BY <3>1, SumType
  <2>11. f[x] \in Int
    BY <2>6
  <2> QED
    BY <2>2, <2>3, <2>7, <2>8, <2>9, <2>10, <2>11
<1>2. Fine(S \ A)
  <2> HIDE DEF Fine
  <2> QED
    BY <1>1
<1>3. A \cup (S \ A) = S
  OBVIOUS
<1> QED
  BY <1>2, <1>3

\* A sum of naturals over a part is no more than over the whole, and as much
\* when nothing lies outside the part.
LEMMA SumPart ==
  ASSUME NEW S, IsFiniteSet(S), NEW f, \A x \in S : f[x] \in Nat, NEW A \in SUBSET S
  PROVE  /\ SumOf(f, A) <= SumOf(f, S)
         /\ (\A x \in S \ A : f[x] = 0) => SumOf(f, A) = SumOf(f, S)
<1> DEFINE rest == S \ A
<1>1. IsFiniteSet(A) /\ IsFiniteSet(rest) /\ (\A x \in A : f[x] \in Nat) /\ (\A x \in rest : f[x] \in Nat)
  BY FS_Subset
<1>2. SumOf(f, S) = SumOf(f, A) + SumOf(f, rest)
  BY SumSplit
<1> HIDE DEF rest
<1>3. SumOf(f, A) \in Nat /\ SumOf(f, rest) \in Nat
  BY <1>1, SumType
<1>4. (\A x \in rest : f[x] = 0) => SumOf(f, rest) = 0
  BY <1>1, SumZero
<1> QED
  BY <1>2, <1>3, <1>4 DEF rest
=============================================================================

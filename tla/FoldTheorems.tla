---------------------------- MODULE FoldTheorems ----------------------------
(***************************************************************************)
(* Facts about folds over a finite set: that the recursion behind them has *)
(* a solution, and what the sum of a function over a set comes to.  Two    *)
(* principles of induction come first.                                     *)
(*                                                                         *)
(* The library states induction for operators, which first-order provers   *)
(* cannot instantiate.  Here the induction is over a set: F is the set of  *)
(* the arguments for which the claim holds, and a least argument outside   *)
(* it cannot exist, since the orders are well-founded (WFMin).             *)
(***************************************************************************)
EXTENDS Integers, FiniteSets, Functions, FiniteSetTheorems, TLAPS

\* Every non-empty set of natural numbers has a least element.
LEMMA LeastNumber ==
  ASSUME NEW T, T \subseteq Nat, T # {}
  PROVE  \E m \in T : \A n \in T : m <= n
<1>1. PICK m \in T : \A n \in T : ~(<<n, m>> \in OpToRel(<, Nat))
  BY NatLessThanWellFounded, WFMin
<1>2. \A n \in T : ~(n < m) BY <1>1 DEF OpToRel
<1> QED BY <1>2

\* Induction over the natural numbers: F holds 0 and, with n, its successor.
LEMMA NatSetInduction ==
  ASSUME NEW F, 0 \in F, \A n \in Nat : n \in F => n + 1 \in F
  PROVE  Nat \subseteq F
<1> DEFINE Outside == {n \in Nat : n \notin F}
<1> SUFFICES ASSUME Outside # {} PROVE FALSE OBVIOUS
<1>1. PICK m \in Outside : \A n \in Outside : m <= n BY LeastNumber
<1>2. m - 1 \in Nat /\ m - 1 \notin Outside BY <1>1
<1>3. (m - 1) + 1 \in F BY <1>2
<1> QED BY <1>1, <1>3

\* Induction over the subsets of a finite set: F holds every subset that it holds
\* without any one of its elements.
LEMMA SubsetInduction ==
  ASSUME NEW S, IsFiniteSet(S), NEW F,
         \A A \in SUBSET S : (\A x \in A : A \ {x} \in F) => A \in F
  PROVE  SUBSET S \subseteq F
<1> DEFINE Outside == {A \in SUBSET S : A \notin F}
<1> SUFFICES ASSUME Outside # {} PROVE FALSE OBVIOUS
<1>1. Outside \subseteq FiniteSubsetsOf(S) BY FS_FiniteSubsetsOfFinite
<1>2. PICK A \in Outside : \A B \in Outside : ~(<<B, A>> \in StrictSubsetOrdering(S))
  <2> HIDE DEF Outside
  <2> QED BY <1>1, FS_StrictSubsetOrderingWellFounded, WFMin
<1>3. ASSUME NEW x \in A PROVE A \ {x} \in F
  <2>1. <<A \ {x}, A>> \in StrictSubsetOrdering(S) BY DEF StrictSubsetOrdering
  <2> QED BY <1>2, <2>1
<1> QED BY <1>3

-----------------------------------------------------------------------------
\* The recursion behind the folds of the community modules.

Pick(s) == CHOOSE x \in s : TRUE

LEMMA PickIn == ASSUME NEW s, s # {} PROVE Pick(s) \in s
BY DEF Pick

\* h is applied to a set and the fold of the rest of it.
Unrolled(base, h, g, s) == IF s = {} THEN base ELSE h[s][g[s \ {Pick(s)}]]

Recursion(g, S, V, base, h) ==
  g \in [SUBSET S -> V] /\ \A s \in SUBSET S : g[s] = Unrolled(base, h, g, s)

\* The recursion has a solution: one that is right up to a cardinality is unrolled
\* once more.
LEMMA FoldExists ==
  ASSUME NEW S, IsFiniteSet(S), NEW V, NEW base \in V,
         NEW h, \A s \in SUBSET S, v \in V : s # {} => h[s][v] \in V
  PROVE  \E g : Recursion(g, S, V, base, h)
<1> DEFINE RightUpTo(n, g) == \A s \in SUBSET S : Cardinality(s) <= n => g[s] = Unrolled(base, h, g, s)
           Good == {n \in Nat : \E g \in [SUBSET S -> V] : RightUpTo(n, g)}
<1>card. \A s \in SUBSET S : IsFiniteSet(s) /\ Cardinality(s) \in Nat BY FS_Subset, FS_CardinalityType
<1>0. 0 \in Good
  <2> DEFINE g == [s \in SUBSET S |-> base]
  <2>1. \A s \in SUBSET S : Cardinality(s) <= 0 => s = {} BY <1>card, FS_EmptySet
  <2>2. RightUpTo(0, g) BY <2>1 DEF Unrolled
  <2>3. g \in [SUBSET S -> V] OBVIOUS
  <2> HIDE DEF RightUpTo, g
  <2> QED BY <2>2, <2>3
<1>1. ASSUME NEW n \in Nat, n \in Good PROVE n + 1 \in Good
  <2>1. PICK g \in [SUBSET S -> V] : RightUpTo(n, g) BY <1>1
  <2> DEFINE k == [s \in SUBSET S |-> Unrolled(base, h, g, s)]
  <2>2. ASSUME NEW s \in SUBSET S, Cardinality(s) <= n + 1 PROVE k[s] = Unrolled(base, h, k, s)
    <3>1. CASE s = {} BY <3>1 DEF Unrolled
    <3>2. CASE s # {}
      <4> DEFINE r == s \ {Pick(s)}
      <4>1. Pick(s) \in s BY <3>2, PickIn
      <4>2. Cardinality(r) <= n BY <4>1, <2>2, <1>card, FS_RemoveElement
      <4>3. k[r] = g[r] BY <4>2, <2>1
      <4> QED BY <4>3, <3>2 DEF Unrolled
    <3> QED BY <3>1, <3>2
  <2>3. k \in [SUBSET S -> V] BY DEF Unrolled
  <2> HIDE DEF k
  <2>4. RightUpTo(n + 1, k) BY <2>2
  <2> HIDE DEF RightUpTo
  <2> QED BY <2>3, <2>4
<1>2. Cardinality(S) \in Good
  <2> HIDE DEF Good
  <2>1. Nat \subseteq Good BY <1>0, <1>1, NatSetInduction
  <2> QED BY <2>1, <1>card
<1>3. PICK g \in [SUBSET S -> V] : RightUpTo(Cardinality(S), g) BY <1>2
<1>4. \A s \in SUBSET S : g[s] = Unrolled(base, h, g, s) BY <1>3, FS_Subset
<1>5. Recursion(g, S, V, base, h) BY <1>4 DEF Recursion
<1> QED BY <1>5

-----------------------------------------------------------------------------
\* SumFunctionOnSet.

Solves(g, f, S) ==
  \A s \in SUBSET S : g[s] = IF s = {} THEN 0 ELSE f[Pick(s)] + g[s \ {Pick(s)}]

LEMMA SumIsFold ==
  ASSUME NEW f, NEW S, IsFiniteSet(S), \A x \in S : f[x] \in Int
  PROVE  \E g : Solves(g, f, S) /\ SumFunctionOnSet(f, S) = g[S]
<1> DEFINE it == CHOOSE g : g = [s \in SUBSET S |->
                                   IF s = {} THEN 0 ELSE f[Pick(s)] + g[s \ {Pick(s)}]]
<1>1. SumFunctionOnSet(f, S) = it[S]
  BY DEF SumFunctionOnSet, FoldFunctionOnSet, MapThenFoldSet, Pick
<1>2. PICK h : \A s \in SUBSET S, v \in Int :
                 h[s][v] = f[Pick(s)] + v /\ (s # {} => h[s][v] \in Int)
  <2> DEFINE h == [s \in SUBSET S |-> [v \in Int |-> f[Pick(s)] + v]]
  <2>1. \A s \in SUBSET S, v \in Int : h[s][v] = f[Pick(s)] + v /\ (s # {} => h[s][v] \in Int)
    BY PickIn
  <2> HIDE DEF h
  <2> QED BY <2>1
<1>3. PICK g \in [SUBSET S -> Int] : \A s \in SUBSET S : g[s] = Unrolled(0, h, g, s)
  <2>1. 0 \in Int /\ \A s \in SUBSET S, v \in Int : s # {} => h[s][v] \in Int BY <1>2
  <2>2. PICK g : Recursion(g, S, Int, 0, h)
    <3> HIDE DEF it
    <3> QED BY <2>1, FoldExists
  <2> QED BY <2>2 DEF Recursion
<1>4. g = [s \in SUBSET S |-> IF s = {} THEN 0 ELSE f[Pick(s)] + g[s \ {Pick(s)}]]
  <2>1. ASSUME NEW s \in SUBSET S
        PROVE  g[s] = IF s = {} THEN 0 ELSE f[Pick(s)] + g[s \ {Pick(s)}]
    <3>1. g[s \ {Pick(s)}] \in Int OBVIOUS
    <3> QED BY <3>1, <1>2, <1>3 DEF Unrolled
  <2> QED BY <2>1
<1>5. it = [s \in SUBSET S |-> IF s = {} THEN 0 ELSE f[Pick(s)] + it[s \ {Pick(s)}]] BY <1>4
<1>6. Solves(it, f, S)
  <2> HIDE DEF it
  <2> QED BY <1>5 DEF Solves
<1> QED BY <1>1, <1>6

\* Solutions of the recursion agree, whatever the set they are made for.
LEMMA SumUnique ==
  ASSUME NEW f, NEW S, IsFiniteSet(S), NEW g, Solves(g, f, S),
         NEW T \in SUBSET S, NEW h, Solves(h, f, T)
  PROVE  h[T] = g[T]
<1> DEFINE F == {A \in SUBSET T : h[A] = g[A]}
<1>1. IsFiniteSet(T) BY FS_Subset
<1>2. ASSUME NEW A \in SUBSET T, \A x \in A : A \ {x} \in F PROVE A \in F
  <2>1. h[A] = IF A = {} THEN 0 ELSE f[Pick(A)] + h[A \ {Pick(A)}] BY DEF Solves
  <2>2. g[A] = IF A = {} THEN 0 ELSE f[Pick(A)] + g[A \ {Pick(A)}] BY DEF Solves
  <2>3. CASE A = {} BY <2>1, <2>2, <2>3
  <2>4. CASE A # {}
    <3>1. A \ {Pick(A)} \in F BY <1>2, <2>4, PickIn
    <3> QED BY <3>1, <2>1, <2>2, <2>4
  <2> QED BY <2>3, <2>4
<1>3. SUBSET T \subseteq F
  <2> HIDE DEF F
  <2> QED BY <1>1, <1>2, SubsetInduction
<1> QED BY <1>3

-----------------------------------------------------------------------------
LEMMA SumEmpty == ASSUME NEW f PROVE SumFunctionOnSet(f, {}) = 0
<1>1. PICK g : Solves(g, f, {}) /\ SumFunctionOnSet(f, {}) = g[{}]
  BY SumIsFold, FS_EmptySet
<1> QED BY <1>1 DEF Solves

LEMMA SumPicks ==
  ASSUME NEW f, NEW S, IsFiniteSet(S), \A x \in S : f[x] \in Int, S # {}
  PROVE  SumFunctionOnSet(f, S) = f[Pick(S)] + SumFunctionOnSet(f, S \ {Pick(S)})
<1> DEFINE T == S \ {Pick(S)}
<1>1. PICK g : Solves(g, f, S) /\ SumFunctionOnSet(f, S) = g[S]
  BY SumIsFold
<1>2. IsFiniteSet(T) /\ \A x \in T : f[x] \in Int BY FS_Subset
<1>3. PICK h : Solves(h, f, T) /\ SumFunctionOnSet(f, T) = h[T]
  BY <1>2, SumIsFold
<1>4. g[T] = h[T]
  <2> HIDE DEF T
  <2>1. T \in SUBSET S BY DEF T
  <2> QED BY <2>1, <1>1, <1>3, SumUnique
<1>5. g[S] = f[Pick(S)] + g[T] BY <1>1 DEF Solves
<1> QED BY <1>1, <1>3, <1>4, <1>5

\* The sum has the type of its summands ...
LEMMA SumInt ==
  ASSUME NEW f, NEW S, IsFiniteSet(S), \A x \in S : f[x] \in Int
  PROVE  SumFunctionOnSet(f, S) \in Int
<1> DEFINE F == {A \in SUBSET S : SumFunctionOnSet(f, A) \in Int}
<1>1. ASSUME NEW A \in SUBSET S, \A x \in A : A \ {x} \in F PROVE A \in F
  <2>1. CASE A = {} BY <2>1, SumEmpty
  <2>2. CASE A # {}
    <3>1. Pick(A) \in A /\ A \ {Pick(A)} \in F BY <1>1, <2>2, PickIn
    <3>2. SumFunctionOnSet(f, A) = f[Pick(A)] + SumFunctionOnSet(f, A \ {Pick(A)})
      BY <2>2, FS_Subset, SumPicks
    <3> QED BY <3>1, <3>2
  <2> QED BY <2>1, <2>2
<1>2. SUBSET S \subseteq F
  <2> HIDE DEF F
  <2> QED BY <1>1, SubsetInduction
<1> QED BY <1>2

\* ... and does not depend on the order: any element may be taken first.
LEMMA SumRemove ==
  ASSUME NEW f, NEW S, IsFiniteSet(S), \A x \in S : f[x] \in Int, NEW e \in S
  PROVE  SumFunctionOnSet(f, S) = f[e] + SumFunctionOnSet(f, S \ {e})
<1> DEFINE F == {A \in SUBSET S : \A x \in A :
                   SumFunctionOnSet(f, A) = f[x] + SumFunctionOnSet(f, A \ {x})}
<1>int. \A A \in SUBSET S : IsFiniteSet(A) /\ SumFunctionOnSet(f, A) \in Int
  BY FS_Subset, SumInt
<1>1. ASSUME NEW A \in SUBSET S, \A x \in A : A \ {x} \in F PROVE A \in F
  <2> SUFFICES ASSUME NEW x \in A
               PROVE  SumFunctionOnSet(f, A) = f[x] + SumFunctionOnSet(f, A \ {x})
    OBVIOUS
  <2>1. PICK p \in A : SumFunctionOnSet(f, A) = f[p] + SumFunctionOnSet(f, A \ {p})
    BY <1>int, SumPicks, PickIn
  <2>3. CASE x = p BY <2>1, <2>3
  <2>4. CASE x # p
    <3>1. x \in A \ {p} /\ p \in A \ {x} BY <2>1, <2>4
    <3>2. SumFunctionOnSet(f, A \ {p}) = f[x] + SumFunctionOnSet(f, (A \ {p}) \ {x})
      BY <3>1, <2>1, <1>1
    <3>3. SumFunctionOnSet(f, A \ {x}) = f[p] + SumFunctionOnSet(f, (A \ {x}) \ {p})
      BY <3>1, <1>1
    <3> DEFINE rest == SumFunctionOnSet(f, (A \ {p}) \ {x})
    <3>4. rest = SumFunctionOnSet(f, (A \ {x}) \ {p})
      <4>1. (A \ {p}) \ {x} = (A \ {x}) \ {p} OBVIOUS
      <4> QED BY <4>1
    <3>5. rest \in Int BY <1>int
    <3>6. f[x] \in Int /\ f[p] \in Int OBVIOUS
    <3>7. SumFunctionOnSet(f, A) = f[p] + (f[x] + rest) BY <2>1, <3>2
    <3>8. SumFunctionOnSet(f, A \ {x}) = f[p] + rest BY <3>3, <3>4
    <3> HIDE DEF rest
    <3> QED BY <3>5, <3>6, <3>7, <3>8
  <2> QED BY <2>3, <2>4
<1>2. SUBSET S \subseteq F
  <2> HIDE DEF F
  <2> QED BY <1>1, SubsetInduction
<1> QED BY <1>2

LEMMA SumAdd ==
  ASSUME NEW f, NEW S, IsFiniteSet(S), \A x \in S : f[x] \in Int,
         NEW e, e \notin S, f[e] \in Int
  PROVE  SumFunctionOnSet(f, S \cup {e}) = f[e] + SumFunctionOnSet(f, S)
<1>1. IsFiniteSet(S \cup {e}) BY FS_AddElement
<1>2. (S \cup {e}) \ {e} = S OBVIOUS
<1> QED BY <1>1, <1>2, SumRemove

\* Summands that agree have one sum ...
LEMMA SumCongruent ==
  ASSUME NEW f, NEW g, NEW S, IsFiniteSet(S), \A x \in S : f[x] \in Int /\ f[x] = g[x]
  PROVE  SumFunctionOnSet(f, S) = SumFunctionOnSet(g, S)
<1> DEFINE F == {A \in SUBSET S : SumFunctionOnSet(f, A) = SumFunctionOnSet(g, A)}
<1>1. ASSUME NEW A \in SUBSET S, \A x \in A : A \ {x} \in F PROVE A \in F
  <2>1. CASE A = {} BY <2>1, SumEmpty
  <2>2. CASE A # {}
    <3>1. PICK p \in A : SumFunctionOnSet(f, A) = f[p] + SumFunctionOnSet(f, A \ {p})
                         /\ SumFunctionOnSet(g, A) = g[p] + SumFunctionOnSet(g, A \ {p})
      BY <2>2, FS_Subset, SumPicks, PickIn
    <3>2. SumFunctionOnSet(f, A \ {p}) = SumFunctionOnSet(g, A \ {p}) BY <1>1
    <3>3. f[p] = g[p] OBVIOUS
    <3> QED BY <3>1, <3>2, <3>3
  <2> QED BY <2>1, <2>2
<1>2. SUBSET S \subseteq F
  <2> HIDE DEF F
  <2> QED BY <1>1, SubsetInduction
<1> QED BY <1>2

\* ... and with larger summands the sum is not smaller.
LEMMA SumMonotone ==
  ASSUME NEW f, NEW g, NEW S, IsFiniteSet(S),
         \A x \in S : f[x] \in Int /\ g[x] \in Int /\ f[x] <= g[x]
  PROVE  SumFunctionOnSet(f, S) <= SumFunctionOnSet(g, S)
<1> DEFINE F == {A \in SUBSET S : SumFunctionOnSet(f, A) <= SumFunctionOnSet(g, A)}
<1>int. \A A \in SUBSET S : /\ IsFiniteSet(A)
                            /\ SumFunctionOnSet(f, A) \in Int /\ SumFunctionOnSet(g, A) \in Int
  BY FS_Subset, SumInt
<1>1. ASSUME NEW A \in SUBSET S, \A x \in A : A \ {x} \in F PROVE A \in F
  <2>1. CASE A = {} BY <2>1, SumEmpty
  <2>2. CASE A # {}
    <3>1. PICK p \in A : SumFunctionOnSet(f, A) = f[p] + SumFunctionOnSet(f, A \ {p})
                         /\ SumFunctionOnSet(g, A) = g[p] + SumFunctionOnSet(g, A \ {p})
      BY <2>2, <1>int, SumPicks, PickIn
    <3> DEFINE rf == SumFunctionOnSet(f, A \ {p})
               rg == SumFunctionOnSet(g, A \ {p})
    <3>2. rf <= rg /\ rf \in Int /\ rg \in Int BY <1>1, <1>int
    <3>3. f[p] <= g[p] /\ f[p] \in Int /\ g[p] \in Int OBVIOUS
    <3> HIDE DEF rf, rg
    <3>4. f[p] + rf <= g[p] + rg BY <3>2, <3>3
    <3> QED BY <3>1, <3>4 DEF rf, rg
  <2> QED BY <2>1, <2>2
<1>2. SUBSET S \subseteq F
  <2> HIDE DEF F
  <2> QED BY <1>1, SubsetInduction
<1> QED BY <1>2

\* What one changed summand does to the sum.
LEMMA SumUpdate ==
  ASSUME NEW f, NEW S, IsFiniteSet(S), NEW e \in S, \A x \in S : f[x] \in Int,
         NEW g, g[e] \in Int, \A x \in S : x # e => g[x] = f[x]
  PROVE  SumFunctionOnSet(g, S) = SumFunctionOnSet(f, S) - f[e] + g[e]
<1>1. IsFiniteSet(S \ {e}) BY FS_Subset
<1>2. SumFunctionOnSet(f, S) = f[e] + SumFunctionOnSet(f, S \ {e}) BY SumRemove
<1>3. SumFunctionOnSet(g, S) = g[e] + SumFunctionOnSet(g, S \ {e})
  <2>1. \A x \in S : g[x] \in Int OBVIOUS
  <2> QED BY <2>1, SumRemove
<1>4. SumFunctionOnSet(f, S \ {e}) = SumFunctionOnSet(g, S \ {e}) BY <1>1, SumCongruent
<1>5. SumFunctionOnSet(f, S \ {e}) \in Int BY <1>1, SumInt
<1> DEFINE rest == SumFunctionOnSet(f, S \ {e})
<1> HIDE DEF rest
<1>6. /\ SumFunctionOnSet(f, S) = f[e] + rest /\ SumFunctionOnSet(g, S) = g[e] + rest
      /\ rest \in Int /\ f[e] \in Int
  BY <1>2, <1>3, <1>4, <1>5 DEF rest
<1> QED BY <1>6

LEMMA SumExcept ==
  ASSUME NEW S, IsFiniteSet(S), NEW f, f = [x \in S |-> f[x]], \A x \in S : f[x] \in Int,
         NEW e \in S, NEW v \in Int
  PROVE  SumFunctionOnSet([f EXCEPT ![e] = v], S) = SumFunctionOnSet(f, S) - f[e] + v
<1> DEFINE g == [f EXCEPT ![e] = v]
<1>1. g[e] = v /\ \A x \in S : x # e => g[x] = f[x] OBVIOUS
<1> HIDE DEF g
<1>2. SumFunctionOnSet(g, S) = SumFunctionOnSet(f, S) - f[e] + g[e] BY <1>1, SumUpdate
<1> QED BY <1>1, <1>2 DEF g

\* A sum of natural numbers is one, and is zero if they all are.
LEMMA SumNat ==
  ASSUME NEW f, NEW S, IsFiniteSet(S), \A x \in S : f[x] \in Nat
  PROVE  SumFunctionOnSet(f, S) \in Nat
<1> DEFINE F == {A \in SUBSET S : SumFunctionOnSet(f, A) \in Nat}
<1>1. ASSUME NEW A \in SUBSET S, \A x \in A : A \ {x} \in F PROVE A \in F
  <2>1. CASE A = {} BY <2>1, SumEmpty
  <2>2. CASE A # {}
    <3>1. PICK p \in A : SumFunctionOnSet(f, A) = f[p] + SumFunctionOnSet(f, A \ {p})
      <4>1. \A x \in A : f[x] \in Int OBVIOUS
      <4> QED BY <4>1, <2>2, FS_Subset, SumPicks, PickIn
    <3>2. SumFunctionOnSet(f, A \ {p}) \in Nat /\ f[p] \in Nat BY <1>1
    <3> QED BY <3>1, <3>2
  <2> QED BY <2>1, <2>2
<1>2. SUBSET S \subseteq F
  <2> HIDE DEF F
  <2> QED BY <1>1, SubsetInduction
<1> QED BY <1>2

LEMMA SumZero ==
  ASSUME NEW f, NEW S, IsFiniteSet(S), \A x \in S : f[x] = 0
  PROVE  SumFunctionOnSet(f, S) = 0
<1> DEFINE F == {A \in SUBSET S : SumFunctionOnSet(f, A) = 0}
<1>1. ASSUME NEW A \in SUBSET S, \A x \in A : A \ {x} \in F PROVE A \in F
  <2>1. CASE A = {} BY <2>1, SumEmpty
  <2>2. CASE A # {}
    <3>1. PICK p \in A : SumFunctionOnSet(f, A) = f[p] + SumFunctionOnSet(f, A \ {p})
      <4>1. \A x \in A : f[x] \in Int OBVIOUS
      <4> QED BY <4>1, <2>2, FS_Subset, SumPicks, PickIn
    <3> QED BY <3>1, <1>1
  <2> QED BY <2>1, <2>2
<1>2. SUBSET S \subseteq F
  <2> HIDE DEF F
  <2> QED BY <1>1, SubsetInduction
<1> QED BY <1>2

\* Fewer natural summands do not sum to more.
LEMMA SumSubset ==
  ASSUME NEW f, NEW S, IsFiniteSet(S), \A x \in S : f[x] \in Nat, NEW T \in SUBSET S
  PROVE  SumFunctionOnSet(f, T) <= SumFunctionOnSet(f, S)
<1> DEFINE F == {A \in SUBSET S : SumFunctionOnSet(f, T \cap A) <= SumFunctionOnSet(f, A)}
<1>nat. \A A \in SUBSET S : IsFiniteSet(A) /\ SumFunctionOnSet(f, A) \in Nat BY FS_Subset, SumNat
<1>1. ASSUME NEW A \in SUBSET S, \A x \in A : A \ {x} \in F PROVE A \in F
  <2>1. CASE A = {}
    <3>1. T \cap A = A BY <2>1
    <3> QED BY <3>1, <1>nat
  <2>2. CASE A # {}
    <3>1. PICK p \in A : TRUE BY <2>2
    <3> DEFINE rest == SumFunctionOnSet(f, A \ {p})
               part == SumFunctionOnSet(f, (T \cap A) \ {p})
    <3>2. SumFunctionOnSet(f, A) = f[p] + rest BY <1>nat, SumRemove
    <3>3. part <= rest
      <4>1. (T \cap A) \ {p} = T \cap (A \ {p}) OBVIOUS
      <4> QED BY <4>1, <1>1
    <3>4. rest \in Nat /\ part \in Nat /\ f[p] \in Nat BY <1>nat
    <3>5. CASE p \in T
      <4>1. p \in T \cap A /\ IsFiniteSet(T \cap A) BY <3>5, <1>nat
      <4>2. \A x \in T \cap A : f[x] \in Int OBVIOUS
      <4>3. SumFunctionOnSet(f, T \cap A) = f[p] + part BY <4>1, <4>2, SumRemove
      <4> HIDE DEF rest, part
      <4>4. f[p] + part <= f[p] + rest BY <3>3, <3>4
      <4> QED BY <4>3, <4>4, <3>2
    <3>6. CASE p \notin T
      <4>1. (T \cap A) \ {p} = T \cap A BY <3>6
      <4>2. SumFunctionOnSet(f, T \cap A) = part BY <4>1
      <4> HIDE DEF rest, part
      <4>3. part <= f[p] + rest BY <3>3, <3>4
      <4> QED BY <4>2, <4>3, <3>2
    <3> QED BY <3>5, <3>6
  <2> QED BY <2>1, <2>2
<1>2. SUBSET S \subseteq F
  <2> HIDE DEF F
  <2> QED BY <1>1, SubsetInduction
<1>3. T \cap S = T OBVIOUS
<1> QED BY <1>2, <1>3
=============================================================================

----------------------------- MODULE FoldLemmas -----------------------------
(***************************************************************************)
(* Induction and folds, for the proofs of the other modules.  A statement  *)
(* with an operator for a parameter cannot be instantiated by the provers, *)
(* so a predicate is given by the set of what satisfies it, and the step   *)
(* of a fold by a function from accumulators to functions of elements.     *)
(***************************************************************************)
EXTENDS Integers, Sequences, FiniteSets, Functions, FiniteSetTheorems, WellFoundedInduction, TLAPS, FiniteSetsExt

\* A leaf that names no prover is given to these, one after the other.
USE SMT, Z3, Zenon

-----------------------------------------------------------------------------
(* Induction. *)

\* A set of naturals that is not empty has a least element.
LEMMA LeastNatural ==
    ASSUME NEW T, T \subseteq Nat, T # {}
    PROVE  \E n \in T : \A m \in T : n <= m
<1> DEFINE Less == {p \in Nat \X Nat : p[1] < p[2]}
<1>1. OpToRel(<, Nat) = Less
    BY Zenon DEF OpToRel
<1>2. IsWellFoundedOn(Less, Nat)
    BY <1>1, NatLessThanWellFounded, Zenon
<1>3. PICK n \in T : \A m \in T : <<m, n>> \notin Less
    BY <1>2, WFMin, Zenon
<1>4. \A m \in T : ~(m < n)
    BY <1>3, Zenon
<1> QED
    BY <1>4

\* Induction over the naturals: the numbers of T are those with the property.
LEMMA NaturalInduction ==
    ASSUME NEW T, 0 \in T, \A n \in Nat : n \in T => n + 1 \in T
    PROVE  \A n \in Nat : n \in T
<1> SUFFICES ASSUME Nat \ T # {}
             PROVE  FALSE
    OBVIOUS
<1>1. PICK n \in Nat \ T : \A m \in Nat \ T : n <= m
    BY LeastNatural, Zenon
<1>2. n # 0 /\ n - 1 \in Nat
    OBVIOUS
<1> QED
    BY <1>1, <1>2

\* The sizes of the subsets of a finite set.
LEMMA SubsetSizes ==
    ASSUME NEW D, IsFiniteSet(D)
    PROVE  \A S \in SUBSET D :
               /\ Cardinality(S) \in Nat
               /\ Cardinality(S) = 0 <=> S = {}
               /\ Cardinality(S) <= Cardinality(D)
               /\ \A x \in S : /\ S \ {x} \in SUBSET D
                               /\ Cardinality(S \ {x}) = Cardinality(S) - 1
<1> SUFFICES ASSUME NEW S \in SUBSET D
             PROVE  /\ Cardinality(S) \in Nat
                    /\ Cardinality(S) = 0 <=> S = {}
                    /\ Cardinality(S) <= Cardinality(D)
                    /\ \A x \in S : /\ S \ {x} \in SUBSET D
                                    /\ Cardinality(S \ {x}) = Cardinality(S) - 1
    OBVIOUS
<1>1. IsFiniteSet(S) /\ Cardinality(S) <= Cardinality(D)
    BY FS_Subset
<1>2. Cardinality(S) \in Nat
    BY <1>1, FS_CardinalityType
<1>3. Cardinality(S) = 0 <=> S = {}
    BY <1>1, FS_EmptySet
<1>4. \A x \in S : Cardinality(S \ {x}) = Cardinality(S) - 1
    BY <1>1, FS_RemoveElement
<1> QED
    BY <1>1, <1>2, <1>3, <1>4

\* Induction over a finite set: the subsets in F are those with the property.
LEMMA FiniteInduction ==
    ASSUME NEW D, IsFiniteSet(D), NEW F, {} \in F,
           \A S \in SUBSET D : S # {} /\ (\A x \in S : S \ {x} \in F) => S \in F
    PROVE  \A S \in SUBSET D : S \in F
<1> DEFINE T == {n \in Nat : \A S \in SUBSET D : Cardinality(S) = n => S \in F}
<1>1. 0 \in T
    BY SubsetSizes
<1>2. ASSUME NEW n \in Nat, n \in T
      PROVE  n + 1 \in T
  <2>1. ASSUME NEW S \in SUBSET D, Cardinality(S) = n + 1
        PROVE  S \in F
    BY <1>2, <2>1, SubsetSizes
  <2> QED
    BY <2>1
<1> HIDE DEF T
<1>3. \A n \in Nat : n \in T
    BY <1>1, <1>2, NaturalInduction
<1> QED
    BY <1>3, SubsetSizes DEF T

-----------------------------------------------------------------------------
(* Folds over a finite set, as MapThenFoldSet computes them: pick names the *)
(* element to take next, val what it contributes.                          *)

Picks(pick, D) == \A S \in SUBSET D : S # {} => pick[S] \in S

IsFold(it, family, base, step, val, pick) ==
    \A S \in family :
        it[S] = IF S = {} THEN base ELSE step[it[S \ {pick[S]}]][val[pick[S]]]

\* The recursion has a solution, with values among the accumulators.
LEMMA FoldExists ==
    ASSUME NEW D, IsFiniteSet(D), NEW A, NEW E,
           NEW step \in [A -> [E -> A]], NEW base \in A, NEW val \in [D -> E],
           NEW pick, Picks(pick, D)
    PROVE  \E it \in [SUBSET D -> A] : IsFold(it, SUBSET D, base, step, val, pick)
<1> DEFINE Sub(k) == {S \in SUBSET D : Cardinality(S) <= k}
           Val(it, S) == IF S = {} THEN base ELSE step[it[S \ {pick[S]}]][val[pick[S]]]
           T == {k \in Nat : \E it \in [Sub(k) -> A] : \A S \in Sub(k) : it[S] = Val(it, S)}
<1>1. \A S \in SUBSET D : S # {} => pick[S] \in S /\ pick[S] \in D
    BY Zenon DEF Picks
<1>2. 0 \in T
  <2> DEFINE it == [S \in Sub(0) |-> base]
  <2>1. it \in [Sub(0) -> A]
    OBVIOUS
  <2>2. \A S \in Sub(0) : S = {}
    BY SubsetSizes
  <2>3. \A S \in Sub(0) : it[S] = Val(it, S)
    BY <2>2, Zenon
  <2> HIDE DEF it, Sub, Val
  <2> QED
    BY <2>1, <2>3
<1>3. ASSUME NEW k \in Nat, k \in T
      PROVE  k + 1 \in T
  <2>1. PICK it \in [Sub(k) -> A] : \A S \in Sub(k) : it[S] = Val(it, S)
    BY <1>3, Zenon
  <2> DEFINE more == [S \in Sub(k + 1) |-> Val(it, S)]
  <2>2. ASSUME NEW S \in Sub(k + 1), S # {}
        PROVE  S \ {pick[S]} \in Sub(k)
    <3>1. S \in SUBSET D /\ Cardinality(S) <= k + 1 /\ pick[S] \in S
      BY <1>1, <2>2, Zenon
    <3>2. /\ Cardinality(S) \in Nat /\ S \ {pick[S]} \in SUBSET D
          /\ Cardinality(S \ {pick[S]}) = Cardinality(S) - 1
      <4>1. S \in SUBSET D => Cardinality(S) \in Nat /\ \A x \in S :
                /\ S \ {x} \in SUBSET D /\ Cardinality(S \ {x}) = Cardinality(S) - 1
        BY SubsetSizes, Zenon
      <4> QED
        BY <3>1, <4>1, Zenon
    <3> QED
      BY <3>1, <3>2
  <2>3. \A S \in Sub(k + 1) : Val(it, S) \in A
    <3> HIDE DEF Sub
    <3>1. \A S \in Sub(k + 1) : S # {} => pick[S] \in D
      BY <1>1, Zenon DEF Sub
    <3> QED
      BY <2>2, <3>1, Zenon
  <2>4. Sub(k) \subseteq Sub(k + 1)
    BY SubsetSizes
  <2>5. more \in [Sub(k + 1) -> A] /\ \A S \in Sub(k + 1) : more[S] = Val(it, S)
    <3> HIDE DEF Sub, Val
    <3> QED
      BY <2>3
  <2> HIDE DEF more
  <2>6. \A S \in Sub(k) : more[S] = it[S]
    <3> HIDE DEF Sub, Val
    <3> QED
      BY <2>1, <2>4, <2>5
  <2>7. \A S \in Sub(k + 1) : Val(more, S) = Val(it, S)
    <3> HIDE DEF Sub
    <3> QED
      BY <2>2, <2>6, Zenon
  <2> HIDE DEF Sub, Val
  <2> QED
    BY <2>5, <2>7
<1>4. Cardinality(D) \in Nat /\ Sub(Cardinality(D)) = SUBSET D
    BY SubsetSizes
<1> HIDE DEF T
<1>5. Cardinality(D) \in T
    BY <1>2, <1>3, <1>4, NaturalInduction
<1>6. \E it \in [SUBSET D -> A] : \A S \in SUBSET D : it[S] = Val(it, S)
  <2> HIDE DEF Val, Sub
  <2> QED
    BY <1>4, <1>5, Zenon DEF T
<1> QED
    BY <1>6, Zenon DEF IsFold

-----------------------------------------------------------------------------
(* Sums of natural numbers: SumFunctionOnSet(f, S) takes the elements of S *)
(* in the order CHOOSE gives them; the sum does not depend on it.          *)

AnyOf(D) == [S \in SUBSET D |-> CHOOSE x \in S : TRUE]
Plus == [a \in Nat |-> [e \in Nat |-> e + a]]

SumsOn(it, f, D) ==
    /\ it \in [SUBSET D -> Nat]
    /\ IsFold(it, SUBSET D, 0, Plus, f, AnyOf(D))
    /\ \A S \in SUBSET D : SumFunctionOnSet(f, S) = it[S]

\* The sum over any subset is the value there of one and the same recursion.
LEMMA SumIsFold ==
    ASSUME NEW D, IsFiniteSet(D), NEW f, \A x \in D : f[x] \in Nat
    PROVE  \E it : SumsOn(it, f, D)
<1> DEFINE val == [x \in D |-> f[x]]
<1>1. Picks(AnyOf(D), D)
    BY DEF Picks, AnyOf
<1>2. Plus \in [Nat -> [Nat -> Nat]]
    BY DEF Plus
<1>3. val \in [D -> Nat]
    OBVIOUS
<1>4. PICK it \in [SUBSET D -> Nat] : IsFold(it, SUBSET D, 0, Plus, val, AnyOf(D))
  <2> HIDE DEF val
  <2> DEFINE pick == AnyOf(D)
             zero == 0
  <2>1. zero \in Nat
    OBVIOUS
  <2>2. Picks(pick, D)
    BY <1>1
  <2> HIDE DEF pick, zero
  <2>3. \E it \in [SUBSET D -> Nat] : IsFold(it, SUBSET D, zero, Plus, val, pick)
    BY <1>2, <1>3, <2>1, <2>2, FoldExists, Zenon
  <2> QED
    BY <2>3 DEF pick, zero
<1>5. IsFold(it, SUBSET D, 0, Plus, f, AnyOf(D))
    BY <1>1, <1>4, Zenon DEF IsFold, Picks
<1>6. ASSUME NEW S \in SUBSET D
      PROVE  SumFunctionOnSet(f, S) = it[S]
  <2> DEFINE Rec(g) == g = [s \in SUBSET S |->
                              IF s = {} THEN 0
                              ELSE f[CHOOSE x \in s : TRUE] + g[s \ {CHOOSE x \in s : TRUE}]]
             sub == [s \in SUBSET S |-> it[s]]
             sum == CHOOSE g : Rec(g)
  <2>1. SumFunctionOnSet(f, S) = sum[S]
    BY DEF SumFunctionOnSet, FoldFunctionOnSet, MapThenFoldSet
  <2>2. ASSUME NEW s \in SUBSET S
        PROVE  it[s] = IF s = {} THEN 0
                       ELSE f[CHOOSE x \in s : TRUE] + it[s \ {CHOOSE x \in s : TRUE}]
    <3>1. CASE s = {}
      BY <3>1, <1>5, Zenon DEF IsFold
    <3>2. CASE s # {}
      <4> DEFINE p == CHOOSE x \in s : TRUE
      <4>1. p \in D /\ s \in SUBSET D /\ s \ {p} \in SUBSET D
        BY <3>2
      <4>2. AnyOf(D)[s] = p
        BY <4>1 DEF AnyOf
      <4> HIDE DEF p
      <4>3. f[p] \in Nat /\ it[s \ {p}] \in Nat
        BY <4>1
      <4>4. it[s] = Plus[it[s \ {p}]][f[p]]
        BY <3>2, <4>1, <4>2, <1>5, Zenon DEF IsFold
      <4> QED
        BY <3>2, <4>3, <4>4 DEF Plus, p
    <3> QED
      BY <3>1, <3>2
  <2>3. Rec(sub)
    BY <2>2
  <2>4. Rec(sum)
    <3> HIDE DEF sub, Rec
    <3> QED
      BY <2>3, Zenon
  <2>5. \A s \in SUBSET S : sum[s] = IF s = {} THEN 0
                       ELSE f[CHOOSE x \in s : TRUE] + sum[s \ {CHOOSE x \in s : TRUE}]
    <3> HIDE DEF sum
    <3> QED
      BY <2>4
  <2> HIDE DEF sum
  <2> DEFINE F == {s \in SUBSET S : sum[s] = it[s]}
  <2>6. {} \in F
    BY <2>2, <2>5, Zenon
  <2>7. ASSUME NEW s \in SUBSET S, s # {}, \A x \in s : s \ {x} \in F
        PROVE  s \in F
    <3> DEFINE p == CHOOSE x \in s : TRUE
    <3>1. p \in s
      BY <2>7
    <3>2. sum[s] = f[p] + sum[s \ {p}] /\ it[s] = f[p] + it[s \ {p}]
      BY <2>2, <2>5, <2>7, Zenon
    <3> QED
      BY <2>7, <3>1, <3>2, Zenon
  <2> HIDE DEF F
  <2>8. S \in F
    BY <2>6, <2>7, FiniteInduction, FS_Subset, Zenon
  <2> QED
    BY <2>1, <2>8 DEF F
<1> QED
    BY <1>5, <1>6 DEF SumsOn

\* Sums are natural numbers, nothing sums to 0, and some element comes first.
LEMMA SumBasics ==
    ASSUME NEW D, IsFiniteSet(D), NEW f, \A x \in D : f[x] \in Nat
    PROVE  /\ SumFunctionOnSet(f, {}) = 0
           /\ \A S \in SUBSET D : SumFunctionOnSet(f, S) \in Nat
           /\ \A S \in SUBSET D : S # {} =>
                  \E x \in S : SumFunctionOnSet(f, S) = f[x] + SumFunctionOnSet(f, S \ {x})
<1>0. PICK it : SumsOn(it, f, D)
    BY SumIsFold
<1>1. /\ it \in [SUBSET D -> Nat]
      /\ IsFold(it, SUBSET D, 0, Plus, f, AnyOf(D))
      /\ \A S \in SUBSET D : SumFunctionOnSet(f, S) = it[S]
    BY <1>0 DEF SumsOn
<1>2. {} \in SUBSET D /\ it[{}] = 0
    BY <1>1, Zenon DEF IsFold
<1>3. ASSUME NEW S \in SUBSET D, S # {}
      PROVE  \E x \in S : SumFunctionOnSet(f, S) = f[x] + SumFunctionOnSet(f, S \ {x})
  <2> DEFINE p == CHOOSE x \in S : TRUE
  <2>1. p \in S /\ S \ {p} \in SUBSET D
    BY <1>3
  <2>2. AnyOf(D)[S] = p
    BY DEF AnyOf
  <2> HIDE DEF p
  <2>3. it[S] = Plus[it[S \ {p}]][f[p]]
    BY <1>1, <1>3, <2>2, Zenon DEF IsFold
  <2>4. it[S] = f[p] + it[S \ {p}]
    BY <1>1, <2>1, <2>3 DEF Plus
  <2> QED
    BY <1>1, <2>1, <2>4, Zenon
<1>4. SumFunctionOnSet(f, {}) = 0 /\ \A S \in SUBSET D : SumFunctionOnSet(f, S) \in Nat
    BY <1>1, <1>2
<1> QED
    BY <1>3, <1>4

\* Any element can be taken first.
LEMMA SumRemove ==
    ASSUME NEW D, IsFiniteSet(D), NEW f, \A x \in D : f[x] \in Nat
    PROVE  \A S \in SUBSET D : \A x \in S :
               SumFunctionOnSet(f, S) = f[x] + SumFunctionOnSet(f, S \ {x})
<1> DEFINE Sum(S) == SumFunctionOnSet(f, S)
           F == {S \in SUBSET D : \A x \in S : Sum(S) = f[x] + Sum(S \ {x})}
<1>1. \A S \in SUBSET D : Sum(S) \in Nat
    BY SumBasics
<1>2. \A S \in SUBSET D : S # {} => \E x \in S : Sum(S) = f[x] + Sum(S \ {x})
    BY SumBasics
<1> HIDE DEF Sum
<1>3. {} \in F
    OBVIOUS
<1>4. ASSUME NEW S \in SUBSET D, S # {}, \A x \in S : S \ {x} \in F
      PROVE  S \in F
  <2>1. PICK p \in S : Sum(S) = f[p] + Sum(S \ {p})
    BY <1>2, <1>4
  <2>2. ASSUME NEW x \in S, x # p
        PROVE  Sum(S) = f[x] + Sum(S \ {x})
    <3>1. Sum(S \ {p}) = f[x] + Sum((S \ {p}) \ {x})
      BY <1>4, <2>2
    <3>2. Sum(S \ {x}) = f[p] + Sum((S \ {x}) \ {p})
      BY <1>4, <2>2
    <3>3. (S \ {p}) \ {x} = (S \ {x}) \ {p} /\ (S \ {p}) \ {x} \in SUBSET D
      OBVIOUS
    <3>4. Sum((S \ {p}) \ {x}) \in Nat /\ f[x] \in Nat /\ f[p] \in Nat
      BY <1>1, <3>3
    <3> QED
      BY <2>1, <3>1, <3>2, <3>3, <3>4
  <2> QED
    BY <2>1, <2>2
<1> HIDE DEF F
<1>5. \A S \in SUBSET D : S \in F
    BY <1>3, <1>4, FiniteInduction, Zenon
<1> QED
    BY <1>5, Zenon DEF F, Sum

\* Functions that agree on a set have the same sum over it.
LEMMA SumSame ==
    ASSUME NEW D, IsFiniteSet(D), NEW f, NEW g,
           \A x \in D : f[x] \in Nat /\ g[x] = f[x]
    PROVE  SumFunctionOnSet(f, D) = SumFunctionOnSet(g, D)
<1> DEFINE F == {S \in SUBSET D : SumFunctionOnSet(f, S) = SumFunctionOnSet(g, S)}
<1>1. \A x \in D : f[x] \in Nat
    OBVIOUS
<1>2. \A x \in D : g[x] \in Nat
    OBVIOUS
<1>3. {} \in F
    BY <1>1, <1>2, SumBasics
<1>4. ASSUME NEW S \in SUBSET D, S # {}, \A x \in S : S \ {x} \in F
      PROVE  S \in F
  <2>1. PICK x \in S : TRUE
    BY <1>4
  <2>2. SumFunctionOnSet(f, S) = f[x] + SumFunctionOnSet(f, S \ {x})
    BY <1>1, SumRemove
  <2>3. SumFunctionOnSet(g, S) = g[x] + SumFunctionOnSet(g, S \ {x})
    BY <1>2, SumRemove
  <2> QED
    BY <1>4, <2>2, <2>3
<1> HIDE DEF F
<1>5. D \in F
    BY <1>3, <1>4, FiniteInduction
<1> QED
    BY <1>5 DEF F

\* The sum over one more element.
LEMMA SumAdd ==
    ASSUME NEW S, IsFiniteSet(S), NEW y, y \notin S, NEW f, \A x \in S \cup {y} : f[x] \in Nat
    PROVE  SumFunctionOnSet(f, S \cup {y}) = SumFunctionOnSet(f, S) + f[y]
<1> DEFINE D == S \cup {y}
<1>1. IsFiniteSet(D) /\ D \ {y} = S /\ y \in D /\ D \in SUBSET D
    BY FS_AddElement
<1>2. S \in SUBSET D /\ \A x \in D : f[x] \in Nat
    OBVIOUS
<1> HIDE DEF D
<1>3. SumFunctionOnSet(f, D) = f[y] + SumFunctionOnSet(f, D \ {y})
    BY <1>1, <1>2, SumRemove
<1>4. SumFunctionOnSet(f, S) \in Nat /\ f[y] \in Nat
    BY <1>1, <1>2, SumBasics
<1>5. SumFunctionOnSet(f, D) = SumFunctionOnSet(f, S) + f[y]
    BY <1>1, <1>3, <1>4
<1> QED
    BY <1>5 DEF D

\* A part sums to at most the whole, and the rest to the difference.
LEMMA SumSplit ==
    ASSUME NEW D, IsFiniteSet(D), NEW f, \A x \in D : f[x] \in Nat, NEW P \in SUBSET D
    PROVE  SumFunctionOnSet(f, D) = SumFunctionOnSet(f, P) + SumFunctionOnSet(f, D \ P)
<1> DEFINE Sum(S) == SumFunctionOnSet(f, S)
           F == {S \in SUBSET D : Sum(S) = Sum(S \cap P) + Sum(S \ P)}
<1>1. \A S \in SUBSET D : Sum(S) \in Nat
    BY SumBasics
<1>2. Sum({}) = 0
    BY SumBasics
<1>3. \A S \in SUBSET D : \A x \in S : Sum(S) = f[x] + Sum(S \ {x})
  <2>1. ASSUME NEW S \in SUBSET D, NEW x \in S
        PROVE  Sum(S) = f[x] + Sum(S \ {x})
    BY SumRemove
  <2> QED
    BY <2>1, Zenon
<1> HIDE DEF Sum
<1>4. {} \in F
  <2>1. {} \cap P = {} /\ {} \ P = {}
    OBVIOUS
  <2> QED
    BY <1>2, <2>1
<1>5. ASSUME NEW S \in SUBSET D, S # {}, \A x \in S : S \ {x} \in F
      PROVE  S \in F
  <2>1. PICK x \in S : TRUE
    BY <1>5
  <2>2. Sum(S) = f[x] + Sum(S \ {x}) /\ f[x] \in Nat
    BY <1>3
  <2>3. Sum(S \ {x}) = Sum((S \ {x}) \cap P) + Sum((S \ {x}) \ P)
    BY <1>5
  <2>4. /\ Sum((S \ {x}) \cap P) \in Nat /\ Sum((S \ {x}) \ P) \in Nat
        /\ Sum(S \cap P) \in Nat /\ Sum(S \ P) \in Nat
    BY <1>1
  <2>5. CASE x \in P
    <3>1. (S \ {x}) \ P = S \ P /\ (S \ {x}) \cap P = (S \cap P) \ {x} /\ x \in S \cap P
      BY <2>5
    <3>2. Sum(S \cap P) = f[x] + Sum((S \cap P) \ {x})
      BY <1>3, <3>1
    <3>3. Sum((S \ {x}) \ P) = Sum(S \ P) /\ Sum((S \ {x}) \cap P) = Sum((S \cap P) \ {x})
      BY <3>1, Zenon
    <3>4. Sum(S) = Sum(S \cap P) + Sum(S \ P)
      BY <2>2, <2>3, <2>4, <3>2, <3>3
    <3> QED
      BY <3>4
  <2>6. CASE x \notin P
    <3>1. (S \ {x}) \cap P = S \cap P /\ (S \ {x}) \ P = (S \ P) \ {x} /\ x \in S \ P
      BY <2>6
    <3>2. Sum(S \ P) = f[x] + Sum((S \ P) \ {x})
      BY <1>3, <3>1
    <3>3. Sum((S \ {x}) \cap P) = Sum(S \cap P) /\ Sum((S \ {x}) \ P) = Sum((S \ P) \ {x})
      BY <3>1, Zenon
    <3>4. Sum(S) = Sum(S \cap P) + Sum(S \ P)
      BY <2>2, <2>3, <2>4, <3>2, <3>3
    <3> QED
      BY <3>4
  <2> QED
    BY <2>5, <2>6
<1> HIDE DEF F
<1>6. D \in F
    BY <1>4, <1>5, FiniteInduction, Zenon
<1>7. D \cap P = P
    OBVIOUS
<1> QED
    BY <1>6, <1>7 DEF F, Sum

\* Renumbering a stretch of a sequence does not change its sum.
LEMMA SumShift ==
    ASSUME NEW k \in Nat, NEW n \in Nat, NEW f, \A i \in 1 .. k + n : f[i] \in Nat,
           NEW g, \A i \in 1 .. n : g[i] = f[k + i]
    PROVE  SumFunctionOnSet(g, 1 .. n) = SumFunctionOnSet(f, k + 1 .. k + n)
<1> DEFINE T == {m \in Nat : m <= n =>
                    SumFunctionOnSet(g, 1 .. m) = SumFunctionOnSet(f, k + 1 .. k + m)}
<1>1. \A i \in 1 .. n : g[i] \in Nat /\ f[k + i] \in Nat
    OBVIOUS
<1>2. \A m \in Nat : IsFiniteSet(1 .. m) /\ IsFiniteSet(k + 1 .. k + m)
    BY FS_Interval
<1>3. 0 \in T
  <2>1. 1 .. 0 = {} /\ k + 1 .. k + 0 = {}
    OBVIOUS
  <2>2. SumFunctionOnSet(g, {}) = 0
    BY <1>1, <1>2, SumBasics
  <2>3. SumFunctionOnSet(f, {}) = 0
    <3>1. \A i \in k + 1 .. k + n : f[i] \in Nat
      OBVIOUS
    <3> QED
      BY <1>2, <3>1, SumBasics
  <2> QED
    BY <2>1, <2>2, <2>3
<1>4. ASSUME NEW m \in Nat, m \in T
      PROVE  m + 1 \in T
  <2> SUFFICES ASSUME m + 1 <= n
               PROVE  SumFunctionOnSet(g, 1 .. m + 1) = SumFunctionOnSet(f, k + 1 .. k + (m + 1))
    OBVIOUS
  <2>1. 1 .. m + 1 = 1 .. m \cup {m + 1} /\ m + 1 \notin 1 .. m
    OBVIOUS
  <2>2. /\ k + 1 .. k + (m + 1) = k + 1 .. k + m \cup {k + m + 1}
        /\ k + m + 1 \notin k + 1 .. k + m
    OBVIOUS
  <2>3. SumFunctionOnSet(g, 1 .. m + 1) = SumFunctionOnSet(g, 1 .. m) + g[m + 1]
    <3> DEFINE I == 1 .. m
               y == m + 1
    <3>1. IsFiniteSet(I) /\ y \notin I /\ \A i \in I \cup {y} : g[i] \in Nat
      BY <1>1, <1>2
    <3> HIDE DEF I, y
    <3>2. SumFunctionOnSet(g, I \cup {y}) = SumFunctionOnSet(g, I) + g[y]
      BY <3>1, SumAdd, Zenon
    <3>3. SumFunctionOnSet(g, 1 .. m + 1) = SumFunctionOnSet(g, I \cup {y})
      BY <2>1, Zenon DEF I, y
    <3> QED
      BY <3>2, <3>3 DEF I, y
  <2>4. SumFunctionOnSet(f, k + 1 .. k + (m + 1))
            = SumFunctionOnSet(f, k + 1 .. k + m) + f[k + m + 1]
    <3> DEFINE I == k + 1 .. k + m
               y == k + m + 1
    <3>0. IsFiniteSet(I)
      BY <1>2, Zenon
    <3>1. y \notin I /\ \A i \in I \cup {y} : f[i] \in Nat
      OBVIOUS
    <3> HIDE DEF I, y
    <3>2. SumFunctionOnSet(f, I \cup {y}) = SumFunctionOnSet(f, I) + f[y]
      BY <3>0, <3>1, SumAdd
    <3>3. SumFunctionOnSet(f, k + 1 .. k + (m + 1)) = SumFunctionOnSet(f, I \cup {y})
      BY <2>2, Zenon DEF I, y
    <3> QED
      BY <3>2, <3>3 DEF I, y
  <2>5. g[m + 1] = f[k + m + 1]
    <3>1. g[m + 1] = f[k + (m + 1)] /\ k + (m + 1) = k + m + 1
      OBVIOUS
    <3> QED
      BY <3>1
  <2> QED
    BY <1>4, <2>3, <2>4, <2>5
<1> HIDE DEF T
<1>5. n \in T
    BY <1>3, <1>4, NaturalInduction
<1> QED
    BY <1>5 DEF T

\* Sums over 1 .. n, when a number is put at the end and when n are taken from the
\* front.
LEMMA SumAppend ==
    ASSUME NEW n \in Nat, NEW f, NEW g, \A i \in 1 .. n : f[i] \in Nat /\ g[i] = f[i],
           g[n + 1] \in Nat
    PROVE  SumFunctionOnSet(g, 1 .. n + 1) = SumFunctionOnSet(f, 1 .. n) + g[n + 1]
<1> DEFINE I == 1 .. n
           y == n + 1
<1>1. IsFiniteSet(I) /\ y \notin I /\ 1 .. n + 1 = I \cup {y}
  <2>1. IsFiniteSet(I)
    BY FS_Interval
  <2>2. y \notin I /\ 1 .. n + 1 = I \cup {y}
    OBVIOUS
  <2> QED
    BY <2>1, <2>2
<1>2. \A i \in I \cup {y} : g[i] \in Nat
    OBVIOUS
<1>3. \A i \in I : f[i] \in Nat /\ g[i] = f[i]
    OBVIOUS
<1> HIDE DEF I, y
<1>4. SumFunctionOnSet(g, I \cup {y}) = SumFunctionOnSet(g, I) + g[y]
    BY <1>1, <1>2, SumAdd
<1>5. SumFunctionOnSet(f, I) = SumFunctionOnSet(g, I)
    BY <1>1, <1>3, SumSame
<1>6. SumFunctionOnSet(g, 1 .. n + 1) = SumFunctionOnSet(g, I \cup {y})
    BY <1>1, Zenon
<1> QED
    BY <1>4, <1>5, <1>6, Zenon DEF I, y

\* A sum of finitely many numbers is one.
LEMMA SumFinite ==
    ASSUME NEW n \in Nat, NEW f, \A i \in 1 .. n : f[i] \in Nat
    PROVE  SumFunctionOnSet(f, 1 .. n) \in Nat
<1>1. IsFiniteSet(1 .. n) /\ 1 .. n \in SUBSET (1 .. n)
    BY FS_Interval
<1> QED
    BY <1>1, SumBasics

\* The sum over a sequence is that of its front and of the rest.
LEMMA SumTaken ==
    ASSUME NEW n \in Nat, NEW k \in Nat, NEW f, \A i \in 1 .. n + k : f[i] \in Nat,
           NEW g, \A i \in 1 .. k : g[i] = f[n + i]
    PROVE  SumFunctionOnSet(f, 1 .. n + k)
               = SumFunctionOnSet(f, 1 .. n) + SumFunctionOnSet(g, 1 .. k)
<1> DEFINE D == 1 .. n + k
           P == 1 .. n
<1>1. IsFiniteSet(D) /\ P \in SUBSET D
  <2>1. n + k \in Int /\ 1 \in Int
    OBVIOUS
  <2> QED
    BY <2>1, FS_Interval
<1>2. D \ P = n + 1 .. n + k
    OBVIOUS
<1>3. \A i \in D : f[i] \in Nat
    OBVIOUS
<1>4. SumFunctionOnSet(g, 1 .. k) = SumFunctionOnSet(f, n + 1 .. n + k)
    BY SumShift
<1> HIDE DEF D, P
<1>5. SumFunctionOnSet(f, D) = SumFunctionOnSet(f, P) + SumFunctionOnSet(f, D \ P)
    BY <1>1, <1>3, SumSplit
<1>6. SumFunctionOnSet(g, 1 .. k) = SumFunctionOnSet(f, D \ P)
    BY <1>2, <1>4, Zenon
<1> QED
    BY <1>5, <1>6, Zenon DEF D, P

=============================================================================

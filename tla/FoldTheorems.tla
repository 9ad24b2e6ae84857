---------------------------- MODULE FoldTheorems ----------------------------
(***************************************************************************)
(* Theorems about the folds of the community modules: sums over finite sets, *)
(* FlattenSeq, and folds over a sequence from the left; and the facts about  *)
(* numbers, small sets and sequences that the proofs of several parts share. *)
(*                                                                         *)
(* They need induction over the data.  A property is turned into the set of  *)
(* what has it, or has it not, and well-foundedness, of < on Nat and of      *)
(* inclusion on finite sets, gives a minimal element of a set that is not    *)
(* empty.                                                                   *)
(***************************************************************************)
EXTENDS Integers, SequencesExt, WellFoundedInduction, FiniteSetTheorems, SequenceTheorems, TLAPS

\* A set of numbers that is not empty has a least element: the order of the
\* natural numbers is well-founded.
THEOREM NatMinimum ==
  ASSUME NEW T \in SUBSET Nat, T # {}
  PROVE  \E x \in T : \A y \in T : x <= y
<1> DEFINE R == {p \in Nat \X Nat : p[1] < p[2]}
<1>1. R = OpToRel(<, Nat)
  BY Zenon DEF OpToRel
<1>2. IsWellFoundedOn(R, Nat)
  BY NatLessThanWellFounded, <1>1
<1>3. PICK x \in T : \A y \in T : ~(<<y, x>> \in R)
  BY <1>2, WFMin
<1>4. ASSUME NEW y \in T PROVE x <= y
  <2>1. ~(<<y, x>> \in R) /\ x \in Nat /\ y \in Nat
    BY <1>3
  <2> QED BY <2>1
<1> QED BY <1>4

\* Induction over the natural numbers, with a set for the predicate: a least
\* number outside of it is neither 0 nor a successor.
THEOREM NatInductionSet ==
  ASSUME NEW S, 0 \in S, \A n \in Nat : n \in S => n + 1 \in S
  PROVE  Nat \subseteq S
<1> SUFFICES ASSUME Nat \ S # {} PROVE FALSE
  OBVIOUS
<1>1. PICK x \in Nat \ S : \A y \in Nat \ S : x <= y
  BY NatMinimum
<1>2. x # 0 /\ x - 1 \in Nat
  BY <1>1
<1>3. x - 1 \in S
  BY <1>1, <1>2
<1> QED BY <1>1, <1>2, <1>3

\* One step of a recursion that starts with a at m.
Recursive(g, m, n, a, F) ==
  [l \in m..n |-> IF l = m THEN a ELSE F[l][g[l - 1]]]

\* A function that is defined by recursion from m up to n exists: so one is chosen.
THEOREM Recursion ==
  ASSUME NEW m \in Nat, NEW n \in Nat, NEW V, NEW a \in V, NEW F \in [Int -> [V -> V]]
  PROVE  \E g \in [m..n -> V] : g = Recursive(g, m, n, a, F)
<1> DEFINE Step(g, k) == [l \in m..k |-> IF l = m THEN a ELSE F[l][g[l - 1]]]
           G == {k \in Nat : k <= n => \E g \in [m..k -> V] : g = Step(g, k)}
<1>1. 0 \in G
  <2> DEFINE z == [l \in m..0 |-> a]
  <2>1. z \in [m..0 -> V] /\ z = Step(z, 0)
    OBVIOUS
  <2> QED BY <2>1
<1>2. \A k \in Nat : k \in G => k + 1 \in G
  <2> SUFFICES ASSUME NEW k \in Nat, k \in G, k + 1 <= n
               PROVE  \E g \in [m..(k + 1) -> V] : g = Step(g, k + 1)
    OBVIOUS
  <2>1. PICK g \in [m..k -> V] : g = Step(g, k)
    OBVIOUS
  <2> DEFINE e == IF k + 1 <= m THEN a ELSE F[k + 1][g[k]]
             f == [l \in m..(k + 1) |-> IF l = k + 1 THEN e ELSE g[l]]
  <2>2. e \in V
    <3>1. CASE k + 1 <= m
      BY <3>1
    <3>2. CASE ~(k + 1 <= m)
      <4>1. k \in m..k /\ k + 1 \in (m + 1)..n
        BY <3>2
      <4>2. g[k] \in V /\ F[k + 1] \in [V -> V]
        BY <4>1
      <4>3. F[k + 1][g[k]] \in V
        BY <4>2
      <4> QED BY <3>2, <4>3
    <3> QED BY <3>1, <3>2
  <2> HIDE DEF e
  <2>3. f \in [m..(k + 1) -> V]
    BY <2>2
  <2>4. ASSUME NEW l \in m..(k + 1) PROVE f[l] = Step(f, k + 1)[l]
    <3>1. CASE l = k + 1
      <4>1. f[l] = e
        BY <3>1
      <4>2. CASE k + 1 <= m
        <5>1. l = m
          BY <3>1, <4>2
        <5> QED BY <4>1, <4>2, <5>1 DEF e
      <4>3. CASE ~(k + 1 <= m)
        <5>1. k \in m..(k + 1) /\ k # k + 1 /\ l # m /\ l - 1 = k
          BY <3>1, <4>3
        <5>2. f[l - 1] = g[k]
          BY <5>1
        <5> QED BY <3>1, <4>1, <4>3, <5>1, <5>2 DEF e
      <4> QED BY <4>2, <4>3
    <3>2. CASE l # k + 1
      <4>1. l \in m..k /\ f[l] = g[l]
        BY <3>2
      <4>2. l # m => f[l - 1] = g[l - 1]
        BY <4>1
      <4>3. g[l] = IF l = m THEN a ELSE F[l][g[l - 1]]
        BY <2>1, <4>1
      <4> QED BY <4>1, <4>2, <4>3
    <3> QED BY <3>1, <3>2
  <2>5. f = Step(f, k + 1)
    <3>1. f = [l \in m..(k + 1) |-> f[l]] /\ Step(f, k + 1) = [l \in m..(k + 1) |-> Step(f, k + 1)[l]]
      OBVIOUS
    <3> QED BY <2>4, <3>1
  <2> QED BY <2>3, <2>5
<1>3. n \in G
  <2> HIDE DEF G
  <2> QED BY <1>1, <1>2, NatInductionSet
<1>4. PICK g \in [m..n -> V] : g = Step(g, n)
  BY <1>3
<1> QED BY <1>4 DEF Recursive

\* A set of finite sets that is not empty has a minimal element.
THEOREM FiniteMinimal ==
  ASSUME NEW S, NEW T, T \subseteq {X \in SUBSET S : IsFiniteSet(X)}, T # {}
  PROVE  \E x \in T : \A y \in T : y \subseteq x => y = x
<1>1. IsWellFoundedOn(StrictSubsetOrdering(S), FiniteSubsetsOf(S))
  BY FS_StrictSubsetOrderingWellFounded
<1>2. T \subseteq FiniteSubsetsOf(S)
  BY DEF FiniteSubsetsOf
<1>3. PICK x \in T : \A y \in T : ~(<<y, x>> \in StrictSubsetOrdering(S))
  BY <1>1, <1>2, WFMin
<1> QED BY <1>3 DEF StrictSubsetOrdering

\* Induction over the subsets of a finite set: if some have a property, one has it
\* and no proper subset of it does.
THEOREM SmallestSubset ==
  ASSUME NEW S, IsFiniteSet(S), NEW B \in SUBSET SUBSET S, B # {}
  PROVE  \E s \in B : IsFiniteSet(s) /\ \A y \in SUBSET s : y \in B => y = s
<1>1. B \subseteq {X \in SUBSET S : IsFiniteSet(X)}
  BY FS_Subset
<1>2. PICK s \in B : \A y \in B : y \subseteq s => y = s
  BY <1>1, FiniteMinimal
<1> QED BY <1>1, <1>2

----------------------------------------------------------------------------
(* Sums over finite sets. *)

\* The element that the fold takes next, and one step of its recursion.
Some(s) == CHOOSE x \in s : TRUE

SumStep(g, f, S) ==
  [s \in SUBSET S |-> IF s = {} THEN 0 ELSE f[Some(s)] + g[s \ {Some(s)}]]

\* CHOOSE takes an element where there is one.
LEMMA SomeIn == ASSUME NEW s, s # {} PROVE Some(s) \in s
BY DEF Some

\* The fold of the community modules, expanded: the value at S of a function that
\* is chosen for satisfying the recursion.
LEMMA SumIsChosen ==
  ASSUME NEW f, NEW S
  PROVE  SumFunctionOnSet(f, S) = (CHOOSE g : g = SumStep(g, f, S))[S]
BY Zenon DEF SumFunctionOnSet, FoldFunctionOnSet, MapThenFoldSet, SumStep, Some

\* There is a function that satisfies it: there is one on the subsets of at most k
\* elements, by induction on k.
LEMMA SumRecursion ==
  ASSUME NEW f, NEW S, IsFiniteSet(S)
  PROVE  \E g : g = SumStep(g, f, S)
<1> DEFINE Upto(k) == {s \in SUBSET S : Cardinality(s) <= k}
           Step(g, k) == [s \in Upto(k) |-> IF s = {} THEN 0 ELSE f[Some(s)] + g[s \ {Some(s)}]]
           G == {k \in Nat : \E g : g = Step(g, k)}
<1>0. \A s \in SUBSET S : IsFiniteSet(s) /\ Cardinality(s) \in Nat /\ Cardinality(s) <= Cardinality(S)
  BY FS_Subset, FS_CardinalityType
<1>1. 0 \in G
  <2> DEFINE z == [s \in Upto(0) |-> 0]
  <2>1. \A s \in Upto(0) : s = {}
    BY <1>0, FS_EmptySet
  <2>2. z = Step(z, 0)
    BY <2>1
  <2> QED BY <2>2
<1>2. ASSUME NEW k \in Nat, k \in G PROVE k + 1 \in G
  <2>1. PICK g : g = Step(g, k)
    BY <1>2
  <2> DEFINE h == Step(g, k + 1)
  <2>2. ASSUME NEW s \in Upto(k + 1), s # {} PROVE h[s \ {Some(s)}] = g[s \ {Some(s)}]
    <3> DEFINE t == s \ {Some(s)}
    <3>1. t \in Upto(k)
      BY <1>0, <2>2, SomeIn, FS_RemoveElement
    <3>2. t \in Upto(k + 1)
      BY <3>1, <1>0
    <3>3. h[t] = IF t = {} THEN 0 ELSE f[Some(t)] + g[t \ {Some(t)}]
      BY <3>2
    <3>4. Step(g, k)[t] = IF t = {} THEN 0 ELSE f[Some(t)] + g[t \ {Some(t)}]
      BY <3>1
    <3> QED BY <2>1, <3>3, <3>4
  <2>3. h = Step(h, k + 1)
    BY <2>2
  <2> HIDE DEF h, Step
  <2> QED BY <2>3
<1>3. Cardinality(S) \in G
  BY <1>0, <1>1, <1>2, NatInductionSet, FS_CardinalityType
<1>4. Upto(Cardinality(S)) = SUBSET S
  BY <1>0
<1> QED BY <1>3, <1>4 DEF SumStep

\* The value of the fold is that of a function that satisfies the recursion.
LEMMA SumHasIter ==
  ASSUME NEW f, NEW S, IsFiniteSet(S)
  PROVE  \E g : g = SumStep(g, f, S) /\ SumFunctionOnSet(f, S) = g[S]
<1> DEFINE g == CHOOSE g : g = SumStep(g, f, S)
<1>1. g = SumStep(g, f, S)
  BY SumRecursion
<1> HIDE DEF g
<1> QED BY <1>1, SumIsChosen DEF g

\* Two functions that satisfy it on different sets agree on what these share.
LEMMA SumIterUnique ==
  ASSUME NEW f, NEW S, NEW T \in SUBSET S, IsFiniteSet(S),
         NEW g, g = SumStep(g, f, S), NEW h, h = SumStep(h, f, T)
  PROVE  g[T] = h[T]
<1> DEFINE B == {X \in SUBSET T : g[X] # h[X]}
<1> SUFFICES ASSUME B # {} PROVE FALSE
  OBVIOUS
<1>1. PICK s \in B : IsFiniteSet(s) /\ \A y \in SUBSET s : y \in B => y = s
  <2>1. B \in SUBSET SUBSET S
    OBVIOUS
  <2> HIDE DEF B
  <2> QED BY <2>1, SmallestSubset
<1>2. /\ SumStep(g, f, S)[s] = IF s = {} THEN 0 ELSE f[Some(s)] + g[s \ {Some(s)}]
      /\ SumStep(h, f, T)[s] = IF s = {} THEN 0 ELSE f[Some(s)] + h[s \ {Some(s)}]
  BY DEF SumStep
<1>3. s # {} /\ s \ {Some(s)} \notin B
  BY <1>1, <1>2, SomeIn
<1> QED BY <1>1, <1>2, <1>3

\* The sum of nothing.
THEOREM SumEmpty == ASSUME NEW f PROVE SumFunctionOnSet(f, {}) = 0
<1>1. PICK g : g = SumStep(g, f, {}) /\ SumFunctionOnSet(f, {}) = g[{}]
  BY SumHasIter, FS_EmptySet
<1>2. SumStep(g, f, {})[{}] = 0
  BY DEF SumStep
<1> QED BY <1>1, <1>2

\* One step of the recursion.
LEMMA SumSome ==
  ASSUME NEW f, NEW S, IsFiniteSet(S), S # {}
  PROVE  /\ Some(S) \in S
         /\ SumFunctionOnSet(f, S) = f[Some(S)] + SumFunctionOnSet(f, S \ {Some(S)})
<1> DEFINE T == S \ {Some(S)}
<1>1. IsFiniteSet(T) /\ T \in SUBSET S
  BY FS_Subset
<1>2. PICK g : g = SumStep(g, f, S) /\ SumFunctionOnSet(f, S) = g[S]
  BY SumHasIter
<1>3. PICK h : h = SumStep(h, f, T) /\ SumFunctionOnSet(f, T) = h[T]
  BY <1>1, SumHasIter
<1>4. g[T] = h[T]
  BY <1>1, <1>2, <1>3, SumIterUnique
<1>5. SumStep(g, f, S)[S] = f[Some(S)] + g[T]
  BY DEF SumStep
<1> QED BY <1>2, <1>3, <1>4, <1>5, SomeIn

\* A sum of integers is an integer.
THEOREM SumType ==
  ASSUME NEW f, NEW S, IsFiniteSet(S), \A x \in S : f[x] \in Int
  PROVE  SumFunctionOnSet(f, S) \in Int
<1> DEFINE B == {X \in SUBSET S : SumFunctionOnSet(f, X) \notin Int}
<1> SUFFICES ASSUME B # {} PROVE FALSE
  OBVIOUS
<1>1. PICK s \in B : IsFiniteSet(s) /\ \A y \in SUBSET s : y \in B => y = s
  <2>1. B \in SUBSET SUBSET S
    OBVIOUS
  <2> HIDE DEF B
  <2> QED BY <2>1, SmallestSubset
<1>2. s # {}
  BY SumEmpty
<1>3. Some(s) \in s /\ SumFunctionOnSet(f, s) = f[Some(s)] + SumFunctionOnSet(f, s \ {Some(s)})
  BY <1>1, <1>2, SumSome
<1>4. SumFunctionOnSet(f, s \ {Some(s)}) \in Int
  BY <1>1, <1>3
<1> QED BY <1>3, <1>4

\* The order of the summands does not matter: any of them can be the first.
THEOREM SumTakeOut ==
  ASSUME NEW f, NEW S, IsFiniteSet(S), \A x \in S : f[x] \in Int, NEW a \in S
  PROVE  SumFunctionOnSet(f, S) = f[a] + SumFunctionOnSet(f, S \ {a})
<1> DEFINE Sum(X) == SumFunctionOnSet(f, X)
           B == {X \in SUBSET S : \E b \in X : Sum(X) # f[b] + Sum(X \ {b})}
<1> SUFFICES ASSUME B # {} PROVE FALSE
  OBVIOUS
<1>1. PICK s \in B : IsFiniteSet(s) /\ \A y \in SUBSET s : y \in B => y = s
  <2>1. B \in SUBSET SUBSET S
    OBVIOUS
  <2> HIDE DEF B
  <2> QED BY <2>1, SmallestSubset
<1>2. PICK b \in s : Sum(s) # f[b] + Sum(s \ {b})
  OBVIOUS
<1> DEFINE c == Some(s)
<1>3. c \in s /\ Sum(s) = f[c] + Sum(s \ {c})
  <2>1. s # {}
    OBVIOUS
  <2> HIDE DEF B
  <2> QED BY <1>1, <2>1, SumSome
<1> HIDE DEF c
<1>4. b # c
  BY <1>2, <1>3
<1>5. ASSUME NEW X \in SUBSET s, X # s, NEW d \in X PROVE Sum(X) = f[d] + Sum(X \ {d})
  <2>1. X \in SUBSET S /\ X \notin B
    BY <1>1, <1>5
  <2> HIDE DEF Sum
  <2> QED BY <2>1
<1>6. /\ Sum(s \ {c}) = f[b] + Sum((s \ {c}) \ {b})
      /\ Sum(s \ {b}) = f[c] + Sum((s \ {c}) \ {b})
  <2>1. (s \ {b}) \ {c} = (s \ {c}) \ {b}
    OBVIOUS
  <2>2. s \ {b} # s /\ s \ {c} # s /\ b \in s \ {c} /\ c \in s \ {b}
    BY <1>3, <1>4
  <2> HIDE DEF Sum, B
  <2> QED BY <1>5, <2>1, <2>2
<1>7. f[b] \in Int /\ f[c] \in Int /\ Sum((s \ {c}) \ {b}) \in Int
  <2>1. IsFiniteSet((s \ {c}) \ {b})
    BY <1>1, FS_Subset
  <2> QED BY <1>3, <2>1, SumType
<1> HIDE DEF Sum, B
<1> QED BY <1>2, <1>3, <1>6, <1>7

\* Only the values on the set count.
THEOREM SumSame ==
  ASSUME NEW f, NEW g, NEW S, IsFiniteSet(S), \A x \in S : f[x] = g[x]
  PROVE  SumFunctionOnSet(f, S) = SumFunctionOnSet(g, S)
<1> DEFINE B == {X \in SUBSET S : SumFunctionOnSet(f, X) # SumFunctionOnSet(g, X)}
<1> SUFFICES ASSUME B # {} PROVE FALSE
  OBVIOUS
<1>1. PICK s \in B : IsFiniteSet(s) /\ \A y \in SUBSET s : y \in B => y = s
  <2>1. B \in SUBSET SUBSET S
    OBVIOUS
  <2> HIDE DEF B
  <2> QED BY <2>1, SmallestSubset
<1>2. s # {}
  BY SumEmpty
<1>3. /\ Some(s) \in s
      /\ SumFunctionOnSet(f, s) = f[Some(s)] + SumFunctionOnSet(f, s \ {Some(s)})
      /\ SumFunctionOnSet(g, s) = g[Some(s)] + SumFunctionOnSet(g, s \ {Some(s)})
  BY <1>1, <1>2, SumSome
<1>4. SumFunctionOnSet(f, s \ {Some(s)}) = SumFunctionOnSet(g, s \ {Some(s)})
  BY <1>1, <1>3
<1> QED BY <1>3, <1>4

\* The sum of a function that has one value changed.
THEOREM SumExcept ==
  ASSUME NEW S, IsFiniteSet(S), NEW f \in [S -> Int], NEW a \in S, NEW v \in Int
  PROVE  SumFunction([f EXCEPT ![a] = v]) = SumFunction(f) - f[a] + v
<1> DEFINE g == [f EXCEPT ![a] = v]
<1>1. SumFunctionOnSet(f, S) = f[a] + SumFunctionOnSet(f, S \ {a})
  BY SumTakeOut
<1>2. SumFunctionOnSet(g, S) = g[a] + SumFunctionOnSet(g, S \ {a})
  BY SumTakeOut
<1>3. SumFunctionOnSet(f, S \ {a}) = SumFunctionOnSet(g, S \ {a})
  <2>1. IsFiniteSet(S \ {a}) /\ \A x \in S \ {a} : f[x] = g[x]
    BY FS_Subset
  <2> HIDE DEF g
  <2> QED BY <2>1, SumSame
<1>4. SumFunctionOnSet(f, S \ {a}) \in Int
  BY FS_Subset, SumType
<1>5. DOMAIN f = S /\ DOMAIN g = S /\ g[a] = v /\ f[a] \in Int
  OBVIOUS
<1> HIDE DEF g
<1> QED BY <1>1, <1>2, <1>3, <1>4, <1>5 DEF SumFunction, g

\* Zeros add up to zero.
THEOREM SumZeros ==
  ASSUME NEW f, NEW S, IsFiniteSet(S), \A x \in S : f[x] = 0
  PROVE  SumFunctionOnSet(f, S) = 0
<1> DEFINE B == {X \in SUBSET S : SumFunctionOnSet(f, X) # 0}
<1> SUFFICES ASSUME B # {} PROVE FALSE
  OBVIOUS
<1>1. PICK s \in B : IsFiniteSet(s) /\ \A y \in SUBSET s : y \in B => y = s
  <2>1. B \in SUBSET SUBSET S
    OBVIOUS
  <2> HIDE DEF B
  <2> QED BY <2>1, SmallestSubset
<1>2. s # {}
  BY SumEmpty
<1>3. Some(s) \in s /\ SumFunctionOnSet(f, s) = f[Some(s)] + SumFunctionOnSet(f, s \ {Some(s)})
  BY <1>1, <1>2, SumSome
<1>4. SumFunctionOnSet(f, s \ {Some(s)}) = 0
  BY <1>1, <1>3
<1> QED BY <1>3, <1>4

\* Ones add up to their number.
THEOREM SumOnes ==
  ASSUME NEW f, NEW S, IsFiniteSet(S), \A x \in S : f[x] = 1
  PROVE  SumFunctionOnSet(f, S) = Cardinality(S)
<1> DEFINE B == {X \in SUBSET S : SumFunctionOnSet(f, X) # Cardinality(X)}
<1> SUFFICES ASSUME B # {} PROVE FALSE
  OBVIOUS
<1>1. PICK s \in B : IsFiniteSet(s) /\ \A y \in SUBSET s : y \in B => y = s
  <2>1. B \in SUBSET SUBSET S
    OBVIOUS
  <2> HIDE DEF B
  <2> QED BY <2>1, SmallestSubset
<1>2. s # {}
  BY SumEmpty, FS_EmptySet
<1>3. Some(s) \in s /\ SumFunctionOnSet(f, s) = f[Some(s)] + SumFunctionOnSet(f, s \ {Some(s)})
  BY <1>1, <1>2, SumSome
<1>4. SumFunctionOnSet(f, s \ {Some(s)}) = Cardinality(s \ {Some(s)})
  BY <1>1, <1>3
<1>5. Cardinality(s \ {Some(s)}) = Cardinality(s) - 1 /\ Cardinality(s) \in Nat
  BY <1>1, <1>3, FS_RemoveElement, FS_CardinalityType
<1> QED BY <1>3, <1>4, <1>5

\* Twice the summands make twice the sum.
THEOREM SumTwice ==
  ASSUME NEW f, NEW g, NEW S, IsFiniteSet(S),
         \A x \in S : f[x] \in Int /\ g[x] = 2 * f[x]
  PROVE  SumFunctionOnSet(g, S) = 2 * SumFunctionOnSet(f, S)
<1> DEFINE B == {X \in SUBSET S : SumFunctionOnSet(g, X) # 2 * SumFunctionOnSet(f, X)}
<1> SUFFICES ASSUME B # {} PROVE FALSE
  OBVIOUS
<1>1. PICK s \in B : IsFiniteSet(s) /\ \A y \in SUBSET s : y \in B => y = s
  <2>1. B \in SUBSET SUBSET S
    OBVIOUS
  <2> HIDE DEF B
  <2> QED BY <2>1, SmallestSubset
<1>2. s # {}
  BY SumEmpty
<1>3. /\ Some(s) \in s
      /\ SumFunctionOnSet(f, s) = f[Some(s)] + SumFunctionOnSet(f, s \ {Some(s)})
      /\ SumFunctionOnSet(g, s) = g[Some(s)] + SumFunctionOnSet(g, s \ {Some(s)})
  BY <1>1, <1>2, SumSome
<1>4. SumFunctionOnSet(g, s \ {Some(s)}) = 2 * SumFunctionOnSet(f, s \ {Some(s)})
  BY <1>1, <1>3
<1>5. SumFunctionOnSet(f, s \ {Some(s)}) \in Int /\ f[Some(s)] \in Int
  <2>1. IsFiniteSet(s \ {Some(s)}) /\ \A x \in s \ {Some(s)} : f[x] \in Int
    BY <1>1, FS_Subset
  <2> QED BY <1>3, <2>1, SumType
<1> QED BY <1>3, <1>4, <1>5

\* What is not negative does not sum below zero.
THEOREM SumNat ==
  ASSUME NEW f, NEW S, IsFiniteSet(S), \A x \in S : f[x] \in Nat
  PROVE  SumFunctionOnSet(f, S) \in Nat
<1> DEFINE B == {X \in SUBSET S : SumFunctionOnSet(f, X) \notin Nat}
<1> SUFFICES ASSUME B # {} PROVE FALSE
  OBVIOUS
<1>1. PICK s \in B : IsFiniteSet(s) /\ \A y \in SUBSET s : y \in B => y = s
  <2>1. B \in SUBSET SUBSET S
    OBVIOUS
  <2> HIDE DEF B
  <2> QED BY <2>1, SmallestSubset
<1>2. s # {}
  BY SumEmpty
<1>3. Some(s) \in s /\ SumFunctionOnSet(f, s) = f[Some(s)] + SumFunctionOnSet(f, s \ {Some(s)})
  BY <1>1, <1>2, SumSome
<1>4. SumFunctionOnSet(f, s \ {Some(s)}) \in Nat
  BY <1>1, <1>3
<1> QED BY <1>3, <1>4

\* Two sets apart are summed one after the other.
THEOREM SumUnion ==
  ASSUME NEW f, NEW S, NEW T, IsFiniteSet(S), IsFiniteSet(T), S \cap T = {},
         \A x \in S \cup T : f[x] \in Int
  PROVE  SumFunctionOnSet(f, S \cup T) = SumFunctionOnSet(f, S) + SumFunctionOnSet(f, T)
<1> DEFINE B == {X \in SUBSET S : SumFunctionOnSet(f, X \cup T) # SumFunctionOnSet(f, X) + SumFunctionOnSet(f, T)}
<1> SUFFICES ASSUME B # {} PROVE FALSE
  OBVIOUS
<1>1. PICK s \in B : IsFiniteSet(s) /\ \A y \in SUBSET s : y \in B => y = s
  <2>1. B \in SUBSET SUBSET S
    OBVIOUS
  <2> HIDE DEF B
  <2> QED BY <2>1, SmallestSubset
<1>2. s # {}
  <2>1. {} \cup T = T
    OBVIOUS
  <2>2. SumFunctionOnSet(f, T) \in Int
    BY SumType
  <2>3. SumFunctionOnSet(f, {} \cup T) = SumFunctionOnSet(f, {}) + SumFunctionOnSet(f, T)
    BY <2>1, <2>2, SumEmpty
  <2>4. SumFunctionOnSet(f, s \cup T) # SumFunctionOnSet(f, s) + SumFunctionOnSet(f, T)
    OBVIOUS
  <2> QED BY ONLY <2>3, <2>4
<1>3. PICK a : a \in s
  BY <1>2
<1>4. SumFunctionOnSet(f, s) = f[a] + SumFunctionOnSet(f, s \ {a})
  <2>1. \A x \in s : f[x] \in Int
    OBVIOUS
  <2> QED BY <1>1, <1>3, <2>1, SumTakeOut
<1>5. SumFunctionOnSet(f, s \cup T) = f[a] + SumFunctionOnSet(f, (s \ {a}) \cup T)
  <2>1. (s \cup T) \ {a} = (s \ {a}) \cup T
    BY <1>3
  <2>2. IsFiniteSet(s \cup T)
    BY <1>1, FS_Union
  <2>3. \A x \in s \cup T : f[x] \in Int
    OBVIOUS
  <2>4. a \in s \cup T
    BY <1>3
  <2> QED BY <2>1, <2>2, <2>3, <2>4, SumTakeOut
<1>6. SumFunctionOnSet(f, (s \ {a}) \cup T) = SumFunctionOnSet(f, s \ {a}) + SumFunctionOnSet(f, T)
  BY <1>1, <1>3
<1>7. f[a] \in Int /\ SumFunctionOnSet(f, s \ {a}) \in Int /\ SumFunctionOnSet(f, T) \in Int
  <2>1. IsFiniteSet(s \ {a}) /\ \A x \in s \ {a} : f[x] \in Int
    BY <1>1, FS_Subset
  <2> QED BY <1>3, <2>1, SumType
<1>8. SumFunctionOnSet(f, s \cup T) # SumFunctionOnSet(f, s) + SumFunctionOnSet(f, T)
  OBVIOUS
<1> HIDE DEF B
<1> QED BY <1>4, <1>5, <1>6, <1>7, <1>8

\* The differences add up to the difference of the sums.
THEOREM SumDifference ==
  ASSUME NEW f, NEW g, NEW h, NEW S, IsFiniteSet(S),
         \A x \in S : f[x] \in Int /\ g[x] \in Int /\ h[x] = f[x] - g[x]
  PROVE  SumFunctionOnSet(h, S) = SumFunctionOnSet(f, S) - SumFunctionOnSet(g, S)
<1> DEFINE B == {X \in SUBSET S :
                   SumFunctionOnSet(h, X) # SumFunctionOnSet(f, X) - SumFunctionOnSet(g, X)}
<1> SUFFICES ASSUME B # {} PROVE FALSE
  OBVIOUS
<1>1. PICK s \in B : IsFiniteSet(s) /\ \A y \in SUBSET s : y \in B => y = s
  <2>1. B \in SUBSET SUBSET S
    OBVIOUS
  <2> HIDE DEF B
  <2> QED BY <2>1, SmallestSubset
<1>2. s # {}
  <2>1. /\ SumFunctionOnSet(f, {}) = 0 /\ SumFunctionOnSet(g, {}) = 0
        /\ SumFunctionOnSet(h, {}) = 0
    BY SumEmpty
  <2>2. SumFunctionOnSet(h, s) # SumFunctionOnSet(f, s) - SumFunctionOnSet(g, s)
    OBVIOUS
  <2> QED BY ONLY <2>1, <2>2
<1> DEFINE a == Some(s)
           t == s \ {a}
<1>3. /\ a \in s
      /\ SumFunctionOnSet(f, s) = f[a] + SumFunctionOnSet(f, t)
      /\ SumFunctionOnSet(g, s) = g[a] + SumFunctionOnSet(g, t)
      /\ SumFunctionOnSet(h, s) = h[a] + SumFunctionOnSet(h, t)
  <2> HIDE DEF B
  <2>1. IsFiniteSet(s)
    BY <1>1
  <2> QED BY ONLY <2>1, <1>2, SumSome
<1>4. SumFunctionOnSet(h, t) = SumFunctionOnSet(f, t) - SumFunctionOnSet(g, t)
  BY <1>1, <1>3
<1>5. /\ SumFunctionOnSet(f, t) \in Int /\ SumFunctionOnSet(g, t) \in Int
      /\ f[a] \in Int /\ g[a] \in Int /\ h[a] = f[a] - g[a]
  <2>1. IsFiniteSet(t) /\ \A x \in t : f[x] \in Int /\ g[x] \in Int
    BY <1>1, FS_Subset
  <2>2. a \in S
    BY <1>3
  <2> HIDE DEF t, a
  <2> QED BY <2>1, <2>2, SumType
<1>6. SumFunctionOnSet(h, s) # SumFunctionOnSet(f, s) - SumFunctionOnSet(g, s)
  OBVIOUS
<1> HIDE DEF B, t, a
<1> QED BY <1>3, <1>4, <1>5, <1>6

\* The sum is the same by other names for the summands.
THEOREM SumReindex ==
  ASSUME NEW f, NEW g, NEW S, IsFiniteSet(S), NEW h,
         \A x, y \in S : h[x] = h[y] => x = y,
         \A x \in S : f[x] \in Int /\ g[h[x]] = f[x]
  PROVE  SumFunctionOnSet(g, {h[x] : x \in S}) = SumFunctionOnSet(f, S)
<1> DEFINE Img(X) == {h[x] : x \in X}
           B == {X \in SUBSET S : SumFunctionOnSet(g, Img(X)) # SumFunctionOnSet(f, X)}
<1> SUFFICES ASSUME B # {} PROVE FALSE
  OBVIOUS
<1>1. PICK s \in B : IsFiniteSet(s) /\ \A y \in SUBSET s : y \in B => y = s
  <2>1. B \in SUBSET SUBSET S
    OBVIOUS
  <2> HIDE DEF B
  <2> QED BY <2>1, SmallestSubset
<1>2. s # {}
  <2>1. Img({}) = {}
    OBVIOUS
  <2>2. SumFunctionOnSet(g, Img({})) = SumFunctionOnSet(f, {})
    BY <2>1, SumEmpty
  <2> HIDE DEF Img
  <2> QED BY <2>2
<1> DEFINE a == Some(s)
           t == s \ {a}
<1>3. a \in s /\ SumFunctionOnSet(f, s) = f[a] + SumFunctionOnSet(f, t)
  BY <1>1, <1>2, SumSome
<1>4. SumFunctionOnSet(g, Img(t)) = SumFunctionOnSet(f, t)
  <2> HIDE DEF Img
  <2> QED BY <1>1, <1>3
<1>5. /\ h[a] \in Img(s) /\ Img(s) \ {h[a]} = Img(t) /\ g[h[a]] = f[a]
      /\ \A y \in Img(s) : g[y] \in Int
  <2>1. s \subseteq S
    OBVIOUS
  <2> HIDE DEF B, a
  <2> QED BY <1>3, <2>1
<1>6. IsFiniteSet(Img(s))
  <2> DEFINE m == [x \in s |-> h[x]]
  <2>1. m \in Surjection(s, Img(s))
    BY DEF Surjection
  <2> HIDE DEF m, Img, B
  <2> QED BY <1>1, <2>1, FS_Surjection
<1>7. SumFunctionOnSet(g, Img(s)) = g[h[a]] + SumFunctionOnSet(g, Img(s) \ {h[a]})
  <2> HIDE DEF Img, B, a, t
  <2> QED BY <1>5, <1>6, SumTakeOut
<1>8. SumFunctionOnSet(g, Img(s)) # SumFunctionOnSet(f, s)
  OBVIOUS
<1> HIDE DEF Img, B, a, t
<1> QED BY <1>3, <1>4, <1>5, <1>7, <1>8

----------------------------------------------------------------------------
(* FlattenSeq. *)

\* One step of its recursion.
Flat(g, s) == [i \in 1..Len(s) |-> IF i = 1 THEN s[i] ELSE g[i - 1] \o s[i]]

\* FlattenSeq of the community modules, expanded.
LEMMA FlattenIsChosen ==
  ASSUME NEW s, Len(s) # 0
  PROVE  FlattenSeq(s) = (CHOOSE g : g = Flat(g, s))[Len(s)]
BY Zenon DEF FlattenSeq, Flat

\* There is a function that satisfies its recursion: there is one on 1..k, by
\* induction on k.
LEMMA FlattenRecursion ==
  ASSUME NEW s, Len(s) \in Nat
  PROVE  \E g : g = Flat(g, s)
<1> DEFINE Step(g, k) == [i \in 1..k |-> IF i = 1 THEN s[i] ELSE g[i - 1] \o s[i]]
           G == {k \in Nat : \E g : g = Step(g, k)}
<1>1. 0 \in G
  <2> DEFINE z == Step(0, 0)
  <2>1. z = Step(z, 0)
    OBVIOUS
  <2> HIDE DEF z, Step
  <2> QED BY <2>1
<1>2. ASSUME NEW k \in Nat, k \in G PROVE k + 1 \in G
  <2>1. PICK g : g = Step(g, k)
    BY <1>2
  <2> DEFINE h == Step(g, k + 1)
  <2>2. ASSUME NEW i \in 1..(k + 1), i # 1 PROVE h[i - 1] = g[i - 1]
    <3>1. i - 1 \in 1..k /\ i - 1 \in 1..(k + 1)
      BY <2>2
    <3>2. h[i - 1] = IF i - 1 = 1 THEN s[i - 1] ELSE g[i - 1 - 1] \o s[i - 1]
      BY <3>1
    <3>3. Step(g, k)[i - 1] = IF i - 1 = 1 THEN s[i - 1] ELSE g[i - 1 - 1] \o s[i - 1]
      BY <3>1
    <3> QED BY <2>1, <3>2, <3>3
  <2>3. h = Step(h, k + 1)
    BY <2>2
  <2> HIDE DEF h, Step
  <2> QED BY <2>3
<1>3. Len(s) \in G
  BY <1>1, <1>2, NatInductionSet
<1> QED BY <1>3 DEF Flat

\* FlattenSeq is the last value of such a function.
LEMMA FlattenHasIter ==
  ASSUME NEW s, Len(s) \in Nat \ {0}
  PROVE  \E g : g = Flat(g, s) /\ FlattenSeq(s) = g[Len(s)]
<1> DEFINE g == CHOOSE g : g = Flat(g, s)
<1>1. g = Flat(g, s)
  BY FlattenRecursion
<1> HIDE DEF g
<1> QED BY <1>1, FlattenIsChosen DEF g

\* A concatenation has the elements of both.
LEMMA ToSetConcat ==
  ASSUME NEW S, NEW s \in Seq(S), NEW t \in Seq(S)
  PROVE  ToSet(s \o t) = ToSet(s) \cup ToSet(t)
<1>1. Range(s \o t) = Range(s) \cup Range(t)
  BY RangeConcatenation
<1>2. \A u : ToSet(u) = Range(u)
  BY DEF ToSet, Range
<1> QED BY <1>1, <1>2

\* Sequences without repetition and with nothing in common concatenate to one.
LEMMA InjectiveConcat ==
  ASSUME NEW S, NEW s \in Seq(S), NEW t \in Seq(S), IsInjective(s), IsInjective(t),
         ToSet(s) \cap ToSet(t) = {}
  PROVE  IsInjective(s \o t)
<1> DEFINE r == s \o t
<1>1. /\ Len(r) = Len(s) + Len(t) /\ Len(s) \in Nat /\ Len(t) \in Nat /\ DOMAIN r = 1..Len(r)
      /\ \A i \in 1..Len(s) : r[i] = s[i]
      /\ \A i \in 1..Len(t) : r[Len(s) + i] = t[i]
  OBVIOUS
<1>2. DOMAIN s = 1..Len(s) /\ DOMAIN t = 1..Len(t)
  OBVIOUS
<1> HIDE DEF r
<1>3. \A i \in 1..Len(s), j \in 1..Len(t) : s[i] # t[j]
  BY <1>2, Zenon DEF ToSet
<1>4. \A i \in DOMAIN r : i \in 1..Len(s) \/ \E k \in 1..Len(t) : i = Len(s) + k
  <2> SUFFICES ASSUME NEW i \in DOMAIN r, i \notin 1..Len(s) PROVE \E k \in 1..Len(t) : i = Len(s) + k
    OBVIOUS
  <2>1. i - Len(s) \in 1..Len(t) /\ i = Len(s) + (i - Len(s))
    BY <1>1
  <2> QED BY <2>1
<1>5. ASSUME NEW i \in DOMAIN r, NEW j \in DOMAIN r, r[i] = r[j] PROVE i = j
  <2>1. CASE i \in 1..Len(s) /\ j \in 1..Len(s)
    BY <1>1, <1>2, <1>5, <2>1 DEF IsInjective
  <2>2. CASE i \in 1..Len(s) /\ j \notin 1..Len(s)
    BY <1>1, <1>3, <1>4, <1>5, <2>2
  <2>3. CASE i \notin 1..Len(s) /\ j \in 1..Len(s)
    BY <1>1, <1>3, <1>4, <1>5, <2>3
  <2>4. CASE i \notin 1..Len(s) /\ j \notin 1..Len(s)
    <3>1. PICK k \in 1..Len(t), l \in 1..Len(t) : i = Len(s) + k /\ j = Len(s) + l
      BY <1>4, <2>4
    <3>2. t[k] = t[l]
      BY <1>1, <1>5, <3>1
    <3> QED BY <1>2, <3>1, <3>2 DEF IsInjective
  <2> QED BY <2>1, <2>2, <2>3, <2>4
<1> QED BY <1>5 DEF IsInjective, r

\* n sequences none of which repeats an element or shares one with another.
Apart(s, n) ==
  /\ \A i \in 1..n : IsInjective(s[i])
  /\ \A i, j \in 1..n : i # j => ToSet(s[i]) \cap ToSet(s[j]) = {}

\* Flattening yields the elements of the sequences, whatever their number, and
\* each of them once if none of the sequences repeats one or shares one.
THEOREM FlattenProperties ==
  ASSUME NEW S, NEW n \in Nat, NEW s \in [1..n -> Seq(S)]
  PROVE  /\ FlattenSeq(s) \in Seq(S)
         /\ ToSet(FlattenSeq(s)) = UNION {ToSet(s[i]) : i \in 1..n}
         /\ Apart(s, n) => IsInjective(FlattenSeq(s))
<1>0. Len(s) = n /\ s \in Seq(Seq(S))
  OBVIOUS
<1>1. CASE n = 0
  <2>1. FlattenSeq(s) = s
    BY <1>0, <1>1 DEF FlattenSeq
  <2>2. s = <<>>
    BY <1>0, <1>1
  <2> QED BY <1>1, <2>1, <2>2 DEF ToSet, IsInjective
<1>2. CASE n # 0
  <2>1. PICK g : g = Flat(g, s) /\ FlattenSeq(s) = g[n]
    BY <1>0, <1>2, FlattenHasIter
  <2> DEFINE Upto(k) == UNION {ToSet(s[i]) : i \in 1..k}
             G == {k \in Nat : k \in 1..n =>
                     /\ g[k] \in Seq(S) /\ ToSet(g[k]) = Upto(k)
                     /\ Apart(s, n) => IsInjective(g[k])}
  <2>2. \A k \in 1..n : g[k] = IF k = 1 THEN s[k] ELSE g[k - 1] \o s[k]
    <3> SUFFICES ASSUME NEW k \in 1..n PROVE g[k] = IF k = 1 THEN s[k] ELSE g[k - 1] \o s[k]
      OBVIOUS
    <3>1. Flat(g, s)[k] = IF k = 1 THEN s[k] ELSE g[k - 1] \o s[k]
      BY <1>0 DEF Flat
    <3> QED BY <2>1, <3>1
  <2>3. 0 \in G
    OBVIOUS
  <2>4. ASSUME NEW k \in Nat, k \in G PROVE k + 1 \in G
    <3> SUFFICES ASSUME k + 1 \in 1..n
                 PROVE  /\ g[k + 1] \in Seq(S) /\ ToSet(g[k + 1]) = Upto(k + 1)
                        /\ Apart(s, n) => IsInjective(g[k + 1])
      OBVIOUS
    <3>1. CASE k = 0
      BY <2>2, <3>1 DEF Apart
    <3>2. CASE k # 0
      <4>1. k \in 1..n /\ g[k] \in Seq(S) /\ ToSet(g[k]) = Upto(k) /\ s[k + 1] \in Seq(S)
        BY <2>4, <3>2
      <4>2. g[k + 1] = g[k] \o s[k + 1]
        <5>1. g[k + 1] = IF k + 1 = 1 THEN s[k + 1] ELSE g[k + 1 - 1] \o s[k + 1]
          BY <2>2
        <5>2. k + 1 # 1 /\ k + 1 - 1 = k
          BY <3>2
        <5> HIDE DEF G
        <5> QED BY <5>1, <5>2
      <4>3. ToSet(g[k] \o s[k + 1]) = ToSet(g[k]) \cup ToSet(s[k + 1])
        BY <4>1, ToSetConcat
      <4>4. Upto(k + 1) = Upto(k) \cup ToSet(s[k + 1])
        <5>1. 1..(k + 1) = 1..k \cup {k + 1}
          OBVIOUS
        <5> QED BY <5>1
      <4>5. ASSUME Apart(s, n) PROVE IsInjective(g[k] \o s[k + 1])
        <5>1. IsInjective(g[k]) /\ IsInjective(s[k + 1])
          BY <2>4, <4>1, <4>5 DEF Apart
        <5>2. \A i \in 1..k : ToSet(s[i]) \cap ToSet(s[k + 1]) = {}
          BY <4>5 DEF Apart
        <5>3. ToSet(g[k]) \cap ToSet(s[k + 1]) = {}
          BY <4>1, <5>2
        <5> HIDE DEF Upto, G
        <5> QED BY <4>1, <5>1, <5>3, InjectiveConcat
      <4> QED BY <4>1, <4>2, <4>3, <4>4, <4>5, ConcatProperties
    <3> QED BY <3>1, <3>2
  <2>5. n \in G
    <3> HIDE DEF G
    <3> QED BY <2>3, <2>4, NatInductionSet
  <2> QED BY <1>2, <2>1, <2>5
<1> QED BY <1>1, <1>2

----------------------------------------------------------------------------
(* Folds from the left, which take the largest index last. *)

\* Of finitely many numbers, one is the largest.
THEOREM LastIn ==
  ASSUME NEW n \in Nat, NEW s \in SUBSET (1..n), s # {}
  PROVE  Max(s) \in s /\ \A y \in s : Max(s) >= y
<1> DEFINE T == {n - x : x \in s}
<1>1. T \in SUBSET Nat /\ T # {}
  <2>1. \A x \in s : n - x \in Nat
    OBVIOUS
  <2> QED BY <2>1
<1>2. PICK t \in T : \A y \in T : t <= y
  <2> HIDE DEF T
  <2> QED BY <1>1, NatMinimum
<1>3. PICK x \in s : t = n - x
  OBVIOUS
<1>4. \A y \in s : x >= y
  <2> SUFFICES ASSUME NEW y \in s PROVE x >= y
    OBVIOUS
  <2>1. n - x <= n - y
    BY <1>2, <1>3
  <2> QED BY <2>1
<1> QED BY <1>4 DEF Max

\* One step of a fold over 1..n that takes the largest element last.
Folded(g, n, a, F) ==
  [s \in SUBSET (1..n) |-> IF s = {} THEN a ELSE F[Max(s)][g[s \ {Max(s)}]]]

\* A function that takes a fold's steps on all sets of indices exists, by induction
\* on the number of indices.
THEOREM FoldExists ==
  ASSUME NEW n \in Nat, NEW V, NEW a \in V, NEW F \in [Int -> [V -> V]]
  PROVE  \E g : g = Folded(g, n, a, F) /\ \A s \in SUBSET (1..n) : g[s] \in V
<1> DEFINE G == {k \in Nat : \E g \in [SUBSET (1..k) -> V] : g = Folded(g, k, a, F)}
<1>1. 0 \in G
  <2> DEFINE z == [s \in SUBSET (1..0) |-> a]
  <2>1. z \in [SUBSET (1..0) -> V] /\ z = Folded(z, 0, a, F)
    <3>1. \A s \in SUBSET (1..0) : s = {}
      OBVIOUS
    <3> QED BY <3>1 DEF Folded
  <2> QED BY <2>1
<1>2. ASSUME NEW k \in Nat, k \in G PROVE k + 1 \in G
  <2>1. PICK g \in [SUBSET (1..k) -> V] : g = Folded(g, k, a, F)
    BY <1>2
  <2> DEFINE m == k + 1
             f == [s \in SUBSET (1..m) |-> IF m \in s THEN F[m][g[s \ {m}]] ELSE g[s]]
  <2>2. \A s \in SUBSET (1..m) : s \ {m} \in SUBSET (1..k) /\ (m \notin s => s \in SUBSET (1..k))
    OBVIOUS
  <2>3. f \in [SUBSET (1..m) -> V]
    <3>1. m \in Int
      OBVIOUS
    <3>2. \A v \in V : F[m][v] \in V
      BY <3>1
    <3> HIDE DEF m
    <3> QED BY <2>2, <3>2
  <2>4. \A s \in SUBSET (1..k) : s \in SUBSET (1..m) /\ m \notin s /\ f[s] = g[s]
    OBVIOUS
  <2>5. ASSUME NEW s \in SUBSET (1..m)
        PROVE  f[s] = IF s = {} THEN a ELSE F[Max(s)][f[s \ {Max(s)}]]
    <3>1. CASE m \in s
      <4>1. Max(s) = m
        <5>1. \A y \in s : m >= y
          OBVIOUS
        <5>2. \A x \in s : (\A y \in s : x >= y) => x = m
          BY <3>1
        <5> HIDE DEF m
        <5> QED BY <3>1, <5>1, <5>2 DEF Max
      <4>2. f[s \ {m}] = g[s \ {m}]
        BY <2>2, <2>4
      <4> QED BY <3>1, <4>1, <4>2
    <3>2. CASE m \notin s
      <4>1. s \in SUBSET (1..k) /\ s \ {Max(s)} \in SUBSET (1..k)
        BY <2>2, <3>2
      <4>2. f[s] = g[s] /\ f[s \ {Max(s)}] = g[s \ {Max(s)}]
        BY <2>4, <4>1
      <4>3. g[s] = IF s = {} THEN a ELSE F[Max(s)][g[s \ {Max(s)}]]
        BY <2>1, <4>1 DEF Folded
      <4> QED BY <4>2, <4>3
    <3> QED BY <3>1, <3>2
  <2>6. f = Folded(f, m, a, F)
    <3> HIDE DEF f
    <3> QED BY <2>3, <2>5 DEF Folded
  <2>7. \E e \in [SUBSET (1..m) -> V] : e = Folded(e, m, a, F)
    <3> HIDE DEF f, m
    <3> QED BY <2>3, <2>6
  <2> QED BY <2>7
<1>3. n \in G
  <2> HIDE DEF G
  <2> QED BY <1>1, <1>2, NatInductionSet
<1>4. PICK g \in [SUBSET (1..n) -> V] : g = Folded(g, n, a, F)
  BY <1>3
<1> QED BY <1>4

\* The last of the first n numbers.
THEOREM LastOfFirst ==
  ASSUME NEW n \in Nat \ {0}
  PROVE  Max(1..n) = n /\ (1..n) \ {n} = 1..(n - 1) /\ 1..n # {}
<1>1. \A x \in 1..n : (\A y \in 1..n : x >= y) <=> x = n
  OBVIOUS
<1> QED BY <1>1 DEF Max

----------------------------------------------------------------------------
\* The values of a function on a finite set are finitely many.
THEOREM FiniteImage ==
  ASSUME NEW f, NEW S, IsFiniteSet(S)
  PROVE  IsFiniteSet({f[x] : x \in S}) /\ Cardinality({f[x] : x \in S}) <= Cardinality(S)
<1> DEFINE T == {f[x] : x \in S}
           h == [x \in S |-> f[x]]
<1>1. h \in Surjection(S, T)
  BY DEF Surjection
<1> QED BY <1>1, FS_Surjection

\* A finite union of finite sets is finite.
THEOREM FiniteUnion ==
  ASSUME NEW f, NEW S, IsFiniteSet(S), \A x \in S : IsFiniteSet(f[x])
  PROVE  IsFiniteSet(UNION {f[x] : x \in S})
<1> DEFINE B == {X \in SUBSET S : ~IsFiniteSet(UNION {f[x] : x \in X})}
<1> SUFFICES ASSUME B # {} PROVE FALSE
  OBVIOUS
<1>1. PICK s \in B : IsFiniteSet(s) /\ \A y \in SUBSET s : y \in B => y = s
  <2>1. B \in SUBSET SUBSET S
    OBVIOUS
  <2> HIDE DEF B
  <2> QED BY <2>1, SmallestSubset
<1>2. s # {}
  <2>1. UNION {f[x] : x \in {}} = {}
    OBVIOUS
  <2> QED BY <1>1, <2>1, FS_EmptySet
<1>3. PICK a \in s : TRUE
  BY <1>2
<1>4. IsFiniteSet(UNION {f[x] : x \in s \ {a}})
  <2>1. s \ {a} \in SUBSET s /\ s \ {a} # s /\ s \ {a} \in SUBSET S
    BY <1>1, <1>3
  <2> QED BY <1>1, <2>1
<1>5. UNION {f[x] : x \in s} = (UNION {f[x] : x \in s \ {a}}) \cup f[a]
  BY <1>3
<1>6. IsFiniteSet(f[a])
  BY <1>1, <1>3
<1>7. IsFiniteSet(UNION {f[x] : x \in s})
  <2> DEFINE P == UNION {f[x] : x \in s \ {a}}
             Q == UNION {f[x] : x \in s}
  <2>1. IsFiniteSet(P) /\ IsFiniteSet(f[a]) /\ Q = P \cup f[a]
    BY <1>4, <1>5, <1>6
  <2> HIDE DEF P, Q
  <2>2. IsFiniteSet(P \cup f[a])
    BY <2>1, FS_Union
  <2>3. IsFiniteSet(Q)
    BY <2>1, <2>2
  <2> QED BY <2>3 DEF Q
<1> QED BY <1>1, <1>7

----------------------------------------------------------------------------
(* Sums over an interval. *)

\* Zeros at the end add nothing.
LEMMA SumGap ==
  ASSUME NEW f, NEW a \in Nat, NEW b \in Nat, a <= b,
         \A x \in 1..b : f[x] \in Int, \A x \in a + 1..b : f[x] = 0
  PROVE  SumFunctionOnSet(f, 1..b) = SumFunctionOnSet(f, 1..a)
<1> DEFINE S == 1..a
           T == a + 1..b
<1>1. S \cup T = 1..b /\ S \cap T = {} /\ IsFiniteSet(S) /\ IsFiniteSet(T)
  <2>1. S \cup T = 1..b /\ S \cap T = {}
    OBVIOUS
  <2> QED BY <2>1, FS_Interval
<1>2. \A x \in S \cup T : f[x] \in Int
  BY <1>1
<1>3. \A x \in T : f[x] = 0
  OBVIOUS
<1> HIDE DEF S, T
<1>4. SumFunctionOnSet(f, S \cup T) = SumFunctionOnSet(f, S) + SumFunctionOnSet(f, T)
  BY <1>1, <1>2, SumUnion
<1>5. SumFunctionOnSet(f, T) = 0
  BY <1>1, <1>3, SumZeros
<1>6. SumFunctionOnSet(f, S) \in Int
  BY <1>1, <1>2, SumType
<1>7. SumFunctionOnSet(f, 1..b) = SumFunctionOnSet(f, S) + 0
  BY <1>1, <1>4, <1>5
<1>8. SumFunctionOnSet(f, 1..b) = SumFunctionOnSet(f, S)
  BY <1>6, <1>7
<1> QED BY <1>8 DEF S

\* One more summand.
LEMMA SumNext ==
  ASSUME NEW f, NEW k \in Nat, \A x \in 1..k + 1 : f[x] \in Int
  PROVE  /\ SumFunctionOnSet(f, 1..k + 1) = SumFunctionOnSet(f, 1..k) + f[k + 1]
         /\ SumFunctionOnSet(f, 1..k) \in Int
<1> DEFINE I == 1..k + 1
<1>1. I \ {k + 1} = 1..k /\ k + 1 \in I /\ \A x \in I : f[x] \in Int
  OBVIOUS
<1>2. IsFiniteSet(I) /\ IsFiniteSet(1..k)
  BY FS_Interval
<1>3. SumFunctionOnSet(f, 1..k) \in Int
  BY <1>2, SumType
<1> HIDE DEF I
<1>4. SumFunctionOnSet(f, I) = f[k + 1] + SumFunctionOnSet(f, I \ {k + 1})
  BY <1>1, <1>2, SumTakeOut
<1>5. SumFunctionOnSet(f, I) = f[k + 1] + SumFunctionOnSet(f, 1..k) /\ f[k + 1] \in Int
  BY <1>1, <1>4
<1>6. SumFunctionOnSet(f, I) = SumFunctionOnSet(f, 1..k) + f[k + 1]
  BY <1>3, <1>5
<1> QED BY <1>3, <1>6 DEF I

\* A sum with one summand more in front.
LEMMA SumWithFirst ==
  ASSUME NEW n \in Nat, NEW d \in [1..n -> Nat], NEW l \in Nat
  PROVE  /\ DOMAIN (<<l>> \o d) = 1..n + 1
         /\ \A i \in 1..n + 1 : (<<l>> \o d)[i] \in Nat
         /\ SumFunctionOnSet(<<l>> \o d, 1..n + 1) = l + SumFunctionOnSet(d, 1..n)
<1> DEFINE p == <<l>> \o d
<1>1. d \in Seq(Nat) /\ Len(d) = n
  OBVIOUS
<1>2. p \in Seq(Nat) /\ Len(p) = n + 1 /\ p[1] = l /\ \A i \in 1..n : p[i + 1] = d[i]
  BY <1>1
<1> HIDE DEF p
<1>3. DOMAIN p = 1..n + 1 /\ \A i \in 1..n + 1 : p[i] \in Nat
  <2>1. DOMAIN p = 1..Len(p)
    BY <1>2
  <2>2. \A i \in 1..Len(p) : p[i] \in Nat
    BY <1>2, ElementOfSeq
  <2> QED BY <1>2, <2>1, <2>2
<1> DEFINE G == {k \in Nat : k <= n => SumFunctionOnSet(p, 1..k + 1) = l + SumFunctionOnSet(d, 1..k)}
<1>4. 0 \in G
  <2>1. 0 \in Nat /\ 0 + 1 = 1 /\ \A x \in 1..1 : p[x] \in Int
    BY <1>3
  <2>2. SumFunctionOnSet(p, 1..0 + 1) = SumFunctionOnSet(p, 1..0) + p[0 + 1]
    BY <2>1, SumNext
  <2>3. 1..0 = {}
    OBVIOUS
  <2>4. SumFunctionOnSet(p, 1..0) = 0 /\ SumFunctionOnSet(d, 1..0) = 0
    BY <2>3, SumEmpty
  <2> QED BY <1>2, <2>2, <2>4
<1>5. ASSUME NEW k \in Nat, k \in G PROVE k + 1 \in G
  <2> SUFFICES ASSUME k + 1 <= n
               PROVE  SumFunctionOnSet(p, 1..(k + 1) + 1) = l + SumFunctionOnSet(d, 1..k + 1)
    OBVIOUS
  <2>1. \A x \in 1..(k + 1) + 1 : p[x] \in Int
    BY <1>3
  <2>2. SumFunctionOnSet(p, 1..(k + 1) + 1) = SumFunctionOnSet(p, 1..k + 1) + p[(k + 1) + 1]
    BY <2>1, SumNext
  <2>3. \A x \in 1..k + 1 : d[x] \in Int
    OBVIOUS
  <2>4. /\ SumFunctionOnSet(d, 1..k + 1) = SumFunctionOnSet(d, 1..k) + d[k + 1]
        /\ SumFunctionOnSet(d, 1..k) \in Int
    BY <2>3, SumNext
  <2>5. SumFunctionOnSet(p, 1..k + 1) = l + SumFunctionOnSet(d, 1..k)
    BY <1>5
  <2>6. p[(k + 1) + 1] = d[k + 1] /\ d[k + 1] \in Nat
    BY <1>2
  <2> QED BY <2>2, <2>4, <2>5, <2>6
<1>6. n \in G
  <2> HIDE DEF G
  <2>1. Nat \subseteq G
    BY <1>4, <1>5, NatInductionSet
  <2> QED BY <2>1
<1> QED BY <1>3, <1>6 DEF p

----------------------------------------------------------------------------
(* Small sets, and sequences with one more element. *)

\* A set of at most two things.
LEMMA AtMostTwo ==
  ASSUME NEW a, NEW b, NEW S, S \subseteq {a, b}
  PROVE  IsFiniteSet(S) /\ Cardinality(S) \in 0..2 /\ (S # {} => Cardinality(S) > 0)
<1>1. IsFiniteSet({}) /\ Cardinality({}) = 0
  BY FS_EmptySet
<1>2. IsFiniteSet({} \cup {b}) /\ Cardinality({} \cup {b}) = 1
  BY <1>1, FS_AddElement
<1>3. {} \cup {b} = {b}
  OBVIOUS
<1>4. IsFiniteSet({b}) /\ Cardinality({b}) = 1
  BY <1>2, <1>3
<1>5. IsFiniteSet({b} \cup {a}) /\ Cardinality({b} \cup {a}) \in {1, 2}
  BY <1>4, FS_AddElement
<1>6. S \subseteq {b} \cup {a}
  OBVIOUS
<1>7. IsFiniteSet(S) /\ Cardinality(S) <= Cardinality({b} \cup {a}) /\ Cardinality(S) \in Nat
  BY <1>5, <1>6, FS_Subset, FS_CardinalityType
<1>8. S # {} => Cardinality(S) # 0
  BY <1>7, FS_EmptySet
<1> QED BY <1>5, <1>7, <1>8

\* The first of a tuple, as a function.
LEMMA FirstsFinite ==
  ASSUME NEW S, IsFiniteSet(S)
  PROVE  IsFiniteSet({k[1] : k \in S})
<1> DEFINE f == [k \in S |-> k[1]]
<1>1. IsFiniteSet({f[k] : k \in S})
  BY FiniteImage
<1>2. {f[k] : k \in S} = {k[1] : k \in S}
  OBVIOUS
<1> QED BY <1>1, <1>2

\* The largest of some numbers is one of them.
LEMMA LargestIn ==
  ASSUME NEW a \in Nat, NEW b \in Nat, NEW S \in SUBSET (a..b - 1), S # {}
  PROVE  Max(S) \in S
<1> DEFINE T == {b - x : x \in S}
<1>1. T \in SUBSET Nat /\ T # {}
  OBVIOUS
<1>2. PICK t \in T : \A y \in T : t <= y
  <2> HIDE DEF T
  <2> QED BY <1>1, NatMinimum
<1>3. PICK x \in S : t = b - x
  OBVIOUS
<1>4. \A y \in S : x >= y
  <2> SUFFICES ASSUME NEW y \in S PROVE x >= y
    OBVIOUS
  <2>1. b - x <= b - y
    BY <1>2, <1>3
  <2> QED BY <2>1
<1> QED BY <1>4 DEF Max

\* A function on the first m numbers is a sequence of length m.
LEMMA SequenceLength ==
  ASSUME NEW S, NEW m \in Nat, NEW s \in [1..m -> S]
  PROVE  Len(s) = m
OBVIOUS

\* One more element at the end of a sequence.
Extends(t, s, e) ==
  /\ Len(s) \in Nat /\ t[Len(s) + 1] = e
  /\ t = [k \in 1..Len(s) + 1 |-> t[k]] /\ \A k \in 1..Len(s) : t[k] = s[k]

\* What an appended sequence holds.
LEMMA Appended ==
  ASSUME NEW S, NEW s, NEW e, s \in Seq(S), e \in S
  PROVE  Extends(Append(s, e), s, e)
<1> DEFINE t == Append(s, e)
<1>1. Len(s) \in Nat /\ t \in Seq(S) /\ Len(t) = Len(s) + 1 /\ t[Len(s) + 1] = e
  OBVIOUS
<1>2. \A k \in 1..Len(s) : t[k] = s[k]
  OBVIOUS
<1> HIDE DEF t
<1>3. t = [k \in 1..Len(t) |-> t[k]]
  BY <1>1
<1>4. Extends(t, s, e)
  BY <1>1, <1>2, <1>3, Zenon DEF Extends
<1> QED BY <1>4 DEF t

----------------------------------------------------------------------------
(* Quotients and multiples. *)

\* A number is what its quotient and its rest by n make up: a place of a table, by
\* its row and its column.
LEMMA QuotientAndRest ==
  ASSUME NEW n \in Nat \ {0}, NEW k \in Nat
  PROVE  /\ k % n \in Nat /\ k \div n \in Nat /\ k % n <= n - 1 /\ k \div n <= k
         /\ k = n * (k \div n) + (k % n)
<1>1. k % n \in 0..n - 1 /\ k \div n \in Nat /\ k = n * (k \div n) + (k % n)
  OBVIOUS
<1>2. PICK q \in Nat, r \in 0..n - 1 : q = k \div n /\ r = k % n /\ k = n * q + r
  BY <1>1
<1>3. n * q >= q
  <2>1. PICK i \in Nat : n = i + 1
    <3>1. n - 1 \in Nat /\ n = (n - 1) + 1
      OBVIOUS
    <3> QED BY <3>1
  <2>2. i * q \in Nat /\ n * q = i * q + q
    BY <2>1
  <2> QED BY <2>2
<1>4. n * q \in Nat /\ q <= k
  BY <1>2, <1>3
<1> QED BY <1>1, <1>2, <1>4

\* Products of natural numbers grow with their factors.
LEMMA Multiples ==
  ASSUME NEW b \in Nat, NEW j \in Nat, NEW k \in Nat, j <= k
  PROVE  j * b \in Nat /\ j * b <= k * b /\ (j + 1) * b = j * b + b
<1>1. PICK i \in Nat : k = j + i
  <2>1. k - j \in Nat /\ k = j + (k - j)
    OBVIOUS
  <2> QED BY <2>1
<1>2. i * b \in Nat /\ j * b \in Nat /\ (j + i) * b = j * b + i * b
  OBVIOUS
<1>3. (j + 1) * b = j * b + b
  OBVIOUS
<1> QED BY <1>1, <1>2, <1>3

\* The multiples of b on both sides of k.
LEMMA Neighbours ==
  ASSUME NEW k \in Nat, NEW b \in Nat \ {0}
  PROVE  /\ k \div b \in Nat /\ (k \div b) * b \in Nat /\ (k \div b) * b <= k
         /\ (k \div b + 1) * b \in Nat /\ k < (k \div b + 1) * b
<1>1. /\ k % b \in Nat /\ k \div b \in Nat /\ k % b <= b - 1
      /\ k = b * (k \div b) + (k % b)
  BY QuotientAndRest
<1> DEFINE q == k \div b
           p == q * b
<1>2. p \in Nat /\ (q + 1) * b = p + b /\ b * q = p
  BY <1>1, Multiples
<1> HIDE DEF q, p
<1>3. k = p + (k % b) /\ k % b \in Nat /\ k % b <= b - 1
  BY <1>1, <1>2 DEF q
<1> QED BY <1>1, <1>2, <1>3 DEF q, p
=============================================================================

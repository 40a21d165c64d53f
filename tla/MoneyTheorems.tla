------------------------------ MODULE MoneyTheorems ------------------------------
(***************************************************************************)
(* Lemmas about the operators that money is computed with: sums over finite  *)
(* sets (MapThenSumSet of the community modules: what the payments of a run,  *)
(* the shares of an amount, the balances and the executions of a user add up  *)
(* to) and the lists of shares of AllocationRules.                          *)
(*                                                                         *)
(* The sum of a set is defined by recursion over its subsets, and a list of   *)
(* kept elements by recursion over its length. No induction theorem with a   *)
(* predicate as its parameter is used: a statement about the subsets of a     *)
(* finite set holds because, among those that break it, one would be          *)
(* smallest (SmallestSet), and without one of its elements it would hold;     *)
(* in the same way one about numbers (LeastNumber). What is summed is a       *)
(* function, which a lemma can quantify over; a use of MapThenSumSet with     *)
(* another operator is rewritten where it occurs.                           *)
(***************************************************************************)
EXTENDS Integers, FiniteSets, AllocationRules, FiniteSetTheorems, WellFoundedInduction, TLAPS

\* The sum of the values of a function at the elements of a set.
SumOver(f, S) == MapThenSumSet(LAMBDA x : f[x], S)

\* The element a fold takes first, and what the function of the folds of subsets is.
Picked(s) == CHOOSE x \in s : TRUE
FoldStep(f, g, s) == IF s = {} THEN 0 ELSE f[Picked(s)] + g[s \ {Picked(s)}]
Folding(f, S, g) == g = [s \in SUBSET S |-> FoldStep(f, g, s)]
TheFold(f, S) == CHOOSE g : Folding(f, S, g)

\* Every set of natural numbers that has an element has a least one.
LEMMA LeastNumber ==
  ASSUME NEW T, T \subseteq Nat, T # {}
  PROVE  \E n \in T : \A m \in T : n <= m
<1> DEFINE Less == {ss \in Nat \X Nat : ss[1] < ss[2]}
<1>1. IsWellFoundedOn(Less, Nat)
  BY NatLessThanWellFounded DEF OpToRel
<1>2. \E n \in T : \A m \in T : <<m, n>> \notin Less
  <2> HIDE DEF Less
  <2> QED
    BY <1>1, WFMin
<1>3. PICK n \in T : \A m \in T : <<m, n>> \notin Less
  BY <1>2
<1>4. ASSUME NEW m \in T PROVE n <= m
  <2>1. ~(m < n)
    <3>1. <<m, n>> \notin Less
      BY <1>3
    <3>2. m \in Nat /\ n \in Nat
      OBVIOUS
    <3> QED
      BY <3>1, <3>2, Z3
  <2> QED
    BY <2>1
<1> QED
  BY <1>4

\* Among subsets of a finite set there is one with the fewest elements.
LEMMA SmallestSet ==
  ASSUME NEW S, IsFiniteSet(S), NEW B, B \subseteq SUBSET S, B # {}
  PROVE  \E s \in B : IsFiniteSet(s) /\ \A t \in B : Cardinality(s) <= Cardinality(t)
<1> DEFINE sizes == {Cardinality(s) : s \in B}
<1>1. \A s \in B : IsFiniteSet(s) /\ Cardinality(s) \in Nat
  BY FS_Subset, FS_CardinalityType
<1>2. sizes \subseteq Nat /\ sizes # {}
  BY <1>1
<1>3. \E n \in sizes : \A m \in sizes : n <= m
  BY <1>2, LeastNumber
<1> QED
  BY <1>1, <1>3

\* What the fold takes first is an element.
LEMMA PickedIn == ASSUME NEW s, s # {} PROVE Picked(s) \in s
  BY DEF Picked

\* The recursion has a solution: a function that is right up to n elements gives one that
\* is right up to n + 1.
LEMMA FoldExists ==
  ASSUME NEW S, IsFiniteSet(S), NEW f
  PROVE  \E g : Folding(f, S, g)
<1> DEFINE Good(n) == \E g : \A s \in SUBSET S : Cardinality(s) <= n => g[s] = FoldStep(f, g, s)
           bad == {n \in Nat : ~Good(n)}
<1>1. bad = {}
  <2> SUFFICES ASSUME bad # {} PROVE FALSE
    OBVIOUS
  <2>1. \E n \in bad : \A m \in bad : n <= m
    BY LeastNumber
  <2>2. PICK n \in Nat : ~Good(n) /\ \A m \in Nat : m < n => Good(m)
    BY <2>1
  <2>3. n # 0
    <3>1. \A s \in SUBSET S : Cardinality(s) <= 0 => s = {}
      BY FS_Subset, FS_EmptySet, FS_CardinalityType
    <3>2. Good(0)
      <4> DEFINE g == [s \in SUBSET S |-> 0]
      <4>1. \A s \in SUBSET S : Cardinality(s) <= 0 => g[s] = FoldStep(f, g, s)
        BY <3>1 DEF FoldStep
      <4> QED
        BY <4>1
    <3> QED
      BY <3>2, <2>2
  <2>4. Good(n - 1)
    <3>1. n - 1 \in Nat /\ n - 1 < n
      BY <2>3
    <3> HIDE DEF Good
    <3> QED
      BY <3>1, <2>2
  <2>5. PICK g : \A s \in SUBSET S : Cardinality(s) <= n - 1 => g[s] = FoldStep(f, g, s)
    BY <2>4
  <2> DEFINE h == [s \in SUBSET S |-> FoldStep(f, g, s)]
  <2>6. ASSUME NEW s \in SUBSET S, Cardinality(s) <= n PROVE h[s] = FoldStep(f, h, s)
    <3>1. CASE s = {}
      BY <3>1 DEF FoldStep
    <3>2. CASE s # {}
      <4> DEFINE rest == s \ {Picked(s)}
      <4>1. /\ rest \in SUBSET S /\ Cardinality(rest) <= n - 1
        BY <2>6, <3>2, PickedIn, FS_Subset, FS_RemoveElement, FS_CardinalityType
      <4>2. h[rest] = g[rest]
        BY <4>1, <2>5
      <4> QED
        BY <4>2, <3>2 DEF FoldStep
    <3> QED
      BY <3>1, <3>2
  <2>7. Good(n)
    <3> HIDE DEF h
    <3> QED
      BY <2>6
  <2> QED
    BY <2>7, <2>2
<1>2. Cardinality(S) \in Nat /\ \A s \in SUBSET S : Cardinality(s) <= Cardinality(S)
  BY FS_CardinalityType, FS_Subset
<1>3. PICK g : \A s \in SUBSET S : g[s] = FoldStep(f, g, s)
  BY <1>1, <1>2
<1> DEFINE h == [s \in SUBSET S |-> g[s]]
<1>4. ASSUME NEW s \in SUBSET S PROVE h[s] = FoldStep(f, h, s)
  BY <1>3, PickedIn DEF FoldStep
<1>5. h = [s \in SUBSET S |-> FoldStep(f, h, s)]
  BY <1>4
<1> QED
  BY <1>5 DEF Folding

\* So the function the fold chooses satisfies the recursion.
LEMMA FoldFolds ==
  ASSUME NEW S, IsFiniteSet(S), NEW f
  PROVE  \A s \in SUBSET S : TheFold(f, S)[s] = FoldStep(f, TheFold(f, S), s)
<1>1. Folding(f, S, TheFold(f, S))
  BY FoldExists DEF TheFold
<1> QED
  BY <1>1 DEF Folding

\* The sum is that function at the whole set.
LEMMA SumIsFold == ASSUME NEW f, NEW S PROVE SumOver(f, S) = TheFold(f, S)[S]
  BY DEF SumOver, MapThenSumSet, MapThenFoldSet, Folding, Picked, FoldStep, TheFold


-----------------------------------------------------------------------------
\* A finite set without one of its elements is smaller.
LEMMA OneLess ==
  ASSUME NEW s, IsFiniteSet(s), NEW x \in s
  PROVE  /\ IsFiniteSet(s \ {x}) /\ Cardinality(s) \in Nat /\ Cardinality(s \ {x}) \in Nat
         /\ ~(Cardinality(s) <= Cardinality(s \ {x}))
<1>1. IsFiniteSet(s \ {x}) /\ Cardinality(s \ {x}) = Cardinality(s) - 1
  BY FS_RemoveElement
<1>2. Cardinality(s) \in Nat /\ Cardinality(s \ {x}) \in Nat
  BY <1>1, FS_CardinalityType
<1> QED
  BY <1>1, <1>2

\* Sums of integers are integers, for all subsets at once.
LEMMA FoldType ==
  ASSUME NEW S, IsFiniteSet(S), NEW f, \A x \in S : f[x] \in Int
  PROVE  \A s \in SUBSET S : TheFold(f, S)[s] \in Int
<1> DEFINE bad == {s \in SUBSET S : TheFold(f, S)[s] \notin Int}
<1>1. SUFFICES ASSUME bad # {} PROVE FALSE
  OBVIOUS
<1>2. \E s \in bad : IsFiniteSet(s) /\ \A t \in bad : Cardinality(s) <= Cardinality(t)
  BY <1>1, SmallestSet
<1>3. PICK s \in bad : IsFiniteSet(s) /\ \A t \in bad : Cardinality(s) <= Cardinality(t)
  BY <1>2
<1>4. TheFold(f, S)[s] = FoldStep(f, TheFold(f, S), s)
  BY FoldFolds
<1>5. s # {}
  BY <1>4 DEF FoldStep
<1>6. Picked(s) \in s
  BY <1>5, PickedIn
<1>7. s \ {Picked(s)} \notin bad
  BY <1>3, <1>6, OneLess
<1> QED
  BY <1>4, <1>5, <1>6, <1>7 DEF FoldStep

\* The fold of a subset is the same whichever set it is folded within.
LEMMA FoldRestricts ==
  ASSUME NEW S, IsFiniteSet(S), NEW f, NEW T \in SUBSET S
  PROVE  \A s \in SUBSET T : TheFold(f, S)[s] = TheFold(f, T)[s]
<1> DEFINE bad == {s \in SUBSET T : TheFold(f, S)[s] # TheFold(f, T)[s]}
<1>1. SUFFICES ASSUME bad # {} PROVE FALSE
  OBVIOUS
<1>2. IsFiniteSet(T) /\ bad \subseteq SUBSET T
  BY FS_Subset
<1>3. \E s \in bad : IsFiniteSet(s) /\ \A t \in bad : Cardinality(s) <= Cardinality(t)
  BY <1>1, <1>2, SmallestSet
<1>4. PICK s \in bad : IsFiniteSet(s) /\ \A t \in bad : Cardinality(s) <= Cardinality(t)
  BY <1>3
<1>5. /\ TheFold(f, S)[s] = FoldStep(f, TheFold(f, S), s)
      /\ TheFold(f, T)[s] = FoldStep(f, TheFold(f, T), s)
  BY <1>2, FoldFolds
<1>6. s # {}
  BY <1>5 DEF FoldStep
<1>7. Picked(s) \in s
  BY <1>6, PickedIn
<1>8. s \ {Picked(s)} \notin bad
  BY <1>4, <1>7, OneLess
<1> QED
  BY <1>5, <1>7, <1>8 DEF FoldStep

\* The sum of nothing.
LEMMA SumOfNone == ASSUME NEW f PROVE SumOver(f, {}) = 0
  BY SumIsFold, FoldFolds, FS_EmptySet DEF FoldStep

\* The sum is the element taken first and the sum of the rest.
LEMMA SumPicks ==
  ASSUME NEW S, IsFiniteSet(S), S # {}, NEW f
  PROVE  SumOver(f, S) = f[Picked(S)] + SumOver(f, S \ {Picked(S)})
<1> DEFINE rest == S \ {Picked(S)}
<1>1. SumOver(f, S) = f[Picked(S)] + TheFold(f, S)[rest]
  BY SumIsFold, FoldFolds DEF FoldStep
<1>2. SumOver(f, rest) = TheFold(f, S)[rest]
  BY SumIsFold, FoldRestricts
<1> QED
  BY <1>1, <1>2

\* A sum of integers is an integer.
LEMMA SumType ==
  ASSUME NEW S, IsFiniteSet(S), NEW f, \A x \in S : f[x] \in Int
  PROVE  SumOver(f, S) \in Int
  BY SumIsFold, FoldType

\* Any element may be taken first: addition does not mind the order.
LEMMA SumTakes ==
  ASSUME NEW S, IsFiniteSet(S), NEW f, \A x \in S : f[x] \in Int, NEW e \in S
  PROVE  SumOver(f, S) = f[e] + SumOver(f, S \ {e})
<1> DEFINE bad == {s \in SUBSET S : \E x \in s : SumOver(f, s) # f[x] + SumOver(f, s \ {x})}
<1>1. SUFFICES ASSUME bad # {} PROVE FALSE
  OBVIOUS
<1>2. \E s \in bad : IsFiniteSet(s) /\ \A t \in bad : Cardinality(s) <= Cardinality(t)
  BY <1>1, SmallestSet
<1>3. PICK s \in bad : IsFiniteSet(s) /\ \A t \in bad : Cardinality(s) <= Cardinality(t)
  BY <1>2
<1>4. PICK x \in s : SumOver(f, s) # f[x] + SumOver(f, s \ {x})
  BY <1>3
<1> DEFINE p == Picked(s)
<1>5. p \in s
  BY PickedIn
<1>6. SumOver(f, s) = f[p] + SumOver(f, s \ {p})
  BY <1>3, SumPicks
<1> HIDE DEF p
<1>7. p # x
  BY <1>4, <1>6
<1>8. s \ {p} \notin bad /\ s \ {x} \notin bad
  BY <1>3, <1>5, OneLess
<1>9. SumOver(f, s \ {p}) = f[x] + SumOver(f, (s \ {p}) \ {x})
  BY <1>7, <1>8
<1>10. SumOver(f, s \ {x}) = f[p] + SumOver(f, (s \ {x}) \ {p})
  BY <1>5, <1>7, <1>8
<1>11. (s \ {x}) \ {p} = (s \ {p}) \ {x}
  OBVIOUS
<1>12. SumOver(f, (s \ {p}) \ {x}) \in Int
  <2>1. IsFiniteSet((s \ {p}) \ {x})
    BY <1>3, FS_Subset
  <2> QED
    BY <2>1, SumType
<1>13. f[p] \in Int /\ f[x] \in Int
  BY <1>5
<1>14. SumOver(f, s) = f[p] + (f[x] + SumOver(f, (s \ {p}) \ {x}))
  BY <1>6, <1>9
<1>15. f[x] + SumOver(f, s \ {x}) = f[x] + (f[p] + SumOver(f, (s \ {p}) \ {x}))
  BY <1>10, <1>11
<1> QED
  BY <1>4, <1>12, <1>13, <1>14, <1>15

\* One element more.
LEMMA SumAdds ==
  ASSUME NEW S, IsFiniteSet(S), NEW e, e \notin S, NEW f, \A x \in S \cup {e} : f[x] \in Int
  PROVE  SumOver(f, S \cup {e}) = SumOver(f, S) + f[e]
<1>1. IsFiniteSet(S \cup {e})
  BY FS_AddElement
<1>2. (S \cup {e}) \ {e} = S
  OBVIOUS
<1>3. SumOver(f, S \cup {e}) = f[e] + SumOver(f, S)
  BY <1>1, <1>2, SumTakes
<1>4. SumOver(f, S) \in Int /\ f[e] \in Int
  BY SumType
<1> QED
  BY <1>3, <1>4

\* The sum of one element.
LEMMA SumOfOne == ASSUME NEW e, NEW f, f[e] \in Int PROVE SumOver(f, {e}) = f[e]
<1>1. SumOver(f, {} \cup {e}) = SumOver(f, {}) + f[e]
  BY SumAdds, FS_EmptySet
<1>2. {} \cup {e} = {e}
  OBVIOUS
<1> QED
  BY <1>1, <1>2, SumOfNone

\* The sum depends on the values at the elements of the set only.
LEMMA SumAgrees ==
  ASSUME NEW S, IsFiniteSet(S), NEW f, NEW g, \A x \in S : f[x] = g[x]
  PROVE  SumOver(f, S) = SumOver(g, S)
<1> DEFINE bad == {s \in SUBSET S : SumOver(f, s) # SumOver(g, s)}
<1>1. SUFFICES ASSUME bad # {} PROVE FALSE
  OBVIOUS
<1>2. \E s \in bad : IsFiniteSet(s) /\ \A t \in bad : Cardinality(s) <= Cardinality(t)
  BY <1>1, SmallestSet
<1>3. PICK s \in bad : IsFiniteSet(s) /\ \A t \in bad : Cardinality(s) <= Cardinality(t)
  BY <1>2
<1>4. s # {}
  BY SumOfNone
<1>5. Picked(s) \in s
  BY <1>4, PickedIn
<1>6. s \ {Picked(s)} \notin bad
  BY <1>3, <1>5, OneLess
<1>7. /\ SumOver(f, s) = f[Picked(s)] + SumOver(f, s \ {Picked(s)})
      /\ SumOver(g, s) = g[Picked(s)] + SumOver(g, s \ {Picked(s)})
  BY <1>3, <1>4, SumPicks
<1> QED
  BY <1>5, <1>6, <1>7

\* Smaller values, smaller sum.
LEMMA SumAtMost ==
  ASSUME NEW S, IsFiniteSet(S), NEW f, NEW g,
         \A x \in S : f[x] \in Int /\ g[x] \in Int /\ f[x] <= g[x]
  PROVE  SumOver(f, S) <= SumOver(g, S)
<1> DEFINE bad == {s \in SUBSET S : ~(SumOver(f, s) <= SumOver(g, s))}
<1>1. SUFFICES ASSUME bad # {} PROVE FALSE
  OBVIOUS
<1>2. \E s \in bad : IsFiniteSet(s) /\ \A t \in bad : Cardinality(s) <= Cardinality(t)
  BY <1>1, SmallestSet
<1>3. PICK s \in bad : IsFiniteSet(s) /\ \A t \in bad : Cardinality(s) <= Cardinality(t)
  BY <1>2
<1>4. s # {}
  BY SumOfNone
<1>5. Picked(s) \in s
  BY <1>4, PickedIn
<1> DEFINE rest == s \ {Picked(s)}
<1>6. IsFiniteSet(rest) /\ SumOver(f, rest) <= SumOver(g, rest)
  BY <1>3, <1>5, OneLess
<1>7. /\ SumOver(f, s) = f[Picked(s)] + SumOver(f, rest)
      /\ SumOver(g, s) = g[Picked(s)] + SumOver(g, rest)
  BY <1>3, <1>4, SumPicks
<1>8. SumOver(f, rest) \in Int /\ SumOver(g, rest) \in Int
  BY <1>6, SumType
<1>9. f[Picked(s)] \in Int /\ g[Picked(s)] \in Int /\ f[Picked(s)] <= g[Picked(s)]
  BY <1>5
<1>10. SumOver(f, s) <= SumOver(g, s)
  <2> HIDE DEF rest
  <2> QED
    BY <1>6, <1>7, <1>8, <1>9
<1> QED
  BY <1>10

\* Nothing adds up to nothing.
LEMMA SumOfZeros ==
  ASSUME NEW S, IsFiniteSet(S), NEW f, \A x \in S : f[x] = 0
  PROVE  SumOver(f, S) = 0
<1> DEFINE bad == {s \in SUBSET S : SumOver(f, s) # 0}
<1>1. SUFFICES ASSUME bad # {} PROVE FALSE
  OBVIOUS
<1>2. \E s \in bad : IsFiniteSet(s) /\ \A t \in bad : Cardinality(s) <= Cardinality(t)
  BY <1>1, SmallestSet
<1>3. PICK s \in bad : IsFiniteSet(s) /\ \A t \in bad : Cardinality(s) <= Cardinality(t)
  BY <1>2
<1>4. s # {}
  BY SumOfNone
<1>5. Picked(s) \in s
  BY <1>4, PickedIn
<1>6. s \ {Picked(s)} \notin bad
  BY <1>3, <1>5, OneLess
<1>7. SumOver(f, s) = f[Picked(s)] + SumOver(f, s \ {Picked(s)})
  BY <1>3, <1>4, SumPicks
<1> QED
  BY <1>5, <1>6, <1>7

\* A sum of natural numbers is a natural number.
LEMMA SumNat ==
  ASSUME NEW S, IsFiniteSet(S), NEW f, \A x \in S : f[x] \in Nat
  PROVE  SumOver(f, S) \in Nat
<1> DEFINE none == [x \in S |-> 0]
<1>1. SumOver(f, S) \in Int
  BY SumType
<1>2. SumOver(none, S) = 0
  BY SumOfZeros
<1>3. SumOver(none, S) <= SumOver(f, S)
  BY SumAtMost
<1> QED
  BY <1>1, <1>2, <1>3

\* Two sets with nothing in common add up separately.
LEMMA SumUnion ==
  ASSUME NEW S, IsFiniteSet(S), NEW T, IsFiniteSet(T), S \cap T = {}, NEW f,
         \A x \in S \cup T : f[x] \in Int
  PROVE  SumOver(f, S \cup T) = SumOver(f, S) + SumOver(f, T)
<1> DEFINE bad == {t \in SUBSET T : SumOver(f, S \cup t) # SumOver(f, S) + SumOver(f, t)}
<1>1. SUFFICES ASSUME bad # {} PROVE FALSE
  OBVIOUS
<1>2. \E s \in bad : IsFiniteSet(s) /\ \A t \in bad : Cardinality(s) <= Cardinality(t)
  BY <1>1, SmallestSet
<1>3. PICK t \in bad : IsFiniteSet(t) /\ \A s \in bad : Cardinality(t) <= Cardinality(s)
  BY <1>2
<1>4. SumOver(f, S) \in Int
  BY SumType
<1>5. t # {}
  <2> SUFFICES ASSUME t = {} PROVE FALSE
    OBVIOUS
  <2>1. S \cup t = S
    OBVIOUS
  <2>2. SumOver(f, t) = 0
    BY SumOfNone
  <2>3. SumOver(f, S \cup t) # SumOver(f, S) + SumOver(f, t)
    OBVIOUS
  <2> QED
    BY <2>1, <2>2, <2>3, <1>4
<1>6. PICK e \in t : TRUE
  BY <1>5
<1> DEFINE rest == t \ {e}
<1>7. IsFiniteSet(rest) /\ SumOver(f, S \cup rest) = SumOver(f, S) + SumOver(f, rest)
  BY <1>3, OneLess
<1>8. SumOver(f, t) = f[e] + SumOver(f, rest)
  BY <1>3, SumTakes
<1>9. SumOver(f, S \cup t) = f[e] + SumOver(f, S \cup rest)
  <2>1. IsFiniteSet(S \cup t)
    BY <1>3, FS_Union
  <2>2. (S \cup t) \ {e} = S \cup rest
    OBVIOUS
  <2> QED
    BY <2>1, <2>2, SumTakes
<1>10. SumOver(f, rest) \in Int /\ f[e] \in Int
  BY <1>7, SumType
<1>11. SumOver(f, S \cup t) = SumOver(f, S) + SumOver(f, t)
  <2> HIDE DEF rest
  <2> QED
    BY <1>4, <1>7, <1>8, <1>9, <1>10
<1> QED
  BY <1>11

\* A subset adds up to no more.
LEMMA SumGrows ==
  ASSUME NEW T, IsFiniteSet(T), NEW S \in SUBSET T, NEW f, \A x \in T : f[x] \in Nat
  PROVE  SumOver(f, S) <= SumOver(f, T)
<1>1. IsFiniteSet(S) /\ IsFiniteSet(T \ S) /\ S \cup (T \ S) = T
  BY FS_Subset
<1>2. SumOver(f, T) = SumOver(f, S) + SumOver(f, T \ S)
  <2>1. SumOver(f, S \cup (T \ S)) = SumOver(f, S) + SumOver(f, T \ S)
    BY <1>1, SumUnion
  <2> QED
    BY <2>1, <1>1
<1>3. SumOver(f, S) \in Nat /\ SumOver(f, T \ S) \in Nat
  BY <1>1, SumNat
<1> QED
  BY <1>2, <1>3

\* What counts for nothing can be left out.
LEMMA SumWithoutZeros ==
  ASSUME NEW T, IsFiniteSet(T), NEW S \in SUBSET T, NEW f, \A x \in T : f[x] \in Int,
         \A x \in T \ S : f[x] = 0
  PROVE  SumOver(f, T) = SumOver(f, S)
<1>1. IsFiniteSet(S) /\ IsFiniteSet(T \ S) /\ S \cup (T \ S) = T
  BY FS_Subset
<1>2. SumOver(f, T) = SumOver(f, S) + SumOver(f, T \ S)
  <2>1. SumOver(f, S \cup (T \ S)) = SumOver(f, S) + SumOver(f, T \ S)
    BY <1>1, SumUnion
  <2> QED
    BY <2>1, <1>1
<1>3. SumOver(f, S) \in Int /\ SumOver(f, T \ S) = 0
  BY <1>1, SumType, SumOfZeros
<1> QED
  BY <1>2, <1>3

\* When one value changes, the sum changes by the difference.
LEMMA SumChangesAt ==
  ASSUME NEW S, IsFiniteSet(S), NEW e \in S, NEW f, NEW g,
         \A x \in S : f[x] \in Int /\ g[x] \in Int,
         \A x \in S \ {e} : g[x] = f[x]
  PROVE  SumOver(g, S) = SumOver(f, S) + (g[e] - f[e])
<1>1. IsFiniteSet(S \ {e})
  BY FS_Subset
<1>2. SumOver(g, S \ {e}) = SumOver(f, S \ {e})
  BY <1>1, SumAgrees
<1>3. /\ SumOver(f, S) = f[e] + SumOver(f, S \ {e})
      /\ SumOver(g, S) = g[e] + SumOver(g, S \ {e})
  BY SumTakes
<1>4. SumOver(f, S \ {e}) \in Int /\ f[e] \in Int /\ g[e] \in Int
  BY <1>1, SumType
<1> QED
  BY <1>2, <1>3, <1>4

\* A sum over numbered elements, taken in the order of another numbering.
LEMMA SumReindexed ==
  ASSUME NEW T, IsFiniteSet(T), NEW S, NEW at \in [T -> S], NEW f,
         \A x \in S : f[x] \in Int,
         \A i, j \in T : at[i] = at[j] => i = j,
         \A x \in S : \E i \in T : at[i] = x
  PROVE  SumOver([i \in T |-> f[at[i]]], T) = SumOver(f, S)
<1> DEFINE g == [i \in T |-> f[at[i]]]
           Image(t) == {at[i] : i \in t}
           bad == {t \in SUBSET T : SumOver(g, t) # SumOver(f, Image(t))}
<1>1. ASSUME bad # {} PROVE FALSE
  <2>1. \E t \in bad : IsFiniteSet(t) /\ \A s \in bad : Cardinality(t) <= Cardinality(s)
    BY <1>1, SmallestSet
  <2>2. PICK t \in bad : IsFiniteSet(t) /\ \A s \in bad : Cardinality(t) <= Cardinality(s)
    BY <2>1
  <2>3. t # {}
    <3> SUFFICES ASSUME t = {} PROVE FALSE
      OBVIOUS
    <3>1. Image(t) = {}
      OBVIOUS
    <3> QED
      BY <3>1, SumOfNone
  <2>4. PICK e \in t : TRUE
    BY <2>3
  <2> DEFINE rest == t \ {e}
  <2>5. rest \notin bad /\ IsFiniteSet(rest)
    BY <2>2, OneLess
  <2>6. SumOver(g, t) = g[e] + SumOver(g, rest)
    BY <2>2, SumTakes
  <2>7. IsFiniteSet(Image(rest)) /\ at[e] \notin Image(rest)
    <3>1. [i \in rest |-> at[i]] \in Surjection(rest, Image(rest))
      BY DEF Surjection
    <3>2. IsFiniteSet(Image(rest))
      <4> HIDE DEF Image
      <4> QED
        BY <2>5, <3>1, FS_Surjection
    <3>3. at[e] \notin Image(rest)
      OBVIOUS
    <3> QED
      BY <3>2, <3>3
  <2>8. Image(t) = Image(rest) \cup {at[e]}
    OBVIOUS
  <2>9. SumOver(f, Image(t)) = SumOver(f, Image(rest)) + f[at[e]]
    <3>1. \A x \in Image(rest) \cup {at[e]} : f[x] \in Int
      OBVIOUS
    <3> HIDE DEF Image, rest
    <3>2. SumOver(f, Image(rest) \cup {at[e]}) = SumOver(f, Image(rest)) + f[at[e]]
      BY <3>1, <2>7, SumAdds
    <3> QED
      BY <3>2, <2>8
  <2>10. SumOver(f, Image(rest)) \in Int /\ f[at[e]] \in Int
    BY <2>7, SumType
  <2>11. SumOver(g, rest) = SumOver(f, Image(rest)) /\ g[e] = f[at[e]]
    BY <2>5
  <2>12. SumOver(g, t) # SumOver(f, Image(t))
    OBVIOUS
  <2> HIDE DEF rest, g, Image
  <2> QED
    BY <2>6, <2>9, <2>10, <2>11, <2>12
<1>2. Image(T) = S
  OBVIOUS
<1> QED
  BY <1>1, <1>2

-----------------------------------------------------------------------------
(* Lists of shares *)

\* The recursion of Kept.
KeptStep(list, positions, upTo, n) ==
  IF n = 0 THEN <<>>
  ELSE IF n \in positions THEN Append(upTo[n - 1], list[n]) ELSE upTo[n - 1]

Keeping(list, positions, upTo) ==
  upTo = [n \in 0..Len(list) |-> KeptStep(list, positions, upTo, n)]

\* It has a solution: one that is right up to n gives one that is right up to n + 1.
LEMMA KeepingExists ==
  ASSUME NEW list, Len(list) \in Nat, NEW positions
  PROVE  \E upTo : Keeping(list, positions, upTo)
<1> DEFINE Good(n) == \E g : \A m \in 0..n : g[m] = KeptStep(list, positions, g, m)
           bad == {n \in Nat : ~Good(n)}
<1>1. bad = {}
  <2> SUFFICES ASSUME bad # {} PROVE FALSE
    OBVIOUS
  <2>1. \E n \in bad : \A m \in bad : n <= m
    BY LeastNumber
  <2>2. PICK n \in Nat : ~Good(n) /\ \A m \in Nat : m < n => Good(m)
    <3> HIDE DEF Good
    <3>1. PICK n \in bad : \A m \in bad : n <= m
      BY <2>1
    <3>2. \A m \in Nat : m < n => m \notin bad
      BY <3>1
    <3> QED
      BY <3>1, <3>2
  <2>3. n # 0
    <3>1. Good(0)
      <4> DEFINE g == [m \in {0} |-> <<>>]
      <4>1. \A m \in 0..0 : g[m] = KeptStep(list, positions, g, m)
        BY DEF KeptStep
      <4> QED
        BY <4>1
    <3> QED
      BY <3>1, <2>2
  <2>4. Good(n - 1)
    <3>1. n - 1 \in Nat /\ n - 1 < n
      BY <2>3
    <3> HIDE DEF Good
    <3> QED
      BY <3>1, <2>2
  <2>5. PICK g : \A m \in 0..(n - 1) : g[m] = KeptStep(list, positions, g, m)
    BY <2>4
  <2> DEFINE h == [m \in 0..n |-> KeptStep(list, positions, g, m)]
  <2>6. ASSUME NEW m \in 0..n PROVE h[m] = KeptStep(list, positions, h, m)
    <3>1. CASE m = 0
      BY <3>1 DEF KeptStep
    <3>2. CASE m # 0
      <4>1. m - 1 \in 0..(n - 1) /\ m - 1 \in 0..n
        BY <3>2
      <4>2. h[m - 1] = g[m - 1]
        BY <4>1, <2>5
      <4> QED
        BY <4>2, <3>2 DEF KeptStep
    <3> QED
      BY <3>1, <3>2
  <2>7. Good(n)
    <3> HIDE DEF h
    <3> QED
      BY <2>6
  <2> QED
    BY <2>7, <2>2
<1>2. PICK g : \A n \in 0..Len(list) : g[n] = KeptStep(list, positions, g, n)
  BY <1>1
<1> DEFINE h == [n \in 0..Len(list) |-> g[n]]
<1>3. ASSUME NEW n \in 0..Len(list) PROVE h[n] = KeptStep(list, positions, h, n)
  <2>1. n = 0 \/ n - 1 \in 0..Len(list)
    OBVIOUS
  <2> QED
    BY <2>1, <1>2 DEF KeptStep
<1>4. h = [n \in 0..Len(list) |-> KeptStep(list, positions, h, n)]
  BY <1>3
<1> QED
  BY <1>4 DEF Keeping

\* at numbers the wanted positions of a list, in order, as the elements of k.
Numbers(at, k, list, wanted) ==
  /\ at \in [1..Len(k) -> wanted]
  /\ \A i \in 1..Len(k) : k[i] = list[at[i]]
  /\ \A i, j \in 1..Len(k) : i < j => at[i] < at[j]
  /\ \A p \in wanted : \E i \in 1..Len(k) : at[i] = p

\* One position more.
LEMMA NumbersOneMore ==
  ASSUME NEW S, NEW list \in Seq(S), NEW k \in Seq(S), NEW wanted, NEW n \in DOMAIN list,
         wanted \subseteq 1..(n - 1), NEW at, Numbers(at, k, list, wanted)
  PROVE  \E new : Numbers(new, Append(k, list[n]), list, wanted \cup {n})
<1> DEFINE new == [i \in 1..(Len(k) + 1) |-> IF i = Len(k) + 1 THEN n ELSE at[i]]
           more == Append(k, list[n])
<1>1. /\ Len(k) \in Nat /\ Len(more) = Len(k) + 1 /\ more[Len(k) + 1] = list[n]
      /\ \A i \in 1..Len(k) : more[i] = k[i]
  OBVIOUS
<1> HIDE DEF more
<1>2. \A i \in 1..(Len(k) + 1) : i = Len(k) + 1 \/ i \in 1..Len(k)
  BY <1>1
<1>3. \A i \in 1..Len(k) : at[i] \in 1..(n - 1) /\ at[i] \in wanted /\ new[i] = at[i]
  <2>1. \A i \in 1..Len(k) : at[i] \in wanted
    BY DEF Numbers
  <2>2. \A i \in 1..Len(k) : i \in 1..(Len(k) + 1) /\ i # Len(k) + 1
    BY <1>1
  <2> QED
    BY <2>1, <2>2
<1>4. new[Len(k) + 1] = n
  BY <1>1
<1>5. n \in Nat
  OBVIOUS
<1>6. new \in [1..Len(more) -> wanted \cup {n}]
  BY <1>1, <1>2, <1>3
<1>7. \A i \in 1..Len(k) : i # Len(k) + 1 /\ ~(Len(k) + 1 < i)
  BY <1>1
<1>8. Len(k) + 1 \in 1..(Len(k) + 1) /\ ~(Len(k) + 1 < Len(k) + 1)
  BY <1>1
<1> HIDE DEF new
<1>9. \A i \in 1..Len(more) : more[i] = list[new[i]]
  BY <1>1, <1>2, <1>3, <1>4 DEF Numbers
<1>10. ASSUME NEW i \in 1..Len(more), NEW j \in 1..Len(more), i < j
       PROVE  new[i] < new[j]
  <2>1. i \in 1..Len(k)
    BY <1>1, <1>10
  <2>2. CASE j \in 1..Len(k)
    <3>1. at[i] < at[j]
      BY <1>10, <2>1, <2>2 DEF Numbers
    <3> QED
      BY <3>1, <2>1, <2>2, <1>3
  <2>3. CASE j = Len(k) + 1
    <3>1. new[i] \in 1..(n - 1)
      BY <2>1, <1>3
    <3>2. new[j] = n
      BY <2>3, <1>4
    <3> QED
      BY <3>1, <3>2, <1>5
  <2> QED
    BY <2>2, <2>3, <1>1, <1>2
<1>11. \A p \in wanted \cup {n} : \E i \in 1..Len(more) : new[i] = p
  <2>1. ASSUME NEW p \in wanted PROVE \E i \in 1..Len(more) : new[i] = p
    <3>1. PICK i \in 1..Len(k) : at[i] = p
      BY DEF Numbers
    <3>2. i \in 1..Len(more)
      BY <1>1
    <3> QED
      BY <3>1, <3>2, <1>3
  <2> QED
    BY <2>1, <1>1, <1>8, <1>4
<1>12. Numbers(new, more, list, wanted \cup {n})
  BY <1>6, <1>9, <1>10, <1>11 DEF Numbers
<1> QED
  BY <1>12 DEF more

\* What is kept are the elements at the positions, in their order and each once.
LEMMA KeptIs ==
  ASSUME NEW S, NEW list \in Seq(S), NEW positions
  PROVE  /\ Kept(list, positions) \in Seq(S)
         /\ \E at : Numbers(at, Kept(list, positions), list, positions \cap DOMAIN list)
<1>1. Len(list) \in Nat /\ DOMAIN list = 1..Len(list)
  OBVIOUS
<1> DEFINE upTo == CHOOSE g : Keeping(list, positions, g)
           Wanted(n) == positions \cap (1..n)
           Good(n) == upTo[n] \in Seq(S) /\ \E at : Numbers(at, upTo[n], list, Wanted(n))
           bad == {n \in 0..Len(list) : ~Good(n)}
<1>2. Keeping(list, positions, upTo)
  BY <1>1, KeepingExists
<1>3. Kept(list, positions) = upTo[Len(list)]
  BY DEF Kept, Keeping, KeptStep
<1> HIDE DEF upTo
<1>4. \A n \in 0..Len(list) : upTo[n] = KeptStep(list, positions, upTo, n)
  BY <1>2 DEF Keeping
<1>5. ASSUME bad # {} PROVE FALSE
  <2>1. bad \subseteq Nat
    OBVIOUS
  <2>2. \E n \in bad : \A m \in bad : n <= m
    BY <1>5, <2>1, LeastNumber
  <2>3. PICK n \in 0..Len(list) : ~Good(n) /\ \A m \in 0..Len(list) : m < n => Good(m)
    <3> HIDE DEF Good
    <3>1. PICK n \in bad : \A m \in bad : n <= m
      BY <2>2
    <3>2. \A m \in 0..Len(list) : m < n => m \notin bad
      BY <3>1
    <3> QED
      BY <3>1, <3>2
  <2>4. n # 0
    <3> SUFFICES ASSUME n = 0 PROVE FALSE
      OBVIOUS
    <3>1. upTo[0] = <<>>
      BY <1>1, <1>4 DEF KeptStep
    <3>2. Wanted(0) = {} /\ <<>> \in Seq(S) /\ Len(<<>>) = 0 /\ 1..0 = {}
      OBVIOUS
    <3>3. Numbers(<<>>, <<>>, list, {})
      BY <3>2 DEF Numbers
    <3> QED
      BY <3>1, <3>2, <3>3, <2>3
  <2>5. n - 1 \in 0..Len(list) /\ n - 1 < n /\ n \in DOMAIN list
    BY <2>4, <1>1
  <2>6. Good(n - 1)
    <3> HIDE DEF Good
    <3> QED
      BY <2>3, <2>5
  <2>7. PICK at : Numbers(at, upTo[n - 1], list, Wanted(n - 1))
    BY <2>6
  <2>8. CASE n \in positions
    <3>1. upTo[n] = Append(upTo[n - 1], list[n])
      BY <2>4, <2>8, <1>4 DEF KeptStep
    <3>2. Wanted(n) = Wanted(n - 1) \cup {n} /\ Wanted(n - 1) \subseteq 1..(n - 1)
      BY <2>5, <2>8, <1>1
    <3>3. upTo[n] \in Seq(S)
      BY <3>1, <2>5, <2>6
    <3>4. \E new : Numbers(new, upTo[n], list, Wanted(n))
      <4>1. upTo[n - 1] \in Seq(S)
        BY <2>6
      <4> HIDE DEF Wanted
      <4>2. \E new : Numbers(new, Append(upTo[n - 1], list[n]), list, Wanted(n - 1) \cup {n})
        BY <4>1, <3>2, <2>5, <2>7, NumbersOneMore
      <4> QED
        BY <4>2, <3>1, <3>2
    <3> QED
      BY <3>3, <3>4, <2>3
  <2>9. CASE n \notin positions
    <3>1. upTo[n] = upTo[n - 1]
      BY <2>4, <2>9, <1>4 DEF KeptStep
    <3>2. Wanted(n) = Wanted(n - 1)
      BY <2>5, <2>9, <1>1
    <3> QED
      BY <3>1, <3>2, <2>3, <2>6
  <2> QED
    BY <2>8, <2>9
<1>6. Good(Len(list))
  <2> HIDE DEF Good
  <2>1. Len(list) \in 0..Len(list)
    BY <1>1
  <2> QED
    BY <2>1, <1>5
<1>7. Wanted(Len(list)) = positions \cap DOMAIN list
  BY <1>1
<1> QED
  BY <1>3, <1>6, <1>7

\* The positions kept are numbered one to one.
LEMMA NumbersOnce ==
  ASSUME NEW at, NEW k, Len(k) \in Nat, NEW list, NEW wanted \in SUBSET Nat,
         Numbers(at, k, list, wanted)
  PROVE  \A i, j \in 1..Len(k) : at[i] = at[j] => i = j
<1> SUFFICES ASSUME NEW i \in 1..Len(k), NEW j \in 1..Len(k), at[i] = at[j], i # j
             PROVE  FALSE
  OBVIOUS
<1>1. i < j \/ j < i
  OBVIOUS
<1>2. at[i] < at[j] \/ at[j] < at[i]
  BY <1>1 DEF Numbers
<1>3. at[i] \in Nat
  BY DEF Numbers
<1> QED
  BY <1>2, <1>3

\* What the kept elements add up to.
LEMMA KeptAddsUp ==
  ASSUME NEW S, NEW list \in Seq(S), NEW positions, NEW f,
         \A i \in DOMAIN list : f[i] \in Int,
         NEW at, Numbers(at, Kept(list, positions), list, positions \cap DOMAIN list)
  PROVE  SumOver([i \in DOMAIN Kept(list, positions) |-> f[at[i]]], DOMAIN Kept(list, positions))
           = SumOver(f, positions \cap DOMAIN list)
<1> DEFINE k == Kept(list, positions)
           wanted == positions \cap DOMAIN list
<1>1. k \in Seq(S)
  BY KeptIs
<1>2. Len(k) \in Nat /\ DOMAIN k = 1..Len(k) /\ wanted \in SUBSET Nat
  BY <1>1
<1>3. IsFiniteSet(1..Len(k))
  BY <1>2, FS_Interval
<1>4. Numbers(at, k, list, wanted)
  OBVIOUS
<1>5. \A x \in wanted : f[x] \in Int
  OBVIOUS
<1> HIDE DEF k, wanted
<1>6. \A i, j \in 1..Len(k) : at[i] = at[j] => i = j
  BY <1>2, <1>4, NumbersOnce
<1>7. at \in [1..Len(k) -> wanted] /\ \A x \in wanted : \E i \in 1..Len(k) : at[i] = x
  BY <1>4 DEF Numbers
<1>8. SumOver([i \in 1..Len(k) |-> f[at[i]]], 1..Len(k)) = SumOver(f, wanted)
  <2> DEFINE T == 1..Len(k)
  <2> HIDE DEF T
  <2>1. /\ IsFiniteSet(T) /\ at \in [T -> wanted]
        /\ \A i, j \in T : at[i] = at[j] => i = j
        /\ \A x \in wanted : \E i \in T : at[i] = x
    BY <1>3, <1>6, <1>7 DEF T
  <2>2. SumOver([i \in T |-> f[at[i]]], T) = SumOver(f, wanted)
    BY <2>1, <1>5, SumReindexed
  <2> QED
    BY <2>2 DEF T
<1> QED
  BY <1>2, <1>8 DEF k, wanted

\* The amounts of a list of shares.
AmountsOf(list) == [i \in DOMAIN list |-> list[i].amount]

\* The sum of a field of records is the sum of a function.
LEMMA SumOfField ==
  ASSUME NEW g, NEW S
  PROVE  MapThenSumSet(LAMBDA i : g[i].amount, S) = SumOver([i \in S |-> g[i].amount], S)
BY DEF SumOver, MapThenSumSet, MapThenFoldSet

\* What a list of shares adds up to.
Whole(list) == SumOver(AmountsOf(list), DOMAIN list)

Distinct(list) == \A i, j \in DOMAIN list : list[i].contract = list[j].contract => i = j

ShareOf(C) == [contract : C, amount : Nat]

\* Without the shares that are empty, a list of shares adds up to the same.
LEMMA NotEmptyIsWhole ==
  ASSUME NEW C, NEW list \in Seq(ShareOf(C)), Distinct(list)
  PROVE  /\ NotEmpty(list) \in Seq(ShareOf(C))
         /\ Distinct(NotEmpty(list))
         /\ \A i \in DOMAIN NotEmpty(list) : NotEmpty(list)[i].amount > 0
         /\ Whole(NotEmpty(list)) = Whole(list)
<1> DEFINE some == {i \in DOMAIN list : list[i].amount > 0}
           k == Kept(list, some)
           f == AmountsOf(list)
<1>1. /\ DOMAIN list = 1..Len(list) /\ Len(list) \in Nat
      /\ \A i \in DOMAIN list : list[i] \in ShareOf(C)
  OBVIOUS
<1>2. \A i \in DOMAIN list : list[i].amount \in Nat /\ f[i] = list[i].amount
  BY <1>1 DEF ShareOf, AmountsOf
<1>3. NotEmpty(list) = k /\ some \cap DOMAIN list = some
  BY DEF NotEmpty
<1>4. k \in Seq(ShareOf(C)) /\ \E at : Numbers(at, k, list, some)
  BY <1>3, KeptIs
<1>5. PICK at : Numbers(at, k, list, some)
  BY <1>4
<1>6. DOMAIN k = 1..Len(k) /\ Len(k) \in Nat /\ some \in SUBSET Nat
  BY <1>1, <1>4
<1>7. SumOver([i \in DOMAIN k |-> f[at[i]]], DOMAIN k) = SumOver(f, some)
  BY <1>1, <1>2, <1>3, <1>5, KeptAddsUp
<1>8. SumOver(f, DOMAIN list) = SumOver(f, some)
  <2>1. IsFiniteSet(DOMAIN list)
    BY <1>1, FS_Interval
  <2>2. \A x \in DOMAIN list \ some : f[x] = 0
    BY <1>2
  <2> HIDE DEF f
  <2> QED
    BY <2>1, <2>2, <1>2, SumWithoutZeros
<1> HIDE DEF k, some, f
<1>9. \A i \in DOMAIN k : k[i] = list[at[i]] /\ at[i] \in some
  BY <1>5, <1>6 DEF Numbers
<1>10. AmountsOf(k) = [i \in DOMAIN k |-> f[at[i]]]
  BY <1>2, <1>9 DEF AmountsOf, some
<1>11. \A i, j \in DOMAIN k : at[i] = at[j] => i = j
  BY <1>5, <1>6, NumbersOnce
<1>12. Distinct(k)
  BY <1>9, <1>11 DEF Distinct, some
<1>13. \A i \in DOMAIN k : k[i].amount > 0
  BY <1>9 DEF some
<1> QED
  BY <1>3, <1>4, <1>7, <1>8, <1>10, <1>12, <1>13 DEF Whole, f

\* What allocate answers, when it does: nothing and the request for approval, or shares of
\* different contracts that add up to the amount.
AllocatesAll(answer, amount, C) ==
  /\ answer.requires_approval \in BOOLEAN
  /\ answer.allocations \in Seq(ShareOf(C))
  /\ Distinct(answer.allocations)
  /\ answer.requires_approval => answer.allocations = <<>>
  /\ ~answer.requires_approval => /\ answer.allocations # <<>>
                                  /\ Whole(answer.allocations) = amount

\* The refusal.
LEMMA RefusalAllocatesAll ==
  ASSUME NEW C, NEW amount
  PROVE  AllocatesAll(NeedsApproval, amount, C)
BY DEF AllocatesAll, NeedsApproval, Distinct

\* The whole amount to one contract.
LEMMA SingleAllocatesAll ==
  ASSUME NEW C, NEW c \in C, NEW amount \in Nat
  PROVE  AllocatesAll(Single(c, amount), amount, C)
<1> DEFINE share == [contract |-> c, amount |-> amount]
           list == <<share>>
<1>1. share \in ShareOf(C) /\ share.amount = amount
  BY DEF ShareOf
<1>2. list \in Seq(ShareOf(C)) /\ DOMAIN list = {1} /\ list # <<>> /\ list[1] = share
  BY <1>1
<1> HIDE DEF list, share
<1>3. AmountsOf(list)[1] = amount
  BY <1>1, <1>2 DEF AmountsOf
<1>4. Whole(list) = amount
  <2>1. AmountsOf(list)[1] \in Int
    BY <1>3
  <2>2. SumOver(AmountsOf(list), {1}) = AmountsOf(list)[1]
    BY <2>1, SumOfOne
  <2> QED
    BY <2>2, <1>2, <1>3 DEF Whole
<1>5. Distinct(list)
  BY <1>2 DEF Distinct
<1>6. Single(c, amount) = [allocations |-> list, requires_approval |-> FALSE]
  BY DEF Single, Allocated, list, share
<1> QED
  BY <1>2, <1>4, <1>5, <1>6 DEF AllocatesAll

\* The shares that the turns give.
LEMMA TurnsAllocateAll ==
  ASSUME NEW C, NEW list \in Seq(C), \A i, j \in DOMAIN list : list[i] = list[j] => i = j,
         NEW daily \in [C -> Nat], NEW amount \in Nat \ {0},
         TurnsEnd(amount, list, daily)
  PROVE  AllocatesAll(InTurnsOrApproval(amount, list, daily), amount, C)
<1> DEFINE units == UnitsFor(amount, list, daily)
           share == [i \in DOMAIN list |->
                       [contract |-> list[i], amount |-> units[i] * daily[list[i]]]]
<1>1. units \in [DOMAIN list -> 0..amount]
  BY DEF UnitsFor, TurnsEnd
<1>2. InTurnsOrApproval(amount, list, daily) =
        IF MapThenSumSet(LAMBDA i : share[i].amount, DOMAIN list) = amount
        THEN Allocated(NotEmpty(share)) ELSE NeedsApproval
  BY DEF InTurnsOrApproval
<1> HIDE DEF units
<1>3. /\ DOMAIN list = 1..Len(list) /\ Len(list) \in Nat
      /\ \A i \in DOMAIN list : list[i] \in C
  OBVIOUS
<1>4. \A i \in DOMAIN list : units[i] * daily[list[i]] \in Nat
  <2> SUFFICES ASSUME NEW i \in DOMAIN list PROVE units[i] * daily[list[i]] \in Nat
    OBVIOUS
  <2>1. units[i] \in Nat /\ daily[list[i]] \in Nat
    BY <1>1, <1>3
  <2>2. \A x, y \in Nat : x * y \in Nat
    OBVIOUS
  <2> QED
    BY <2>1, <2>2
<1>5. share \in [1..Len(list) -> ShareOf(C)]
  BY <1>3, <1>4 DEF ShareOf
<1>6. share \in Seq(ShareOf(C)) /\ DOMAIN share = DOMAIN list
  <2> HIDE DEF share
  <2> QED
    BY <1>3, <1>5
<1>7. Distinct(share)
  BY DEF Distinct
<1> HIDE DEF share
<1>8. MapThenSumSet(LAMBDA i : share[i].amount, DOMAIN list) = Whole(share)
  <2>1. IsFiniteSet(DOMAIN list)
    BY <1>3, FS_Interval
  <2>2. MapThenSumSet(LAMBDA i : share[i].amount, DOMAIN list)
          = SumOver([i \in DOMAIN list |-> share[i].amount], DOMAIN list)
    BY SumOfField
  <2> QED
    BY <2>2, <1>6 DEF Whole, AmountsOf
<1>9. /\ NotEmpty(share) \in Seq(ShareOf(C)) /\ Distinct(NotEmpty(share))
      /\ Whole(NotEmpty(share)) = Whole(share)
  BY <1>6, <1>7, NotEmptyIsWhole
<1>10. NotEmpty(share) = <<>> => Whole(NotEmpty(share)) = 0
  BY SumOfNone DEF Whole
<1>11. CASE Whole(share) = amount
  <2>1. InTurnsOrApproval(amount, list, daily)
          = [allocations |-> NotEmpty(share), requires_approval |-> FALSE]
    BY <1>2, <1>8, <1>11 DEF Allocated
  <2> QED
    BY <2>1, <1>9, <1>10, <1>11 DEF AllocatesAll
<1>12. CASE Whole(share) # amount
  BY <1>2, <1>8, <1>12, RefusalAllocatesAll
<1> QED
  BY <1>11, <1>12

\* allocate hands out all of an amount, or nothing.
LEMMA AllocateOverAllocatesAll ==
  ASSUME NEW C, NEW list \in Seq(C), \A i, j \in DOMAIN list : list[i] = list[j] => i = j,
         NEW daily \in [C -> Nat], NEW amount \in Nat \ {0},
         AllocationEnds(amount, list, daily)
  PROVE  AllocatesAll(AllocateOver(amount, list, daily), amount, C)
<1>1. CASE list = <<>>
  BY <1>1, RefusalAllocatesAll DEF AllocateOver
<1>2. CASE list # <<>> /\ Len(list) = 1
  <2>1. list[1] \in C
    BY <1>2
  <2> QED
    BY <2>1, <1>2, SingleAllocatesAll DEF AllocateOver
<1>3. CASE list # <<>> /\ Len(list) # 1
  <2>1. TurnsEnd(amount, list, daily)
    <3>1. Len(list) \in Nat /\ (Len(list) = 0 => list = <<>>)
      OBVIOUS
    <3>2. Len(list) # 0 /\ Len(list) # 1
      BY <3>1, <1>3
    <3>3. \A n \in Nat : n # 0 /\ n # 1 => n > 1
      OBVIOUS
    <3>4. Len(list) > 1
      BY <3>1, <3>2, <3>3
    <3> QED
      BY <3>4 DEF AllocationEnds
  <2>2. AllocatesAll(InTurnsOrApproval(amount, list, daily), amount, C)
    BY <2>1, TurnsAllocateAll
  <2> QED
    BY <2>2, <1>3 DEF AllocateOver
<1> QED
  BY <1>1, <1>2, <1>3

================================================================================

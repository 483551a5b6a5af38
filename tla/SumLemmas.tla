------------------------------ MODULE SumLemmas ------------------------------
(***************************************************************************)
(* What SumFunctionOnSet computes over a finite set: the lemmas the proofs *)
(* about sums over claims and keys need.  The sum is defined by recursion  *)
(* over subsets; the lemmas here argue by a smallest counterexample, which *)
(* exists since strict inclusion is well-founded on finite sets.           *)
(***************************************************************************)
EXTENDS Functions, Integers, FiniteSetTheorems, WellFoundedInduction, TLAPS

(* A family of bad subsets of a finite set, if it has a member, has one    *)
(* none of whose proper subsets is bad.                                    *)
LEMMA SmallestBad ==
  ASSUME NEW S, IsFiniteSet(S), NEW Bad \in SUBSET (SUBSET S), Bad # {}
  PROVE  \E T \in Bad : \A U \in SUBSET T : U # T => U \notin Bad
<1>1. IsWellFoundedOn(StrictSubsetOrdering(S), SUBSET S)
  BY FS_StrictSubsetOrderingWellFounded, FS_FiniteSubsetsOfFinite
<1>2. PICK T \in Bad : \A U \in Bad : <<U, T>> \notin StrictSubsetOrdering(S)
  BY <1>1, WFMin
<1>3. ASSUME NEW U \in SUBSET T, U # T PROVE U \notin Bad
  <2>1. <<U, T>> \in StrictSubsetOrdering(S)
    BY <1>3 DEF StrictSubsetOrdering
  <2>. QED
    BY <1>2, <2>1
<1>. QED
  BY <1>3

-----------------------------------------------------------------------------
(* The recursive function behind the sum exists and is unique.             *)

Picked(T) == CHOOSE x \in T : TRUE

IsSum(g, f, S) ==
  g = [T \in SUBSET S |-> IF T = {} THEN 0 ELSE f[Picked(T)] + g[T \ {Picked(T)}]]

(* The element the sum takes first is one of the set.                      *)
LEMMA PickedIsIn == \A T : T # {} => Picked(T) \in T
BY DEF Picked

(* The sum is the value at S of a function that satisfies the recursion.   *)
LEMMA SumIsRecursive ==
  ASSUME NEW f, NEW S
  PROVE  SumFunctionOnSet(f, S) = (CHOOSE g : IsSum(g, f, S))[S]
BY DEF SumFunctionOnSet, FoldFunctionOnSet, MapThenFoldSet, IsSum, Picked

(* The recursion, at one subset.                                           *)
LEMMA IsSumUnfold ==
  ASSUME NEW g, NEW f, NEW S, IsSum(g, f, S), NEW T \in SUBSET S
  PROVE  g[T] = IF T = {} THEN 0 ELSE f[Picked(T)] + g[T \ {Picked(T)}]
BY DEF IsSum

(* Two functions that satisfy the recursion, for two sets, agree on the    *)
(* subsets the sets share.                                                 *)
LEMMA IsSumUnique ==
  ASSUME NEW f, NEW S, NEW T, IsFiniteSet(S), NEW g, NEW h, IsSum(g, f, S), IsSum(h, f, T)
  PROVE  \A U \in SUBSET (S \cap T) : g[U] = h[U]
<1> DEFINE Bad == {U \in SUBSET (S \cap T) : g[U] # h[U]}
<1> SUFFICES ASSUME Bad # {} PROVE FALSE
  OBVIOUS
<1>1. IsFiniteSet(S \cap T)
  BY FS_Subset, S \cap T \in SUBSET S
<1>2. Bad \in SUBSET SUBSET (S \cap T)
  OBVIOUS
<1>3. PICK U \in Bad : \A V \in SUBSET U : V # U => V \notin Bad
  <2> HIDE DEF Bad
  <2>. QED BY <1>1, <1>2, SmallestBad
<1>4. U \in SUBSET S /\ U \in SUBSET T /\ g[U] # h[U]
  BY <1>3
<1>5. /\ g[U] = IF U = {} THEN 0 ELSE f[Picked(U)] + g[U \ {Picked(U)}]
      /\ h[U] = IF U = {} THEN 0 ELSE f[Picked(U)] + h[U \ {Picked(U)}]
  BY <1>4, IsSumUnfold
<1>6. CASE U = {}
  BY <1>4, <1>5, <1>6
<1>7. CASE U # {}
  <2> DEFINE V == U \ {Picked(U)}
  <2>1. V \in SUBSET U /\ V # U
    BY <1>7, PickedIsIn
  <2>2. V \notin Bad
    BY <1>3, <2>1
  <2>3. g[V] = h[V]
    BY <1>4, <2>1, <2>2
  <2>. QED
    BY <1>4, <1>5, <1>7, <2>3
<1>. QED
  BY <1>6, <1>7

(* Some function satisfies the recursion: it is built from those of the    *)
(* smaller subsets.                                                        *)
LEMMA IsSumExists ==
  ASSUME NEW f, NEW S, IsFiniteSet(S)
  PROVE  \E g : IsSum(g, f, S)
<1> DEFINE Bad == {T \in SUBSET S : ~ \E g : IsSum(g, f, T)}
<1> SUFFICES ASSUME Bad # {} PROVE FALSE
  OBVIOUS
<1>1. PICK T \in Bad : \A U \in SUBSET T : U # T => U \notin Bad
  <2>1. Bad \in SUBSET SUBSET S
    OBVIOUS
  <2> HIDE DEF Bad
  <2>. QED BY <2>1, SmallestBad
<1> DEFINE Of(U) == CHOOSE g : IsSum(g, f, U)
           Sum(U) == Of(U)[U]
           h == [U \in SUBSET T |-> IF U = {} THEN 0 ELSE f[Picked(U)] + Sum(U \ {Picked(U)})]
<1>2. \A U \in SUBSET T : U # T => IsSum(Of(U), f, U)
  BY <1>1
<1>3. \A U \in SUBSET T : IsFiniteSet(U)
  BY <1>1, FS_Subset
<1>4. ASSUME NEW U \in SUBSET T, U # T PROVE Sum(U) = h[U]
  <2>1. Sum(U) = IF U = {} THEN 0 ELSE f[Picked(U)] + Of(U)[U \ {Picked(U)}]
    <3>1. IsSum(Of(U), f, U)
      BY <1>2, <1>4
    <3> HIDE DEF Of
    <3>. QED BY <3>1, IsSumUnfold
  <2>2. CASE U = {}
    BY <2>1, <2>2
  <2>3. CASE U # {}
    <3> DEFINE V == U \ {Picked(U)}
    <3>1. V \in SUBSET U /\ V \in SUBSET T /\ V # T /\ V \in SUBSET (U \cap V)
      BY <1>4, <2>3, PickedIsIn
    <3>2. IsSum(Of(U), f, U) /\ IsSum(Of(V), f, V)
      BY <1>2, <1>4, <3>1
    <3>3. Of(U)[V] = Of(V)[V]
      <4>1. IsFiniteSet(U)
        BY <1>3
      <4> HIDE DEF Of, V
      <4>. QED BY <3>1, <3>2, <4>1, IsSumUnique
    <3>. QED
      BY <2>1, <2>3, <3>3
  <2>. QED
    BY <2>2, <2>3
<1>5. IsSum(h, f, T)
  <2>1. \A U \in SUBSET T : U # {} => U \ {Picked(U)} \in SUBSET T /\ U \ {Picked(U)} # T
    BY PickedIsIn
  <2>2. \A U \in SUBSET T : U # {} => Sum(U \ {Picked(U)}) = h[U \ {Picked(U)}]
    <3> HIDE DEF Sum, h
    <3>. QED BY <1>4, <2>1
  <2>3. h = [U \in SUBSET T |-> IF U = {} THEN 0 ELSE f[Picked(U)] + h[U \ {Picked(U)}]]
    <3> HIDE DEF Sum
    <3>. QED BY <2>2
  <2>. QED
    BY <2>3 DEF IsSum
<1>. QED
  BY <1>1, <1>5

-----------------------------------------------------------------------------
(* The sum of nothing, and the sum of a set by one of its elements.        *)

LEMMA SumUnfold ==
  ASSUME NEW f, NEW S, IsFiniteSet(S)
  PROVE  SumFunctionOnSet(f, S) =
           IF S = {} THEN 0
           ELSE f[Picked(S)] + SumFunctionOnSet(f, S \ {Picked(S)})
<1> DEFINE Of(U) == CHOOSE g : IsSum(g, f, U)
           V == S \ {Picked(S)}
<1>1. IsFiniteSet(V)
  BY FS_Subset
<1>2. IsSum(Of(S), f, S) /\ IsSum(Of(V), f, V)
  BY <1>1, IsSumExists
<1>3. SumFunctionOnSet(f, S) = Of(S)[S] /\ SumFunctionOnSet(f, V) = Of(V)[V]
  BY SumIsRecursive
<1> HIDE DEF Of
<1>4. Of(S)[S] = IF S = {} THEN 0 ELSE f[Picked(S)] + Of(S)[V]
  BY <1>2, IsSumUnfold
<1>5. Of(S)[V] = Of(V)[V]
  BY <1>2, IsSumUnique, V \in SUBSET (S \cap V)
<1>. QED
  BY <1>3, <1>4, <1>5

(* Nothing sums to zero.                                                   *)
LEMMA SumEmpty == \A f : SumFunctionOnSet(f, {}) = 0
BY SumUnfold, FS_EmptySet

(* A sum of integers is an integer.                                        *)
LEMMA SumInt ==
  ASSUME NEW S, IsFiniteSet(S), NEW f, \A x \in S : f[x] \in Int
  PROVE  SumFunctionOnSet(f, S) \in Int
<1> DEFINE Bad == {T \in SUBSET S : SumFunctionOnSet(f, T) \notin Int}
<1> SUFFICES ASSUME Bad # {} PROVE FALSE
  BY S \in SUBSET S
<1>1. PICK T \in Bad : \A U \in SUBSET T : U # T => U \notin Bad
  <2>1. Bad \in SUBSET SUBSET S
    OBVIOUS
  <2> HIDE DEF Bad
  <2>. QED BY <2>1, SmallestBad
<1>2. CASE T = {}
  BY <1>1, <1>2, SumEmpty
<1>3. CASE T # {}
  <2> DEFINE U == T \ {Picked(T)}
  <2>1. Picked(T) \in S /\ U \in SUBSET T /\ U # T
    BY <1>1, <1>3, PickedIsIn
  <2>2. SumFunctionOnSet(f, U) \in Int
    BY <1>1, <2>1
  <2>3. SumFunctionOnSet(f, T) = f[Picked(T)] + SumFunctionOnSet(f, U)
    BY <1>1, <1>3, SumUnfold, FS_Subset
  <2>. QED
    BY <1>1, <2>1, <2>2, <2>3
<1>. QED
  BY <1>2, <1>3

(* Any element can be taken out of the sum first, not only the one CHOOSE  *)
(* picks.                                                                  *)
LEMMA SumElement ==
  ASSUME NEW S, IsFiniteSet(S), NEW f, \A x \in S : f[x] \in Int, NEW y \in S
  PROVE  SumFunctionOnSet(f, S) = f[y] + SumFunctionOnSet(f, S \ {y})
<1> DEFINE Sum(T) == SumFunctionOnSet(f, T)
           Bad == {T \in SUBSET S : \E z \in T : Sum(T) # f[z] + Sum(T \ {z})}
<1> SUFFICES ASSUME Bad # {} PROVE FALSE
  BY S \in SUBSET S
<1>1. PICK T \in Bad : \A U \in SUBSET T : U # T => U \notin Bad
  <2>1. Bad \in SUBSET SUBSET S
    OBVIOUS
  <2> HIDE DEF Bad
  <2>. QED BY <2>1, SmallestBad
<1>2. PICK z \in T : Sum(T) # f[z] + Sum(T \ {z})
  BY <1>1
<1> DEFINE x == Picked(T)
<1>3. x \in T
  BY <1>2, PickedIsIn
<1>4. \A U \in SUBSET S : IsFiniteSet(U) /\ Sum(U) \in Int
  BY FS_Subset, SumInt
<1>5. Sum(T) = f[x] + Sum(T \ {x})
  BY <1>1, <1>2, <1>4, SumUnfold
<1> HIDE DEF x
<1>6. z # x
  BY <1>2, <1>5
<1>7. Sum(T \ {x}) = f[z] + Sum((T \ {x}) \ {z})
  <2>1. T \ {x} \notin Bad
    BY <1>1, <1>3
  <2>. QED BY <1>1, <1>2, <1>6, <2>1
<1>8. Sum(T \ {z}) = f[x] + Sum((T \ {z}) \ {x})
  <2>1. T \ {z} \notin Bad
    BY <1>1, <1>2
  <2>. QED BY <1>1, <1>3, <1>6, <2>1
<1>9. (T \ {x}) \ {z} = (T \ {z}) \ {x}
  OBVIOUS
<1>10. /\ f[x] \in Int /\ f[z] \in Int
       /\ Sum((T \ {z}) \ {x}) \in Int
  BY <1>1, <1>2, <1>3, <1>4
<1>11. f[x] + (f[z] + Sum((T \ {z}) \ {x})) = f[z] + (f[x] + Sum((T \ {z}) \ {x}))
  <2> HIDE DEF Sum
  <2>. QED BY <1>10
<1>12. Sum(T) = f[z] + Sum(T \ {z})
  BY <1>5, <1>7, <1>8, <1>9, <1>11, Zenon
<1>. QED
  BY <1>2, <1>12

(* Functions that agree on a set have the same sum over it.                *)
LEMMA SumSame ==
  ASSUME NEW S, IsFiniteSet(S), NEW f, NEW g, \A x \in S : f[x] = g[x]
  PROVE  SumFunctionOnSet(f, S) = SumFunctionOnSet(g, S)
<1> DEFINE Bad == {T \in SUBSET S : SumFunctionOnSet(f, T) # SumFunctionOnSet(g, T)}
<1> SUFFICES ASSUME Bad # {} PROVE FALSE
  BY S \in SUBSET S
<1>1. PICK T \in Bad : \A U \in SUBSET T : U # T => U \notin Bad
  <2>1. Bad \in SUBSET SUBSET S
    OBVIOUS
  <2> HIDE DEF Bad
  <2>. QED BY <2>1, SmallestBad
<1>2. CASE T = {}
  BY <1>1, <1>2, SumEmpty
<1>3. CASE T # {}
  <2> DEFINE U == T \ {Picked(T)}
  <2>1. Picked(T) \in S /\ U \in SUBSET T /\ U # T
    BY <1>1, <1>3, PickedIsIn
  <2>2. SumFunctionOnSet(f, U) = SumFunctionOnSet(g, U)
    BY <1>1, <2>1
  <2>3. /\ SumFunctionOnSet(f, T) = f[Picked(T)] + SumFunctionOnSet(f, U)
        /\ SumFunctionOnSet(g, T) = g[Picked(T)] + SumFunctionOnSet(g, U)
    BY <1>1, <1>3, SumUnfold, FS_Subset
  <2>. QED
    BY <1>1, <2>1, <2>2, <2>3
<1>. QED
  BY <1>2, <1>3

(* Changing one summand changes the sum by the difference.                 *)
LEMMA SumChange ==
  ASSUME NEW S, IsFiniteSet(S), NEW f, NEW g, NEW y \in S,
         \A x \in S : f[x] \in Int /\ g[x] \in Int,
         \A x \in S : x # y => g[x] = f[x]
  PROVE  SumFunctionOnSet(g, S) = SumFunctionOnSet(f, S) - f[y] + g[y]
<1>1. IsFiniteSet(S \ {y})
  BY FS_Subset
<1>2. SumFunctionOnSet(f, S \ {y}) = SumFunctionOnSet(g, S \ {y})
  BY <1>1, SumSame
<1>3. SumFunctionOnSet(f, S \ {y}) \in Int
  BY <1>1, SumInt
<1>4. /\ SumFunctionOnSet(f, S) = f[y] + SumFunctionOnSet(f, S \ {y})
      /\ SumFunctionOnSet(g, S) = g[y] + SumFunctionOnSet(g, S \ {y})
  BY SumElement
<1>. QED
  BY <1>2, <1>3, <1>4

(* Zeros sum to zero.                                                      *)
LEMMA SumZero ==
  ASSUME NEW S, IsFiniteSet(S), NEW f, \A x \in S : f[x] = 0
  PROVE  SumFunctionOnSet(f, S) = 0
<1> DEFINE Bad == {T \in SUBSET S : SumFunctionOnSet(f, T) # 0}
<1> SUFFICES ASSUME Bad # {} PROVE FALSE
  BY S \in SUBSET S
<1>1. PICK T \in Bad : \A U \in SUBSET T : U # T => U \notin Bad
  <2>1. Bad \in SUBSET SUBSET S
    OBVIOUS
  <2> HIDE DEF Bad
  <2>. QED BY <2>1, SmallestBad
<1>2. T # {}
  BY <1>1, SumEmpty
<1> DEFINE U == T \ {Picked(T)}
<1>3. Picked(T) \in S /\ U \in SUBSET T /\ U # T
  BY <1>1, <1>2, PickedIsIn
<1>4. SumFunctionOnSet(f, T) = f[Picked(T)] + SumFunctionOnSet(f, U)
  BY <1>1, <1>2, SumUnfold, FS_Subset
<1>. QED
  BY <1>1, <1>3, <1>4

(* The sum over a set is that over a part of it and that over the rest.    *)
LEMMA SumSplit ==
  ASSUME NEW S, IsFiniteSet(S), NEW f, \A x \in S : f[x] \in Int, NEW T \in SUBSET S
  PROVE  SumFunctionOnSet(f, S) = SumFunctionOnSet(f, T) + SumFunctionOnSet(f, S \ T)
<1> DEFINE Sum(U) == SumFunctionOnSet(f, U)
           Rest == S \ T
           Bad == {U \in SUBSET T : Sum(Rest \cup U) # Sum(U) + Sum(Rest)}
<1>1. \A U \in SUBSET S : IsFiniteSet(U) /\ Sum(U) \in Int
  BY FS_Subset, SumInt
<1>2. Bad = {}
  <2>1. SUFFICES ASSUME Bad # {} PROVE FALSE
    OBVIOUS
  <2>2. PICK U \in Bad : \A V \in SUBSET U : V # U => V \notin Bad
    <3>1. Bad \in SUBSET SUBSET T /\ IsFiniteSet(T)
      BY <1>1
    <3> HIDE DEF Bad
    <3>. QED BY <2>1, <3>1, SmallestBad
  <2>3. U # {}
    <3>1. Rest \cup {} = Rest /\ Sum({}) = 0 /\ Sum(Rest) \in Int
      BY <1>1, SumEmpty
    <3>2. Sum(Rest \cup {}) = Sum({}) + Sum(Rest)
      <4> HIDE DEF Sum
      <4>. QED BY <3>1
    <3>. QED BY <2>2, <3>2
  <2>4. PICK y \in U : TRUE
    BY <2>3
  <2>5. U \ {y} \notin Bad /\ U \ {y} \in SUBSET T
    BY <2>2
  <2>6. Sum(Rest \cup (U \ {y})) = Sum(U \ {y}) + Sum(Rest)
    BY <2>5
  <2>7. /\ Rest \cup U \in SUBSET S /\ U \in SUBSET S /\ U \ {y} \in SUBSET S /\ Rest \in SUBSET S
        /\ y \in Rest \cup U /\ y \in S /\ (Rest \cup U) \ {y} = Rest \cup (U \ {y})
    BY <2>2
  <2>8. Sum(Rest \cup U) = f[y] + Sum((Rest \cup U) \ {y})
    BY <1>1, <2>7, SumElement
  <2>9. Sum(U) = f[y] + Sum(U \ {y})
    BY <1>1, <2>7, SumElement
  <2>10. f[y] \in Int /\ Sum(U \ {y}) \in Int /\ Sum(Rest) \in Int
    BY <1>1, <2>7
  <2>11. f[y] + (Sum(U \ {y}) + Sum(Rest)) = (f[y] + Sum(U \ {y})) + Sum(Rest)
    <3> HIDE DEF Sum, Rest
    <3>. QED BY <2>10
  <2>12. Sum(Rest \cup U) = Sum(U) + Sum(Rest)
    BY <2>6, <2>7, <2>8, <2>9, <2>11, Zenon
  <2>. QED
    BY <2>2, <2>12
<1>3. Rest \cup T = S /\ T \in SUBSET T
  OBVIOUS
<1>4. Sum(Rest \cup T) = Sum(T) + Sum(Rest)
  BY <1>2, <1>3
<1>. QED
  BY <1>3, <1>4

(* The values of a function on a finite set are finitely many.             *)
LEMMA FiniteImage ==
  ASSUME NEW S, IsFiniteSet(S), NEW f
  PROVE  IsFiniteSet({f[x] : x \in S})
<1> DEFINE T == {f[x] : x \in S}
           g == [x \in S |-> f[x]]
<1>1. g \in Surjection(S, T)
  BY DEF Surjection
<1>. QED
  BY <1>1, FS_Surjection
=============================================================================

-------------------------------- MODULE Sums_proofs --------------------------------
(***************************************************************************)
(* Facts about SumFunctionOnSet for finite sets of any size: what it is    *)
(* defined by, its type, one element more or less, and monotonicity.  Each *)
(* is proved by well-founded minimum: of the subsets that refute it, take  *)
(* one that contains no other.                                             *)
(***************************************************************************)
EXTENDS Integers, Functions, FiniteSetTheorems, TLAPS

\* The element a sum is split at.
Pick(s) == CHOOSE x \in s : TRUE

\* g computes the sums of fun over the subsets of S.
IsSum(fun, S, g) ==
  g = [s \in SUBSET S |-> IF s = {} THEN 0 ELSE fun[Pick(s)] + g[s \ {Pick(s)}]]

\* The definition of a sum, unfolded.
LEMMA SumDef ==
  ASSUME NEW fun, NEW S
  PROVE  SumFunctionOnSet(fun, S) = (CHOOSE g : IsSum(fun, S, g))[S]
BY DEF SumFunctionOnSet, FoldFunctionOnSet, MapThenFoldSet, IsSum, Pick

\* An element of a set that has one.
LEMMA PickIn == \A s : s # {} => Pick(s) \in s
BY DEF Pick

\* Of some subsets of a finite set, one contains no other of them.
LEMMA SmallestSubset ==
  ASSUME NEW S, IsFiniteSet(S), NEW T, T \subseteq SUBSET S, T # {}
  PROVE  \E s \in T : \A t \in T : t \subseteq s => t = s
<1>1. IsWellFoundedOn(StrictSubsetOrdering(S), FiniteSubsetsOf(S))
  BY FS_StrictSubsetOrderingWellFounded
<1>2. T \subseteq FiniteSubsetsOf(S)
  BY FS_Subset DEF FiniteSubsetsOf
<1>3. PICK s \in T : \A t \in T : <<t, s>> \notin StrictSubsetOrdering(S)
  BY <1>1, <1>2, WFMin
<1>4. ASSUME NEW t \in T, t \subseteq s PROVE t = s
  BY <1>3, <1>4 DEF StrictSubsetOrdering
<1> QED
  BY <1>4

\* A function that computes sums, at a set and at its subsets.
LEMMA IsSumAt ==
  ASSUME NEW fun, NEW S, NEW g, IsSum(fun, S, g), NEW s, s \subseteq S
  PROVE  /\ s = {} => g[s] = 0
         /\ s # {} => g[s] = fun[Pick(s)] + g[s \ {Pick(s)}]
BY DEF IsSum

\* At most one function computes the sums of a finite set.
LEMMA SumUnique ==
  ASSUME NEW fun, NEW S, IsFiniteSet(S), NEW S1, S \subseteq S1, NEW g, IsSum(fun, S1, g),
         NEW S2, S \subseteq S2, NEW h, IsSum(fun, S2, h)
  PROVE  g[S] = h[S]
<1> DEFINE T == {s \in SUBSET S : g[s] # h[s]}
<1> SUFFICES ASSUME T # {} PROVE FALSE
  OBVIOUS
<1>1. PICK s \in T : \A t \in T : t \subseteq s => t = s
  <2>1. T \subseteq SUBSET S
    OBVIOUS
  <2> HIDE DEF T
  <2> QED
    BY <2>1, SmallestSubset
<1>2. s \subseteq S1 /\ s \subseteq S2 /\ g[s] # h[s]
  OBVIOUS
<1>3. s # {}
  BY <1>2, IsSumAt
<1>4. /\ g[s] = fun[Pick(s)] + g[s \ {Pick(s)}]
      /\ h[s] = fun[Pick(s)] + h[s \ {Pick(s)}]
  BY <1>2, <1>3, IsSumAt
<1>5. Pick(s) \in s
  BY <1>3, PickIn
<1>6. g[s \ {Pick(s)}] = h[s \ {Pick(s)}]
  BY <1>1, <1>5
<1> QED
  BY <1>2, <1>4, <1>6

\* The value the library's operator chooses.
SumOver(fun, S) == (CHOOSE g : IsSum(fun, S, g))[S]

\* Where the sums over the smaller subsets exist, those over the set do.
LEMMA SumExists == ASSUME NEW fun, NEW S, IsFiniteSet(S) PROVE \E g : IsSum(fun, S, g)
<1> DEFINE T == {s \in SUBSET S : ~ \E g : IsSum(fun, s, g)}
<1> SUFFICES ASSUME T # {} PROVE FALSE
  OBVIOUS
<1>1. PICK s \in T : \A t \in T : t \subseteq s => t = s
  <2>1. T \subseteq SUBSET S
    OBVIOUS
  <2> HIDE DEF T
  <2> QED
    BY <2>1, SmallestSubset
<1>2. ASSUME NEW t, t \subseteq s, t # s
      PROVE  /\ IsSum(fun, t, CHOOSE g : IsSum(fun, t, g))
             /\ IsFiniteSet(t)
  <2>1. \E g : IsSum(fun, t, g)
    BY <1>1, <1>2
  <2>2. IsFiniteSet(t)
    BY <1>2, FS_Subset
  <2> QED
    BY <2>1, <2>2
<1>3. ASSUME NEW t, t \subseteq s, t # s, t # {}
      PROVE  SumOver(fun, t) = fun[Pick(t)] + SumOver(fun, t \ {Pick(t)})
  <2> DEFINE g == CHOOSE g : IsSum(fun, t, g)
             u == t \ {Pick(t)}
             h == CHOOSE h : IsSum(fun, u, h)
  <2>1. u \subseteq t /\ u # s
    BY <1>3, PickIn
  <2>2. IsSum(fun, t, g) /\ IsSum(fun, u, h) /\ IsFiniteSet(u)
    BY <1>2, <1>3, <2>1
  <2> HIDE DEF g, h
  <2>3. g[t] = fun[Pick(t)] + g[u]
    BY <1>3, <2>2, IsSumAt
  <2>4. g[u] = h[u]
    BY <2>1, <2>2, SumUnique
  <2> QED
    BY <2>3, <2>4 DEF SumOver, g, h
<1>4. ASSUME s # {} \/ {} # s PROVE SumOver(fun, {}) = 0
  <2> DEFINE g == CHOOSE g : IsSum(fun, {}, g)
  <2>1. IsSum(fun, {}, g)
    BY <1>2, <1>4
  <2> HIDE DEF g
  <2>2. g[{}] = 0
    BY <2>1, IsSumAt
  <2> QED
    BY <2>2 DEF SumOver, g
<1>5. s # {}
  <2> SUFFICES ASSUME s = {} PROVE FALSE
    OBVIOUS
  <2> DEFINE g == [t \in SUBSET {} |-> 0]
  <2>1. IsSum(fun, {}, g)
    BY DEF IsSum
  <2> QED
    BY <1>1, <2>1
<1> DEFINE top == fun[Pick(s)] + SumOver(fun, s \ {Pick(s)})
           g == [t \in SUBSET s |-> IF t = s THEN top ELSE SumOver(fun, t)]
<1>6. ASSUME NEW t \in SUBSET s
      PROVE  g[t] = IF t = {} THEN 0 ELSE fun[Pick(t)] + g[t \ {Pick(t)}]
  <2>1. CASE t = {}
    BY <1>4, <1>5, <2>1
  <2>2. CASE t # {}
    <3>1. Pick(t) \in t
      BY <2>2, PickIn
    <3>2. t \ {Pick(t)} \in SUBSET s /\ t \ {Pick(t)} # s
      BY <3>1
    <3>3. g[t \ {Pick(t)}] = SumOver(fun, t \ {Pick(t)})
      BY <3>2
    <3>4. g[t] = fun[Pick(t)] + SumOver(fun, t \ {Pick(t)})
      BY <1>3, <2>2
    <3> QED
      BY <2>2, <3>3, <3>4
  <2> QED
    BY <2>1, <2>2
<1>7. IsSum(fun, s, g)
  BY <1>6 DEF IsSum
<1> QED
  BY <1>1, <1>7

\* The sum over no element, and over some, is what its definition says.
LEMMA SumUnfold ==
  ASSUME NEW fun, NEW S, IsFiniteSet(S)
  PROVE  SumFunctionOnSet(fun, S) =
           IF S = {} THEN 0 ELSE fun[Pick(S)] + SumFunctionOnSet(fun, S \ {Pick(S)})
<1> DEFINE g == CHOOSE g : IsSum(fun, S, g)
           u == S \ {Pick(S)}
           h == CHOOSE h : IsSum(fun, u, h)
<1>1. IsFiniteSet(u) /\ u \subseteq S
  BY FS_Subset
<1>2. IsSum(fun, S, g) /\ IsSum(fun, u, h)
  BY <1>1, SumExists
<1>3. SumFunctionOnSet(fun, S) = g[S] /\ SumFunctionOnSet(fun, u) = h[u]
  BY SumDef
<1> HIDE DEF g, h
<1>4. g[S] = IF S = {} THEN 0 ELSE fun[Pick(S)] + g[u]
  BY <1>2, IsSumAt
<1>5. g[u] = h[u]
  BY <1>1, <1>2, SumUnique
<1> QED
  BY <1>3, <1>4, <1>5

\* The sum over no element.
LEMMA SumEmpty == \A fun : SumFunctionOnSet(fun, {}) = 0
BY SumUnfold, FS_EmptySet

\* A sum of integers is an integer.
LEMMA SumInt ==
  ASSUME NEW fun, NEW S, IsFiniteSet(S), \A x \in S : fun[x] \in Int
  PROVE  SumFunctionOnSet(fun, S) \in Int
<1> DEFINE T == {s \in SUBSET S : SumFunctionOnSet(fun, s) \notin Int}
<1> SUFFICES ASSUME T # {} PROVE FALSE
  OBVIOUS
<1>1. PICK s \in T : \A t \in T : t \subseteq s => t = s
  <2>1. T \subseteq SUBSET S
    OBVIOUS
  <2> HIDE DEF T
  <2> QED
    BY <2>1, SmallestSubset
<1>2. IsFiniteSet(s)
  BY FS_Subset
<1>3. SumFunctionOnSet(fun, s) =
        IF s = {} THEN 0 ELSE fun[Pick(s)] + SumFunctionOnSet(fun, s \ {Pick(s)})
  BY <1>2, SumUnfold
<1>4. s # {} /\ Pick(s) \in s
  BY <1>1, <1>3, PickIn
<1>5. SumFunctionOnSet(fun, s \ {Pick(s)}) \in Int
  BY <1>1, <1>4
<1> QED
  BY <1>1, <1>3, <1>4, <1>5

\* Any element can be taken out of a sum.
LEMMA SumRemove ==
  ASSUME NEW fun, NEW S, IsFiniteSet(S), \A x \in S : fun[x] \in Int, NEW x \in S
  PROVE  SumFunctionOnSet(fun, S) = fun[x] + SumFunctionOnSet(fun, S \ {x})
<1> DEFINE sum(s) == SumFunctionOnSet(fun, s)
           T == {s \in SUBSET S : \E y \in s : sum(s) # fun[y] + sum(s \ {y})}
<1> SUFFICES ASSUME T # {} PROVE FALSE
  OBVIOUS
<1>1. PICK s \in T : \A t \in T : t \subseteq s => t = s
  <2>1. T \subseteq SUBSET S
    OBVIOUS
  <2> HIDE DEF T
  <2> QED
    BY <2>1, SmallestSubset
<1>2. PICK y \in s : sum(s) # fun[y] + sum(s \ {y})
  OBVIOUS
<1>3. ASSUME NEW t \in SUBSET s PROVE sum(t) \in Int
  BY <1>3, SumInt, FS_Subset
<1>4. sum(s) = fun[Pick(s)] + sum(s \ {Pick(s)}) /\ Pick(s) \in s
  BY <1>2, FS_Subset, SumUnfold, PickIn
<1>5. PICK p \in s : sum(s) = fun[p] + sum(s \ {p})
  BY <1>4
<1> HIDE DEF sum
<1>6. ASSUME NEW t \in SUBSET s, t # s, NEW z \in t PROVE sum(t) = fun[z] + sum(t \ {z})
  BY <1>1, <1>6
<1>7. p # y
  BY <1>2, <1>5
<1>8. sum(s \ {p}) = fun[y] + sum((s \ {p}) \ {y})
  BY <1>6, <1>7
<1>9. sum(s \ {y}) = fun[p] + sum((s \ {y}) \ {p})
  BY <1>6, <1>7
<1>10. (s \ {p}) \ {y} = (s \ {y}) \ {p} /\ fun[p] \in Int /\ fun[y] \in Int
  OBVIOUS
<1>11. sum((s \ {p}) \ {y}) \in Int
  BY <1>3
<1> QED
  BY <1>2, <1>5, <1>8, <1>9, <1>10, <1>11

\* A sum of natural numbers is one.
LEMMA SumNat ==
  ASSUME NEW fun, NEW S, IsFiniteSet(S), \A x \in S : fun[x] \in Nat
  PROVE  SumFunctionOnSet(fun, S) \in Nat
<1> DEFINE T == {s \in SUBSET S : SumFunctionOnSet(fun, s) \notin Nat}
<1> SUFFICES ASSUME T # {} PROVE FALSE
  OBVIOUS
<1>1. PICK s \in T : \A t \in T : t \subseteq s => t = s
  <2>1. T \subseteq SUBSET S
    OBVIOUS
  <2> HIDE DEF T
  <2> QED
    BY <2>1, SmallestSubset
<1>2. SumFunctionOnSet(fun, s) =
        IF s = {} THEN 0 ELSE fun[Pick(s)] + SumFunctionOnSet(fun, s \ {Pick(s)})
  BY FS_Subset, SumUnfold
<1>3. s # {} /\ Pick(s) \in s
  BY <1>1, <1>2, PickIn
<1>4. SumFunctionOnSet(fun, s \ {Pick(s)}) \in Nat
  BY <1>1, <1>3
<1> QED
  BY <1>1, <1>2, <1>3, <1>4

\* A new element adds its number.
LEMMA SumAdd ==
  ASSUME NEW fun, NEW S, IsFiniteSet(S), NEW x, x \notin S,
         \A y \in S \cup {x} : fun[y] \in Int
  PROVE  SumFunctionOnSet(fun, S \cup {x}) = fun[x] + SumFunctionOnSet(fun, S)
<1>1. IsFiniteSet(S \cup {x}) /\ (S \cup {x}) \ {x} = S
  BY FS_AddElement
<1> QED
  BY <1>1, SumRemove

\* Summing natural numbers over fewer elements gives no more.
LEMMA SumMonotone ==
  ASSUME NEW fun, NEW S, IsFiniteSet(S), \A x \in S : fun[x] \in Nat, NEW R \in SUBSET S
  PROVE  SumFunctionOnSet(fun, R) <= SumFunctionOnSet(fun, S)
<1> DEFINE sum(s) == SumFunctionOnSet(fun, s)
           T == {s \in SUBSET S : R \subseteq s /\ ~ sum(R) <= sum(s)}
<1> SUFFICES ASSUME T # {} PROVE FALSE
  OBVIOUS
<1>1. PICK s \in T : \A t \in T : t \subseteq s => t = s
  <2>1. T \subseteq SUBSET S
    OBVIOUS
  <2> HIDE DEF T
  <2> QED
    BY <2>1, SmallestSubset
<1>2. ASSUME NEW t \in SUBSET S PROVE sum(t) \in Nat /\ IsFiniteSet(t)
  BY <1>2, SumNat, FS_Subset
<1>3. sum(R) \in Nat
  BY <1>2
<1>4. PICK x \in s : x \notin R
  BY <1>1, <1>3
<1>5. sum(s) = fun[x] + sum(s \ {x})
  BY <1>2, SumRemove
<1> HIDE DEF sum
<1>6. sum(R) <= sum(s \ {x})
  BY <1>1, <1>4
<1>7. sum(s \ {x}) \in Nat /\ fun[x] \in Nat /\ ~ sum(R) <= sum(s)
  BY <1>2
<1> QED
  BY <1>3, <1>5, <1>6, <1>7
=============================================================================

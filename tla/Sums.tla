-------------------------------- MODULE Sums --------------------------------
(***************************************************************************)
(* Facts about the sums of the community modules over finite sets: the sum *)
(* does not depend on the order of summation.                              *)
(***************************************************************************)
EXTENDS Functions, FiniteSetTheorems, TLAPS

Pick(s) == CHOOSE x \in s : TRUE

\* What a sum over the subsets of S has to satisfy.
Adds(g, f, S) ==
  g = [s \in SUBSET S |-> IF s = {} THEN 0 ELSE f[Pick(s)] + g[s \ {Pick(s)}]]

LEMMA PickIn == \A s : s # {} => Pick(s) \in s
BY DEF Pick

\* The smallest of the subsets that have a property.
LEMMA SmallestSubset ==
  ASSUME NEW S, IsFiniteSet(S), NEW B \in SUBSET SUBSET S, B # {}
  PROVE  \E s \in B : \A t \in B : t \subseteq s => t = s
<1>1. IsWellFoundedOn(StrictSubsetOrdering(S), FiniteSubsetsOf(S))
  BY FS_StrictSubsetOrderingWellFounded
<1>2. FiniteSubsetsOf(S) = SUBSET S
  BY FS_FiniteSubsetsOfFinite
<1>3. PICK s \in B : \A t \in B : ~(<<t, s>> \in StrictSubsetOrdering(S))
  BY <1>1, <1>2, WFMin
<1> QED BY <1>3 DEF StrictSubsetOrdering

LEMMA SmallestNumber ==
  ASSUME NEW B \in SUBSET Nat, B # {}
  PROVE  \E n \in B : \A k \in B : n <= k
<1> DEFINE R == {ss \in Nat \X Nat : ss[1] < ss[2]}
<1>1. IsWellFoundedOn(R, Nat)
  BY NatLessThanWellFounded, Zenon DEF OpToRel
<1>2. PICK n \in B : \A k \in B : ~(<<k, n>> \in R)
  <2> HIDE DEF R
  <2> QED BY <1>1, WFMin
<1>3. ASSUME NEW k \in B PROVE n <= k
  <2>1. n \in Nat /\ k \in Nat
    OBVIOUS
  <2>2. ~(k < n)
    BY <1>2, <2>1
  <2> QED BY <2>1, <2>2
<1> QED BY <1>3

LEMMA AddsExists ==
  ASSUME NEW S, IsFiniteSet(S), NEW f
  PROVE  \E g : Adds(g, f, S)
<1> DEFINE Up(g, n) == \A s \in SUBSET S : Cardinality(s) <= n =>
              g[s] = IF s = {} THEN 0 ELSE f[Pick(s)] + g[s \ {Pick(s)}]
           D == SUBSET S
           Bad == {n \in Nat : ~ \E g : g = [s \in D |-> g[s]] /\ Up(g, n)}
<1>0. \A s \in D : IsFiniteSet(s) /\ Cardinality(s) \in Nat
  BY FS_Subset, FS_CardinalityType
<1>1. 0 \notin Bad
  <2> DEFINE g == [s \in D |-> 0]
  <2>1. g = [s \in D |-> g[s]]
    OBVIOUS
  <2>2. Up(g, 0)
    BY <1>0, FS_EmptySet
  <2> QED BY <2>1, <2>2
<1>2. ASSUME NEW n \in Nat, n \notin Bad PROVE n + 1 \notin Bad
  <2>1. PICK g : g = [s \in D |-> g[s]] /\ Up(g, n)
    BY <1>2
  <2> DEFINE h == [s \in D |-> IF s = {} THEN 0 ELSE f[Pick(s)] + g[s \ {Pick(s)}]]
  <2>2. \A s \in D : Cardinality(s) <= n => h[s] = g[s]
    BY <2>1
  <2>3. ASSUME NEW s \in D, Cardinality(s) <= n + 1, s # {}
        PROVE  h[s \ {Pick(s)}] = g[s \ {Pick(s)}]
    <3>1. Cardinality(s \ {Pick(s)}) <= n
      BY <1>0, <2>3, PickIn, FS_RemoveElement
    <3> QED BY <2>2, <3>1
  <2>4. Up(h, n + 1)
    BY <2>3
  <2>5. h = [s \in D |-> h[s]]
    OBVIOUS
  <2> QED BY <2>4, <2>5
<1>3. Bad = {}
  <2> SUFFICES ASSUME Bad # {} PROVE FALSE
    OBVIOUS
  <2>1. PICK n \in Bad : \A k \in Bad : n <= k
    <3> Bad \in SUBSET Nat
      OBVIOUS
    <3> HIDE DEF Bad
    <3> QED BY SmallestNumber
  <2>2. n \in Nat /\ n \in Bad /\ n # 0
    BY <1>1
  <2> HIDE DEF Bad
  <2>3. n - 1 \in Nat /\ n - 1 \notin Bad
    BY <2>1, <2>2
  <2>4. (n - 1) + 1 \notin Bad
    BY <1>2, <2>3
  <2> QED BY <2>2, <2>4
<1>4. Cardinality(S) \in Nat
  BY FS_CardinalityType
<1>5. PICK g : g = [s \in D |-> g[s]] /\ Up(g, Cardinality(S))
  BY <1>3, <1>4
<1>6. \A s \in D : Cardinality(s) <= Cardinality(S)
  BY FS_Subset
<1>7. Adds(g, f, S)
  BY <1>5, <1>6 DEF Adds
<1> QED BY <1>7

\* Two such functions agree where what they add agrees.
LEMMA AddsAgree ==
  ASSUME NEW S, IsFiniteSet(S), NEW T \in SUBSET S, NEW f, NEW e, NEW g, NEW h,
         Adds(g, f, S), Adds(h, e, T), \A x \in T : f[x] = e[x]
  PROVE  g[T] = h[T]
<1> DEFINE Bad == {s \in SUBSET T : g[s] # h[s]}
<1>1. SUFFICES ASSUME Bad # {} PROVE FALSE
  OBVIOUS
<1>2. PICK s \in Bad : \A t \in Bad : t \subseteq s => t = s
  <2>1. Bad \in SUBSET SUBSET S
    OBVIOUS
  <2> HIDE DEF Bad
  <2> QED BY <1>1, <2>1, SmallestSubset
<1>3. s # {}
  BY DEF Adds
<1>4. Pick(s) \in s
  BY <1>3, PickIn
<1>5. g[s \ {Pick(s)}] = h[s \ {Pick(s)}]
  BY <1>2, <1>4
<1>6. g[s] = f[Pick(s)] + g[s \ {Pick(s)}]
  BY <1>3 DEF Adds
<1>7. h[s] = e[Pick(s)] + h[s \ {Pick(s)}]
  BY <1>3 DEF Adds
<1> QED BY <1>2, <1>4, <1>5, <1>6, <1>7

LEMMA SumAdds ==
  ASSUME NEW S, IsFiniteSet(S), NEW f
  PROVE  \E g : Adds(g, f, S) /\ SumFunctionOnSet(f, S) = g[S]
<1> DEFINE g == CHOOSE k : Adds(k, f, S)
<1>1. Adds(g, f, S)
  BY AddsExists
<1>2. SumFunctionOnSet(f, S) = g[S]
  BY DEF SumFunctionOnSet, FoldFunctionOnSet, MapThenFoldSet, Adds, Pick
<1> QED BY <1>1, <1>2

\* The sum over no elements.
LEMMA SumEmpty ==
  ASSUME NEW f
  PROVE  SumFunctionOnSet(f, {}) = 0
<1>1. PICK g : Adds(g, f, {}) /\ SumFunctionOnSet(f, {}) = g[{}]
  BY SumAdds, FS_EmptySet
<1> QED BY <1>1 DEF Adds

\* Only the values on the set matter.
LEMMA SumSame ==
  ASSUME NEW S, IsFiniteSet(S), NEW f, NEW e, \A x \in S : f[x] = e[x]
  PROVE  SumFunctionOnSet(f, S) = SumFunctionOnSet(e, S)
<1>1. PICK g : Adds(g, f, S) /\ SumFunctionOnSet(f, S) = g[S]
  BY SumAdds
<1>2. PICK h : Adds(h, e, S) /\ SumFunctionOnSet(e, S) = h[S]
  BY SumAdds
<1> QED BY <1>1, <1>2, AddsAgree

\* A function that adds over S tells the sum of every subset of S.
LEMMA AddsSums ==
  ASSUME NEW S, IsFiniteSet(S), NEW f, NEW g, Adds(g, f, S), NEW T \in SUBSET S
  PROVE  SumFunctionOnSet(f, T) = g[T]
<1>1. IsFiniteSet(T)
  BY FS_Subset
<1>2. PICK h : Adds(h, f, T) /\ SumFunctionOnSet(f, T) = h[T]
  BY <1>1, SumAdds
<1> QED BY <1>2, AddsAgree

\* Sums of integers are integers, of naturals naturals, of zeros zero.
LEMMA SumType ==
  ASSUME NEW S, IsFiniteSet(S), NEW f
  PROVE  /\ (\A x \in S : f[x] \in Int) => SumFunctionOnSet(f, S) \in Int
         /\ (\A x \in S : f[x] \in Nat) => SumFunctionOnSet(f, S) \in Nat
         /\ (\A x \in S : f[x] = 0) => SumFunctionOnSet(f, S) = 0
<1>1. PICK g : Adds(g, f, S) /\ SumFunctionOnSet(f, S) = g[S]
  BY SumAdds
<1>2. ASSUME NEW V, 0 \in V, \A a, b \in V : a + b \in V, \A x \in S : f[x] \in V
      PROVE  g[S] \in V
  <2> DEFINE Bad == {s \in SUBSET S : g[s] \notin V}
  <2>1. SUFFICES ASSUME Bad # {} PROVE FALSE
    OBVIOUS
  <2>2. PICK s \in Bad : \A t \in Bad : t \subseteq s => t = s
    <3>1. Bad \in SUBSET SUBSET S
      OBVIOUS
    <3> HIDE DEF Bad
    <3> QED BY <2>1, <3>1, SmallestSubset
  <2>3. s # {}
    BY <1>1, <1>2 DEF Adds
  <2>4. Pick(s) \in s
    BY <2>3, PickIn
  <2>5. g[s \ {Pick(s)}] \in V
    BY <2>2, <2>4
  <2>6. g[s] = f[Pick(s)] + g[s \ {Pick(s)}]
    BY <1>1, <2>3 DEF Adds
  <2> QED BY <1>2, <2>2, <2>4, <2>5, <2>6
<1>3. (\A x \in S : f[x] \in Int) => g[S] \in Int
  <2>1. 0 \in Int /\ \A a, b \in Int : a + b \in Int
    OBVIOUS
  <2> QED BY <1>2, <2>1, Zenon
<1>4. (\A x \in S : f[x] \in Nat) => g[S] \in Nat
  <2>1. 0 \in Nat /\ \A a, b \in Nat : a + b \in Nat
    OBVIOUS
  <2> QED BY <1>2, <2>1, Zenon
<1>5. (\A x \in S : f[x] = 0) => g[S] \in {0}
  <2>1. 0 \in {0} /\ \A a, b \in {0} : a + b \in {0}
    OBVIOUS
  <2>2. (\A x \in S : f[x] = 0) => \A x \in S : f[x] \in {0}
    OBVIOUS
  <2> QED BY <1>2, <2>1, <2>2, Zenon
<1> QED BY <1>1, <1>3, <1>4, <1>5

\* The order of summation does not matter: any element may be taken out.
LEMMA SumRemove ==
  ASSUME NEW S, IsFiniteSet(S), NEW f, \A x \in S : f[x] \in Int, NEW x \in S
  PROVE  SumFunctionOnSet(f, S) = f[x] + SumFunctionOnSet(f, S \ {x})
<1>1. PICK g : Adds(g, f, S) /\ SumFunctionOnSet(f, S) = g[S]
  BY SumAdds
<1>2. \A s \in SUBSET S : g[s] \in Int
  BY <1>1, AddsSums, SumType, FS_Subset
<1> DEFINE Bad == {s \in SUBSET S : \E y \in s : g[s] # f[y] + g[s \ {y}]}
<1>3. Bad = {}
  <2>1. SUFFICES ASSUME Bad # {} PROVE FALSE
    OBVIOUS
  <2>2. PICK s \in Bad : \A t \in Bad : t \subseteq s => t = s
    <3>1. Bad \in SUBSET SUBSET S
      OBVIOUS
    <3> HIDE DEF Bad
    <3> QED BY <2>1, <3>1, SmallestSubset
  <2>3. PICK y \in s : g[s] # f[y] + g[s \ {y}]
    OBVIOUS
  <2> DEFINE p == Pick(s)
  <2>4. p \in s
    BY PickIn
  <2>5. g[s] = f[p] + g[s \ {p}]
    BY <1>1, <2>4 DEF Adds
  <2> HIDE DEF p
  <2>6. y # p
    BY <2>3, <2>5
  <2>7. g[s \ {p}] = f[y] + g[(s \ {p}) \ {y}]
    <3>1. s \ {p} \in SUBSET S /\ s \ {p} \subseteq s /\ s \ {p} # s /\ y \in s \ {p}
      BY <2>4, <2>6
    <3>2. s \ {p} \notin Bad
      BY <2>2, <3>1
    <3> QED BY <3>1, <3>2
  <2>8. g[s \ {y}] = f[p] + g[(s \ {y}) \ {p}]
    <3>1. s \ {y} \in SUBSET S /\ s \ {y} \subseteq s /\ s \ {y} # s /\ p \in s \ {y}
      BY <2>4, <2>6
    <3>2. s \ {y} \notin Bad
      BY <2>2, <3>1
    <3> QED BY <3>1, <3>2
  <2>9. (s \ {p}) \ {y} = (s \ {y}) \ {p}
    OBVIOUS
  <2>10. f[p] \in Int /\ f[y] \in Int /\ g[(s \ {y}) \ {p}] \in Int
    BY <1>2, <2>4
  <2>11. g[s] = f[y] + g[s \ {y}]
    <3> DEFINE v == g[(s \ {y}) \ {p}]
    <3>1. v \in Int /\ g[s \ {p}] = f[y] + v /\ g[s \ {y}] = f[p] + v
      BY <2>7, <2>8, <2>9, <2>10
    <3> HIDE DEF v
    <3> QED BY <2>5, <2>10, <3>1
  <2> QED BY <2>3, <2>11
<1>4. g[S] = f[x] + g[S \ {x}]
  BY <1>3
<1>5. SumFunctionOnSet(f, S \ {x}) = g[S \ {x}]
  BY <1>1, AddsSums
<1> QED BY <1>1, <1>4, <1>5

\* One value changes: the sum changes by as much.
LEMMA SumChange ==
  ASSUME NEW S, IsFiniteSet(S), NEW f, NEW e, NEW x \in S,
         \A y \in S : f[y] \in Int /\ e[y] \in Int,
         \A y \in S \ {x} : e[y] = f[y]
  PROVE  SumFunctionOnSet(e, S) = SumFunctionOnSet(f, S) + (e[x] - f[x])
<1>1. IsFiniteSet(S \ {x})
  BY FS_RemoveElement
<1>2. SumFunctionOnSet(e, S \ {x}) = SumFunctionOnSet(f, S \ {x})
  BY <1>1, SumSame
<1>3. SumFunctionOnSet(f, S \ {x}) \in Int
  BY <1>1, SumType
<1>4. SumFunctionOnSet(f, S) = f[x] + SumFunctionOnSet(f, S \ {x})
  BY SumRemove
<1>5. SumFunctionOnSet(e, S) = e[x] + SumFunctionOnSet(e, S \ {x})
  BY SumRemove
<1> QED BY <1>2, <1>3, <1>4, <1>5

\* One value changes, in the set or outside it.
LEMMA SumFollows ==
  ASSUME NEW S, IsFiniteSet(S), NEW f, NEW e, NEW x,
         \A y \in S : f[y] \in Int /\ e[y] \in Int,
         \A y \in S \ {x} : e[y] = f[y]
  PROVE  /\ SumFunctionOnSet(f, S) \in Int
         /\ x \in S => SumFunctionOnSet(e, S) = SumFunctionOnSet(f, S) + (e[x] - f[x])
         /\ x \notin S => SumFunctionOnSet(e, S) = SumFunctionOnSet(f, S)
<1>1. SumFunctionOnSet(f, S) \in Int
  BY SumType
<1>2. CASE x \in S
  <2>1. SumFunctionOnSet(e, S) = SumFunctionOnSet(f, S) + (e[x] - f[x])
    BY <1>2, SumChange
  <2> QED BY <1>1, <1>2, <2>1
<1>3. CASE x \notin S
  <2>1. \A y \in S : f[y] = e[y]
    BY <1>3
  <2>2. SumFunctionOnSet(f, S) = SumFunctionOnSet(e, S)
    BY <2>1, SumSame
  <2> QED BY <1>1, <1>3, <2>2
<1> QED BY <1>2, <1>3

\* The same for a function that is summed over its domain.
LEMMA SumMoves ==
  ASSUME NEW S, IsFiniteSet(S), NEW f \in [S -> Int], NEW e \in [S -> Int],
         NEW x \in S, NEW d \in Int,
         e[x] = f[x] + d, \A y \in S \ {x} : e[y] = f[y]
  PROVE  /\ SumFunction(f) \in Int
         /\ SumFunction(e) = SumFunction(f) + d
<1>1. SumFunction(f) = SumFunctionOnSet(f, S) /\ SumFunction(e) = SumFunctionOnSet(e, S)
  BY DEF SumFunction
<1>2. \A y \in S : f[y] \in Int /\ e[y] \in Int
  OBVIOUS
<1>3. SumFunctionOnSet(f, S) \in Int
  BY <1>2, SumType
<1>4. SumFunctionOnSet(e, S) = SumFunctionOnSet(f, S) + (e[x] - f[x])
  BY <1>2, SumChange
<1> QED BY <1>1, <1>2, <1>3, <1>4

\* A sum of naturals is at least each of them.
LEMMA SumAtLeast ==
  ASSUME NEW S, IsFiniteSet(S), NEW f, \A y \in S : f[y] \in Nat, NEW x \in S
  PROVE  SumFunctionOnSet(f, S) >= f[x]
<1>1. SumFunctionOnSet(f, S) = f[x] + SumFunctionOnSet(f, S \ {x})
  BY SumRemove
<1>2. SumFunctionOnSet(f, S \ {x}) \in Nat
  BY SumType, FS_RemoveElement
<1> QED BY <1>1, <1>2
=============================================================================

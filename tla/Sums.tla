--------------------------------- MODULE Sums ---------------------------------
(***************************************************************************)
(* What the proofs about money need of a sum over a function: that of no   *)
(* value is 0, one value can be taken out of it, it depends on the values  *)
(* alone.  Induction is by a smallest counterexample.                      *)
(***************************************************************************)
EXTENDS Integers, Functions, FiniteSetTheorems, WellFoundedInduction, TLAPS

---------------------------------------------------------------------------
(* Smallest counterexamples *)

LEMMA LeastNumber ==
    ASSUME NEW T \in SUBSET Nat, T # {}
    PROVE  \E x \in T : \A y \in T : x <= y
<1> DEFINE less == OpToRel(<, Nat)
<1>1. IsWellFoundedOn(less, Nat)
  BY NatLessThanWellFounded
<1>2. ASSUME NEW x \in Nat, NEW y \in Nat, x < y PROVE <<x, y>> \in less
  BY <1>2 DEF OpToRel
<1> HIDE DEF less
<1>3. PICK x \in T : \A y \in T : ~(<<y, x>> \in less)
  BY <1>1, WFMin
<1>4. ASSUME NEW y \in T PROVE x <= y
  <2>1. x \in Nat /\ y \in Nat
    OBVIOUS
  <2>2. ~(y < x)
    BY <1>2, <1>3, <2>1
  <2> QED BY <2>1, <2>2
<1> QED BY <1>4

LEMMA SmallestSet ==
    ASSUME NEW S, IsFiniteSet(S), NEW Bad \in SUBSET (SUBSET S), Bad # {}
    PROVE  \E T \in Bad : \A U \in Bad : Cardinality(T) <= Cardinality(U)
<1> DEFINE Sizes == {Cardinality(T) : T \in Bad}
<1>1. \A T \in Bad : IsFiniteSet(T) /\ Cardinality(T) \in Nat
  BY FS_Subset, FS_CardinalityType
<1>2. Sizes \in SUBSET Nat /\ Sizes # {}
  BY <1>1
<1>3. PICK n \in Sizes : \A m \in Sizes : n <= m
  BY <1>2, LeastNumber
<1> QED BY <1>3

---------------------------------------------------------------------------
(* The function a sum is defined by *)

AnyOf(T) == CHOOSE x \in T : TRUE

IsSum(f, S, h) ==
    h = [T \in SUBSET S |-> IF T = {} THEN 0 ELSE f[AnyOf(T)] + h[T \ {AnyOf(T)}]]

LEMMA SumIsSum ==
    ASSUME NEW f, NEW S
    PROVE  SumFunctionOnSet(f, S) = (CHOOSE h : IsSum(f, S, h))[S]
BY DEF SumFunctionOnSet, FoldFunctionOnSet, MapThenFoldSet, IsSum, AnyOf

LEMMA AnyOne ==
    ASSUME NEW T, T # {}
    PROVE  AnyOf(T) \in T
BY DEF AnyOf

LEMMA OneLess ==
    ASSUME NEW T, IsFiniteSet(T), NEW x \in T
    PROVE  /\ IsFiniteSet(T \ {x})
           /\ Cardinality(T \ {x}) \in Nat
           /\ Cardinality(T) \in Nat
           /\ Cardinality(T \ {x}) = Cardinality(T) - 1
           /\ Cardinality(T \ {x}) < Cardinality(T)
<1>1. IsFiniteSet(T \ {x}) /\ Cardinality(T \ {x}) = Cardinality(T) - 1
  BY FS_RemoveElement
<1>2. Cardinality(T) \in Nat /\ Cardinality(T \ {x}) \in Nat
  BY <1>1, FS_CardinalityType
<1> QED BY <1>1, <1>2

LEMMA SumExists ==
    ASSUME NEW f, NEW S, IsFiniteSet(S)
    PROVE  \E h : IsSum(f, S, h)
<1> DEFINE Small(n) == {T \in SUBSET S : Cardinality(T) <= n}
           Body(T, h) == IF T = {} THEN 0 ELSE f[AnyOf(T)] + h[T \ {AnyOf(T)}]
           Upto(n, h) == h = [T \in Small(n) |-> Body(T, h)]
           None == {n \in Nat : ~ \E h : Upto(n, h)}
<1>1. \A T \in SUBSET S : IsFiniteSet(T) /\ Cardinality(T) \in Nat
  BY FS_Subset, FS_CardinalityType
<1>2. \E h : Upto(0, h)
  <2> DEFINE h == [T \in Small(0) |-> 0]
  <2>1. \A T \in Small(0) : T = {}
    BY <1>1, FS_EmptySet
  <2>2. \A T \in Small(0) : h[T] = 0 /\ Body(T, h) = 0
    BY <2>1
  <2>3. Upto(0, h)
    BY <2>2
  <2> QED BY <2>3
<1>3. ASSUME NEW n \in Nat, NEW h, Upto(n, h) PROVE \E g : Upto(n + 1, g)
  <2> DEFINE g == [T \in Small(n + 1) |-> Body(T, h)]
  <2>1. ASSUME NEW T \in Small(n + 1), T # {}
        PROVE  T \ {AnyOf(T)} \in Small(n) /\ T \ {AnyOf(T)} \in Small(n + 1)
    <3>1. AnyOf(T) \in T /\ IsFiniteSet(T)
      BY <1>1, <2>1, AnyOne
    <3>2. /\ Cardinality(T \ {AnyOf(T)}) = Cardinality(T) - 1
          /\ Cardinality(T \ {AnyOf(T)}) \in Nat /\ Cardinality(T) \in Nat
      BY <3>1, OneLess
    <3>3. T \ {AnyOf(T)} \in SUBSET S
      OBVIOUS
    <3> QED BY <3>2, <3>3
  <2>2. ASSUME NEW U \in Small(n), U \in Small(n + 1) PROVE g[U] = h[U]
    <3>1. g[U] = Body(U, h)
      BY <2>2
    <3>2. h[U] = Body(U, h)
      BY <1>3
    <3> QED BY <3>1, <3>2
  <2>3. ASSUME NEW T \in Small(n + 1) PROVE g[T] = Body(T, g)
    <3>1. g[T] = Body(T, h)
      OBVIOUS
    <3>2. Body(T, h) = Body(T, g)
      <4>1. CASE T = {}
        BY <4>1
      <4>2. CASE T # {}
        <5>1. g[T \ {AnyOf(T)}] = h[T \ {AnyOf(T)}]
          BY <2>1, <2>2, <4>2
        <5> HIDE DEF g
        <5> QED BY <5>1
      <4> QED BY <4>1, <4>2
    <3> QED BY <3>1, <3>2
  <2>4. g = [T \in Small(n + 1) |-> g[T]]
    OBVIOUS
  <2>5. Upto(n + 1, g)
    <3> HIDE DEF g, Small, Body
    <3> QED BY <2>3, <2>4
  <2> QED BY <2>5
<1>4. None = {}
  <2> SUFFICES ASSUME None # {} PROVE FALSE
    OBVIOUS
  <2>1. PICK n \in None : \A m \in None : n <= m
    <3>1. None \in SUBSET Nat
      OBVIOUS
    <3> HIDE DEF None
    <3> QED BY <3>1, LeastNumber
  <2>2. n # 0
    <3> HIDE DEF Upto
    <3> QED BY <1>2
  <2>3. n - 1 \in Nat /\ n - 1 \notin None
    <3>1. n \in Nat /\ n - 1 \in Nat /\ ~(n <= n - 1)
      BY <2>2
    <3> HIDE DEF None
    <3> QED BY <2>1, <3>1
  <2>4. PICK h : Upto(n - 1, h)
    BY <2>3
  <2>5. \E g : Upto((n - 1) + 1, g)
    <3> HIDE DEF Upto
    <3> QED BY <1>3, <2>3, <2>4
  <2>6. (n - 1) + 1 = n
    OBVIOUS
  <2>7. \E g : Upto(n, g)
    <3> HIDE DEF Upto
    <3> QED BY <2>5, <2>6
  <2> QED BY <2>7
<1>5. PICK h : Upto(Cardinality(S), h)
  <2>1. Cardinality(S) \in Nat
    BY FS_CardinalityType
  <2> HIDE DEF Upto
  <2> QED BY <1>4, <2>1
<1>6. Small(Cardinality(S)) = SUBSET S
  BY FS_Subset
<1>7. IsSum(f, S, h)
  <2> HIDE DEF Small
  <2> QED BY <1>5, <1>6 DEF IsSum
<1> QED BY <1>7

LEMMA SumUnique ==
    ASSUME NEW f, NEW S, IsFiniteSet(S), NEW U, U \subseteq S,
           NEW h, IsSum(f, S, h), NEW g, IsSum(f, U, g), NEW T \in SUBSET U
    PROVE  h[T] = g[T]
<1> DEFINE Bad == {V \in SUBSET U : h[V] # g[V]}
<1> SUFFICES ASSUME Bad # {} PROVE FALSE
  OBVIOUS
<1>1. IsFiniteSet(U)
  BY FS_Subset
<1>2. PICK W \in Bad : \A V \in Bad : Cardinality(W) <= Cardinality(V)
  <2>1. Bad \in SUBSET (SUBSET U)
    OBVIOUS
  <2> HIDE DEF Bad
  <2> QED BY <1>1, <2>1, SmallestSet
<1>3. h[W] = IF W = {} THEN 0 ELSE f[AnyOf(W)] + h[W \ {AnyOf(W)}]
  BY DEF IsSum
<1>4. g[W] = IF W = {} THEN 0 ELSE f[AnyOf(W)] + g[W \ {AnyOf(W)}]
  BY DEF IsSum
<1>5. W # {}
  BY <1>3, <1>4
<1>6. AnyOf(W) \in W
  BY <1>5, AnyOne
<1>7. Cardinality(W \ {AnyOf(W)}) < Cardinality(W) /\ Cardinality(W) \in Nat
      /\ Cardinality(W \ {AnyOf(W)}) \in Nat
  BY <1>1, <1>6, FS_Subset, OneLess
<1>8. h[W \ {AnyOf(W)}] = g[W \ {AnyOf(W)}]
  <2>1. W \ {AnyOf(W)} \notin Bad
    BY <1>2, <1>7
  <2> QED BY <2>1
<1> QED BY <1>3, <1>4, <1>5, <1>8

---------------------------------------------------------------------------
(* Sums *)

LEMMA SumOfNone ==
    ASSUME NEW f
    PROVE  SumFunctionOnSet(f, {}) = 0
<1>1. IsSum(f, {}, CHOOSE h : IsSum(f, {}, h))
  BY SumExists, FS_EmptySet
<1> QED BY <1>1, SumIsSum DEF IsSum

LEMMA SumByAny ==
    ASSUME NEW f, NEW S, IsFiniteSet(S), S # {}
    PROVE  SumFunctionOnSet(f, S) = f[AnyOf(S)] + SumFunctionOnSet(f, S \ {AnyOf(S)})
<1> DEFINE U == S \ {AnyOf(S)}
           h == CHOOSE k : IsSum(f, S, k)
           g == CHOOSE k : IsSum(f, U, k)
<1>1. IsFiniteSet(U)
  BY FS_Subset
<1>2. IsSum(f, S, h) /\ IsSum(f, U, g)
  BY <1>1, SumExists
<1>3. h[U] = g[U]
  <2>1. U \subseteq S /\ U \in SUBSET U
    OBVIOUS
  <2> HIDE DEF U, h, g
  <2> QED BY <1>2, <2>1, SumUnique
<1>4. h[S] = f[AnyOf(S)] + h[U]
  <2> HIDE DEF h
  <2> QED BY <1>2 DEF IsSum
<1> QED BY <1>3, <1>4, SumIsSum

LEMMA SumIsInt ==
    ASSUME NEW f, NEW S, IsFiniteSet(S), \A x \in S : f[x] \in Int
    PROVE  SumFunctionOnSet(f, S) \in Int
<1> DEFINE Bad == {T \in SUBSET S : SumFunctionOnSet(f, T) \notin Int}
<1> SUFFICES ASSUME Bad # {} PROVE FALSE
  OBVIOUS
<1>1. PICK T \in Bad : \A V \in Bad : Cardinality(T) <= Cardinality(V)
  <2>1. Bad \in SUBSET (SUBSET S)
    OBVIOUS
  <2> HIDE DEF Bad
  <2> QED BY <2>1, SmallestSet
<1>2. T # {}
  BY SumOfNone
<1>3. AnyOf(T) \in T /\ IsFiniteSet(T)
  BY <1>2, AnyOne, FS_Subset
<1>4. T \ {AnyOf(T)} \notin Bad
  BY <1>1, <1>3, OneLess
<1>5. SumFunctionOnSet(f, T \ {AnyOf(T)}) \in Int
  BY <1>4
<1>6. SumFunctionOnSet(f, T) = f[AnyOf(T)] + SumFunctionOnSet(f, T \ {AnyOf(T)})
  BY <1>2, <1>3, SumByAny
<1> QED BY <1>3, <1>5, <1>6

LEMMA SumIsNat ==
    ASSUME NEW f, NEW S, IsFiniteSet(S), \A x \in S : f[x] \in Nat
    PROVE  SumFunctionOnSet(f, S) \in Nat
<1> DEFINE Bad == {T \in SUBSET S : SumFunctionOnSet(f, T) \notin Nat}
<1> SUFFICES ASSUME Bad # {} PROVE FALSE
  OBVIOUS
<1>1. PICK T \in Bad : \A V \in Bad : Cardinality(T) <= Cardinality(V)
  <2>1. Bad \in SUBSET (SUBSET S)
    OBVIOUS
  <2> HIDE DEF Bad
  <2> QED BY <2>1, SmallestSet
<1>2. T # {}
  BY SumOfNone
<1>3. AnyOf(T) \in T /\ IsFiniteSet(T)
  BY <1>2, AnyOne, FS_Subset
<1>4. T \ {AnyOf(T)} \notin Bad
  BY <1>1, <1>3, OneLess
<1>5. SumFunctionOnSet(f, T \ {AnyOf(T)}) \in Nat
  BY <1>4
<1>6. SumFunctionOnSet(f, T) = f[AnyOf(T)] + SumFunctionOnSet(f, T \ {AnyOf(T)})
  BY <1>2, <1>3, SumByAny
<1> QED BY <1>3, <1>5, <1>6

\* AnyOf one value can be taken out of a sum.
LEMMA SumTakesOut ==
    ASSUME NEW f, NEW S, IsFiniteSet(S), \A x \in S : f[x] \in Int, NEW x \in S
    PROVE  SumFunctionOnSet(f, S) = f[x] + SumFunctionOnSet(f, S \ {x})
<1> DEFINE Sum(T) == SumFunctionOnSet(f, T)
           Bad == {T \in SUBSET S : \E y \in T : Sum(T) # f[y] + Sum(T \ {y})}
<1> HIDE DEF Sum
<1> SUFFICES ASSUME Bad # {} PROVE FALSE
  BY DEF Sum
<1>1. PICK T \in Bad : \A V \in Bad : Cardinality(T) <= Cardinality(V)
  <2>1. Bad \in SUBSET (SUBSET S)
    OBVIOUS
  <2> HIDE DEF Bad
  <2> QED BY <2>1, SmallestSet
<1>2. PICK y \in T : Sum(T) # f[y] + Sum(T \ {y})
  OBVIOUS
<1> DEFINE a == AnyOf(T)
<1>3. a \in T /\ IsFiniteSet(T)
  BY AnyOne, FS_Subset
<1>4. Sum(T) = f[a] + Sum(T \ {a})
  BY <1>3, SumByAny DEF Sum
<1>5. y # a
  BY <1>2, <1>4
<1>6. ASSUME NEW z \in T PROVE T \ {z} \notin Bad /\ Sum(T \ {z}) \in Int /\ f[z] \in Int
  <2>1. T \ {z} \notin Bad
    <3>1. /\ Cardinality(T \ {z}) \in Nat /\ Cardinality(T) \in Nat
          /\ Cardinality(T \ {z}) < Cardinality(T)
      BY <1>3, OneLess
    <3>2. ~(Cardinality(T) <= Cardinality(T \ {z}))
      BY <3>1
    <3> HIDE DEF Bad
    <3> QED BY <1>1, <3>2
  <2>2. IsFiniteSet(T \ {z}) /\ \A u \in T \ {z} : f[u] \in Int
    BY <1>3, FS_Subset
  <2>3. Sum(T \ {z}) \in Int
    BY <2>2, SumIsInt DEF Sum
  <2> QED BY <2>1, <2>3
<1>7. Sum(T \ {a}) = f[y] + Sum((T \ {a}) \ {y})
  BY <1>3, <1>5, <1>6
<1>8. Sum(T \ {y}) = f[a] + Sum((T \ {y}) \ {a})
  BY <1>3, <1>5, <1>6
<1>9. (T \ {a}) \ {y} = (T \ {y}) \ {a} /\ Sum((T \ {y}) \ {a}) \in Int
  <2>1. (T \ {a}) \ {y} = (T \ {y}) \ {a}
    OBVIOUS
  <2>2. IsFiniteSet((T \ {y}) \ {a}) /\ \A u \in (T \ {y}) \ {a} : f[u] \in Int
    BY <1>3, FS_Subset
  <2>3. Sum((T \ {y}) \ {a}) \in Int
    BY <2>2, SumIsInt DEF Sum
  <2> QED BY <2>1, <2>3
<1>10. f[a] \in Int /\ f[y] \in Int
  BY <1>3, <1>6
<1> HIDE DEF a, Bad
<1>11. PICK X \in Int : X = Sum((T \ {y}) \ {a})
  BY <1>9
<1>12. Sum(T) = f[a] + (f[y] + X)
  BY <1>4, <1>7, <1>9, <1>11
<1>13. Sum(T \ {y}) = f[a] + X
  BY <1>8, <1>11
<1>14. f[a] + (f[y] + X) = f[y] + (f[a] + X)
  BY <1>10
<1> QED BY <1>2, <1>12, <1>13, <1>14

\* A sum depends on the values alone.
LEMMA SumOfSame ==
    ASSUME NEW f, NEW g, NEW S, IsFiniteSet(S), \A x \in S : f[x] = g[x]
    PROVE  SumFunctionOnSet(f, S) = SumFunctionOnSet(g, S)
<1> DEFINE Bad == {T \in SUBSET S : SumFunctionOnSet(f, T) # SumFunctionOnSet(g, T)}
<1> SUFFICES ASSUME Bad # {} PROVE FALSE
  OBVIOUS
<1>1. PICK T \in Bad : \A V \in Bad : Cardinality(T) <= Cardinality(V)
  <2>1. Bad \in SUBSET (SUBSET S)
    OBVIOUS
  <2> HIDE DEF Bad
  <2> QED BY <2>1, SmallestSet
<1>2. T # {}
  BY SumOfNone
<1>3. AnyOf(T) \in T /\ IsFiniteSet(T)
  BY <1>2, AnyOne, FS_Subset
<1>4. T \ {AnyOf(T)} \notin Bad
  BY <1>1, <1>3, OneLess
<1>5. SumFunctionOnSet(f, T \ {AnyOf(T)}) = SumFunctionOnSet(g, T \ {AnyOf(T)})
  BY <1>4
<1>6. /\ SumFunctionOnSet(f, T) = f[AnyOf(T)] + SumFunctionOnSet(f, T \ {AnyOf(T)})
      /\ SumFunctionOnSet(g, T) = g[AnyOf(T)] + SumFunctionOnSet(g, T \ {AnyOf(T)})
  BY <1>2, <1>3, SumByAny
<1> QED BY <1>3, <1>5, <1>6

LEMMA SumOfZeros ==
    ASSUME NEW f, NEW S, IsFiniteSet(S), \A x \in S : f[x] = 0
    PROVE  SumFunctionOnSet(f, S) = 0
<1> DEFINE Bad == {T \in SUBSET S : SumFunctionOnSet(f, T) # 0}
<1> SUFFICES ASSUME Bad # {} PROVE FALSE
  OBVIOUS
<1>1. PICK T \in Bad : \A V \in Bad : Cardinality(T) <= Cardinality(V)
  <2>1. Bad \in SUBSET (SUBSET S)
    OBVIOUS
  <2> HIDE DEF Bad
  <2> QED BY <2>1, SmallestSet
<1>2. T # {}
  BY SumOfNone
<1>3. AnyOf(T) \in T /\ IsFiniteSet(T)
  BY <1>2, AnyOne, FS_Subset
<1>4. T \ {AnyOf(T)} \notin Bad
  BY <1>1, <1>3, OneLess
<1>5. SumFunctionOnSet(f, T \ {AnyOf(T)}) = 0
  BY <1>4
<1>6. SumFunctionOnSet(f, T) = f[AnyOf(T)] + SumFunctionOnSet(f, T \ {AnyOf(T)})
  BY <1>2, <1>3, SumByAny
<1> QED BY <1>3, <1>5, <1>6

\* One value changes: so does the sum, by the difference.
LEMMA SumChanges ==
    ASSUME NEW f, NEW g, NEW S, IsFiniteSet(S), NEW x \in S,
           \A y \in S : f[y] \in Int, g[x] \in Int, \A y \in S \ {x} : g[y] = f[y]
    PROVE  SumFunctionOnSet(g, S) = SumFunctionOnSet(f, S) - f[x] + g[x]
<1>1. IsFiniteSet(S \ {x})
  BY FS_Subset
<1>2. SumFunctionOnSet(f, S \ {x}) = SumFunctionOnSet(g, S \ {x})
  BY <1>1, SumOfSame
<1>3. SumFunctionOnSet(f, S \ {x}) \in Int
  BY <1>1, SumIsInt
<1>4. SumFunctionOnSet(f, S) = f[x] + SumFunctionOnSet(f, S \ {x})
  BY SumTakesOut
<1>5. \A y \in S : g[y] \in Int
  OBVIOUS
<1>6. SumFunctionOnSet(g, S) = g[x] + SumFunctionOnSet(g, S \ {x})
  BY <1>5, SumTakesOut
<1>7. f[x] \in Int
  OBVIOUS
<1> QED BY <1>2, <1>3, <1>4, <1>6, <1>7
=============================================================================

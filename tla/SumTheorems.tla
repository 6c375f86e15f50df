----------------------------- MODULE SumTheorems -----------------------------
(***************************************************************************)
(* What SumFunctionOnSet of the community modules computes on finite sets, *)
(* for the books of the cost ledger.  The sum is a recursive function on   *)
(* the subsets of a set; each fact about it is proved by a least set that  *)
(* would not have it.                                                      *)
(***************************************************************************)
EXTENDS Integers, Functions, FiniteSetTheorems, NaturalsInduction, WellFoundedInduction, TLAPS

-----------------------------------------------------------------------------
(* Least numbers and least sets                                            *)

\* A set of naturals has a least element.
LEMMA LeastNatural ==
  ASSUME NEW T \in SUBSET Nat, T # {}
  PROVE  \E n \in T : \A m \in T : n <= m
<1>1. PICK n \in T : \A m \in T : <<m, n>> \notin OpToRel(<, Nat)
  BY NatLessThanWellFounded, WFMin, Zenon
<1>2. \A m \in T : ~(m < n)
  BY <1>1 DEF OpToRel
<1>3. QED
  BY <1>2

\* A set of finite sets has a member that has the fewest elements.
LEMMA LeastSet ==
  ASSUME NEW F, F # {}, \A S \in F : IsFiniteSet(S)
  PROVE  \E S \in F : \A T \in F : ~(Cardinality(T) < Cardinality(S))
<1> DEFINE sizes == {Cardinality(S) : S \in F}
<1>1. sizes \in SUBSET Nat /\ sizes # {}
  BY FS_CardinalityType
<1>2. PICK n \in sizes : \A m \in sizes : n <= m
  BY <1>1, LeastNatural
<1>3. PICK S \in F : n = Cardinality(S)
  BY <1>2
<1>4. ASSUME NEW T \in F
      PROVE  ~(Cardinality(T) < Cardinality(S))
  <2>1. Cardinality(T) \in Nat /\ Cardinality(S) \in Nat
    BY FS_CardinalityType
  <2>2. Cardinality(S) <= Cardinality(T)
    BY <1>2, <1>3
  <2>3. QED
    BY <2>1, <2>2
<1>5. QED
  BY <1>4

-----------------------------------------------------------------------------
(* The recursion of a sum                                                  *)

\* The element that the sum of S takes next.
Some(S) == CHOOSE x \in S : TRUE

\* The sums of f over the sets of D, which holds every set without its next element.
Sums(f, D, sums) ==
  sums = [S \in D |-> IF S = {} THEN 0 ELSE f[Some(S)] + sums[S \ {Some(S)}]]

\* The subsets of T that have at most n elements.
UpTo(T, n) == {S \in SUBSET T : Cardinality(S) <= n}

\* The sum over a set is the one of the sums over its subsets.
LEMMA SumIsChosen ==
  ASSUME NEW f, NEW T
  PROVE  SumFunctionOnSet(f, T) = (CHOOSE sums : Sums(f, SUBSET T, sums))[T]
BY DEF SumFunctionOnSet, FoldFunctionOnSet, MapThenFoldSet, Sums, Some

\* The next element, and what is left without it.
LEMMA NextElement ==
  ASSUME NEW S, IsFiniteSet(S), S # {}
  PROVE  /\ Some(S) \in S
         /\ IsFiniteSet(S \ {Some(S)})
         /\ Cardinality(S) \in Nat /\ Cardinality(S) > 0
         /\ Cardinality(S \ {Some(S)}) = Cardinality(S) - 1
<1>1. Some(S) \in S
  BY DEF Some
<1>2. Cardinality(S) \in Nat /\ Cardinality(S) # 0
  BY FS_CardinalityType, FS_EmptySet
<1>3. QED
  BY <1>1, <1>2, FS_RemoveElement

\* The sums exist for the sets of up to n elements, by the least n for which they
\* do not, and so for every subset.
LEMMA SumsExist ==
  ASSUME NEW f, NEW T, IsFiniteSet(T)
  PROVE  \E sums : Sums(f, SUBSET T, sums)
<1> DEFINE bad == {n \in Nat : ~\E sums : Sums(f, UpTo(T, n), sums)}
<1>a. \A S \in SUBSET T : IsFiniteSet(S) /\ Cardinality(S) \in Nat
  BY FS_Subset, FS_CardinalityType
<1>1. bad = {}
  <2>1. SUFFICES ASSUME bad # {}
                 PROVE  FALSE
    OBVIOUS
  <2>2. PICK k \in bad : \A m \in bad : k <= m
    BY <2>1, LeastNatural
  <2>3. k # 0
    <3>1. \A S \in UpTo(T, 0) : S = {}
      BY <1>a, FS_EmptySet DEF UpTo
    <3>2. Sums(f, UpTo(T, 0), [S \in UpTo(T, 0) |-> 0])
      BY <3>1 DEF Sums
    <3>3. QED
      BY <2>2, <3>2
  <2>4. k \in Nat /\ k - 1 \in Nat /\ k - 1 \notin bad
    BY <2>2, <2>3
  <2>5. PICK sums : Sums(f, UpTo(T, k - 1), sums)
    BY <2>4
  <2> DEFINE more == [S \in UpTo(T, k) |->
                        IF Cardinality(S) = k
                        THEN f[Some(S)] + sums[S \ {Some(S)}]
                        ELSE sums[S]]
  <2>6. ASSUME NEW S \in UpTo(T, k)
        PROVE  more[S] = IF S = {} THEN 0 ELSE f[Some(S)] + more[S \ {Some(S)}]
    <3>1. S \in SUBSET T /\ IsFiniteSet(S) /\ Cardinality(S) \in Nat /\ Cardinality(S) <= k
      BY <1>a DEF UpTo
    <3>2. ASSUME S # {}
          PROVE  /\ S \ {Some(S)} \in UpTo(T, k - 1) /\ S \ {Some(S)} \in UpTo(T, k)
                 /\ Cardinality(S \ {Some(S)}) # k
      <4>1. Cardinality(S \ {Some(S)}) = Cardinality(S) - 1
        BY <3>1, <3>2, NextElement
      <4>2. QED
        BY <2>4, <3>1, <4>1 DEF UpTo
    <3>3. S # {} => more[S \ {Some(S)}] = sums[S \ {Some(S)}]
      BY <3>2
    <3>4. CASE Cardinality(S) = k
      <4>1. S # {}
        BY <2>3, <3>4, FS_EmptySet
      <4>2. QED
        BY <3>3, <3>4, <4>1
    <3>5. CASE Cardinality(S) # k
      <4>1. S \in UpTo(T, k - 1)
        BY <2>4, <3>1, <3>5 DEF UpTo
      <4>2. sums[S] = IF S = {} THEN 0 ELSE f[Some(S)] + sums[S \ {Some(S)}]
        BY <2>5, <4>1 DEF Sums
      <4>3. QED
        BY <3>3, <3>5, <4>2
    <3>6. QED
      BY <3>4, <3>5
  <2>7. Sums(f, UpTo(T, k), more)
    BY <2>6 DEF Sums
  <2>8. QED
    BY <2>2, <2>7
<1>2. Cardinality(T) \in Nat /\ UpTo(T, Cardinality(T)) = SUBSET T
  BY <1>a, FS_Subset DEF UpTo
<1>3. \E sums : Sums(f, UpTo(T, Cardinality(T)), sums)
  BY <1>1, <1>2, Zenon
<1>4. QED
  BY <1>2, <1>3, Zenon

\* The sum over a set is one of sums.
LEMMA SumIsOne ==
  ASSUME NEW f, NEW T, IsFiniteSet(T)
  PROVE  \E sums : Sums(f, SUBSET T, sums) /\ SumFunctionOnSet(f, T) = sums[T]
<1> DEFINE sums == CHOOSE sums : Sums(f, SUBSET T, sums)
<1>1. Sums(f, SUBSET T, sums)
  BY SumsExist
<1>2. SumFunctionOnSet(f, T) = sums[T]
  BY SumIsChosen
<1>3. QED
  BY <1>1, <1>2

\* Sums of functions that agree on a set agree on it and on what it holds.
LEMMA SumsAgree ==
  ASSUME NEW T, IsFiniteSet(T), NEW U \in SUBSET T, NEW f, NEW g,
         \A x \in U : f[x] = g[x],
         NEW sums, NEW more, Sums(f, SUBSET T, sums), Sums(g, SUBSET U, more)
  PROVE  sums[U] = more[U]
<1> DEFINE bad == {S \in SUBSET U : sums[S] # more[S]}
<1>1. SUFFICES ASSUME bad # {}
               PROVE  FALSE
  OBVIOUS
<1>2. \A S \in bad : IsFiniteSet(S)
  BY FS_Subset
<1>3. PICK S \in bad : \A R \in bad : ~(Cardinality(R) < Cardinality(S))
  BY <1>1, <1>2, LeastSet
<1>4. /\ sums[S] = IF S = {} THEN 0 ELSE f[Some(S)] + sums[S \ {Some(S)}]
      /\ more[S] = IF S = {} THEN 0 ELSE g[Some(S)] + more[S \ {Some(S)}]
  <2>1. S \in SUBSET T /\ S \in SUBSET U
    OBVIOUS
  <2>2. QED
    BY <2>1 DEF Sums
<1>5. S # {}
  BY <1>3, <1>4
<1>6. Some(S) \in U /\ S \ {Some(S)} \notin bad
  BY <1>2, <1>3, <1>5, NextElement
<1>7. sums[S \ {Some(S)}] = more[S \ {Some(S)}]
  BY <1>6
<1>8. QED
  BY <1>3, <1>4, <1>6, <1>7

-----------------------------------------------------------------------------
(* The facts                                                               *)

\* A sum depends on the function's values on the set alone.
THEOREM SumOfSame ==
  ASSUME NEW T, IsFiniteSet(T), NEW f, NEW g, \A x \in T : f[x] = g[x]
  PROVE  SumFunctionOnSet(f, T) = SumFunctionOnSet(g, T)
<1>1. PICK sums : Sums(f, SUBSET T, sums) /\ SumFunctionOnSet(f, T) = sums[T]
  BY SumIsOne
<1>2. PICK more : Sums(g, SUBSET T, more) /\ SumFunctionOnSet(g, T) = more[T]
  BY SumIsOne
<1>3. T \in SUBSET T
  OBVIOUS
<1>4. sums[T] = more[T]
  BY <1>1, <1>2, <1>3, SumsAgree
<1>5. QED
  BY <1>1, <1>2, <1>4

\* Nothing sums to nothing.
THEOREM SumOfNone ==
  ASSUME NEW f
  PROVE  SumFunctionOnSet(f, {}) = 0
<1>1. IsFiniteSet({})
  BY FS_EmptySet
<1>2. PICK sums : Sums(f, SUBSET {}, sums) /\ SumFunctionOnSet(f, {}) = sums[{}]
  BY <1>1, SumIsOne
<1>3. QED
  BY <1>2 DEF Sums

\* A sum is the value of the next element and the sum without it.
LEMMA SumOfNext ==
  ASSUME NEW T, IsFiniteSet(T), T # {}, NEW f
  PROVE  SumFunctionOnSet(f, T) = f[Some(T)] + SumFunctionOnSet(f, T \ {Some(T)})
<1> DEFINE U == T \ {Some(T)}
<1>1. PICK sums : Sums(f, SUBSET T, sums) /\ SumFunctionOnSet(f, T) = sums[T]
  BY SumIsOne
<1>2. IsFiniteSet(U)
  BY NextElement
<1>3. PICK more : Sums(f, SUBSET U, more) /\ SumFunctionOnSet(f, U) = more[U]
  BY <1>2, SumIsOne
<1>4. sums[T] = f[Some(T)] + sums[U]
  BY <1>1 DEF Sums
<1>5. sums[U] = more[U]
  <2>1. U \in SUBSET T
    OBVIOUS
  <2> HIDE DEF U
  <2>2. QED
    BY <1>1, <1>3, <2>1, SumsAgree
<1>6. QED
  BY <1>1, <1>3, <1>4, <1>5

\* A sum of naturals is one.
THEOREM SumOfNaturals ==
  ASSUME NEW T, IsFiniteSet(T), NEW f, \A x \in T : f[x] \in Nat
  PROVE  SumFunctionOnSet(f, T) \in Nat
<1> DEFINE bad == {S \in SUBSET T : SumFunctionOnSet(f, S) \notin Nat}
<1>1. SUFFICES ASSUME bad # {}
               PROVE  FALSE
  OBVIOUS
<1>2. \A S \in bad : IsFiniteSet(S)
  BY FS_Subset
<1>3. PICK S \in bad : \A R \in bad : ~(Cardinality(R) < Cardinality(S))
  BY <1>1, <1>2, LeastSet
<1>4. S # {}
  BY <1>3, SumOfNone
<1>5. Some(S) \in T /\ S \ {Some(S)} \notin bad
  BY <1>2, <1>3, <1>4, NextElement
<1>6. SumFunctionOnSet(f, S) = f[Some(S)] + SumFunctionOnSet(f, S \ {Some(S)})
  BY <1>2, <1>4, SumOfNext
<1>7. QED
  BY <1>3, <1>5, <1>6

\* One more element adds its value, whichever is taken next.
THEOREM SumOfMore ==
  ASSUME NEW T, IsFiniteSet(T), NEW f, \A y \in T : f[y] \in Nat,
         NEW x, x \notin T, f[x] \in Nat
  PROVE  SumFunctionOnSet(f, T \cup {x}) = f[x] + SumFunctionOnSet(f, T)
<1> DEFINE A == T \cup {x}
           Adds(S, y) == SumFunctionOnSet(f, S \cup {y}) = f[y] + SumFunctionOnSet(f, S)
           bad == {S \in SUBSET A : \E y \in A \ S : ~Adds(S, y)}
<1>a. IsFiniteSet(A) /\ \A y \in A : f[y] \in Nat
  BY FS_AddElement
<1>1. SUFFICES ASSUME bad # {}
               PROVE  FALSE
  <2>1. T \in SUBSET A /\ x \in A \ T
    OBVIOUS
  <2>2. QED
    BY <1>1, <2>1
<1>2. \A S \in bad : IsFiniteSet(S)
  BY <1>a, FS_Subset
<1>3. PICK S \in bad : \A R \in bad : ~(Cardinality(R) < Cardinality(S))
  BY <1>1, <1>2, LeastSet
<1>4. PICK y \in A \ S : ~Adds(S, y)
  BY <1>3
<1> DEFINE U == S \cup {y}
           z == Some(U)
<1>5. U # {} /\ IsFiniteSet(U) /\ IsFiniteSet(S)
  BY <1>2, FS_AddElement
<1>6. z \in U /\ SumFunctionOnSet(f, U) = f[z] + SumFunctionOnSet(f, U \ {z})
  BY <1>5, NextElement, SumOfNext
<1>7. CASE z = y
  <2>1. U \ {z} = S
    BY <1>4, <1>7
  <2>2. QED
    BY <1>4, <1>6, <1>7, <2>1
<1>8. CASE z # y
  <2> DEFINE R == S \ {z}
  <2> HIDE DEF z
  <2>1. z \in S /\ z \in A
    BY <1>6, <1>8
  <2>2. U \ {z} = R \cup {y} /\ R \cup {z} = S
    BY <1>8, <2>1
  <2>3. R \in SUBSET A /\ y \in A \ R /\ z \in A \ R
    BY <1>4, <2>1
  <2>4. R \notin bad
    <3>1. Cardinality(R) = Cardinality(S) - 1 /\ Cardinality(S) \in Nat
      BY <1>5, <2>1, FS_RemoveElement, FS_CardinalityType
    <3>2. Cardinality(R) < Cardinality(S)
      BY <3>1
    <3> HIDE DEF bad, R
    <3>3. QED
      BY <1>3, <3>2
  <2>5. Adds(R, y) /\ Adds(R, z)
    BY <2>3, <2>4
  <2>6. f[y] \in Nat /\ f[z] \in Nat /\ SumFunctionOnSet(f, R) \in Nat
    <3>1. IsFiniteSet(R) /\ \A v \in R : f[v] \in Nat
      BY <1>a, <2>3, FS_Subset
    <3>2. QED
      BY <1>a, <2>3, <3>1, SumOfNaturals
  <2>7. SumFunctionOnSet(f, U) = f[z] + (f[y] + SumFunctionOnSet(f, R))
    BY <1>6, <2>2, <2>5
  <2>8. SumFunctionOnSet(f, S) = f[z] + SumFunctionOnSet(f, R)
    BY <2>2, <2>5
  <2>9. SumFunctionOnSet(f, U) = f[y] + SumFunctionOnSet(f, S)
    BY <2>6, <2>7, <2>8
  <2>10. QED
    BY <1>4, <2>9
<1>9. QED
  BY <1>7, <1>8

\* The value of an element and the sum of the others.
THEOREM SumWithout ==
  ASSUME NEW T, IsFiniteSet(T), NEW f, \A y \in T : f[y] \in Nat, NEW x \in T
  PROVE  SumFunctionOnSet(f, T) = f[x] + SumFunctionOnSet(f, T \ {x})
<1> DEFINE U == T \ {x}
<1>1. IsFiniteSet(U) /\ (\A y \in U : f[y] \in Nat) /\ x \notin U /\ f[x] \in Nat
  BY FS_RemoveElement
<1>2. U \cup {x} = T
  OBVIOUS
<1> HIDE DEF U
<1>3. QED
  BY <1>1, <1>2, SumOfMore DEF U

\* A function that changes at one element.
THEOREM SumOfChanged ==
  ASSUME NEW T, IsFiniteSet(T), NEW x \in T, NEW f, NEW g,
         \A y \in T : f[y] \in Nat /\ g[y] \in Nat,
         \A y \in T \ {x} : g[y] = f[y]
  PROVE  /\ SumFunctionOnSet(f, T) \in Nat /\ SumFunctionOnSet(g, T) \in Nat
         /\ SumFunctionOnSet(g, T) + f[x] = SumFunctionOnSet(f, T) + g[x]
<1> DEFINE U == T \ {x}
<1>1. IsFiniteSet(U) /\ \A y \in U : f[y] \in Nat /\ g[y] \in Nat /\ f[y] = g[y]
  BY FS_RemoveElement
<1>2. SumFunctionOnSet(f, T) = f[x] + SumFunctionOnSet(f, U)
  BY SumWithout
<1>3. SumFunctionOnSet(g, T) = g[x] + SumFunctionOnSet(g, U)
  BY SumWithout
<1> HIDE DEF U
<1>4. SumFunctionOnSet(f, U) = SumFunctionOnSet(g, U) /\ SumFunctionOnSet(f, U) \in Nat
  <2>1. \A y \in U : f[y] = g[y]
    BY <1>1
  <2>2. \A y \in U : f[y] \in Nat
    BY <1>1
  <2>3. QED
    BY <1>1, <2>1, <2>2, SumOfSame, SumOfNaturals
<1>5. f[x] \in Nat /\ g[x] \in Nat
  OBVIOUS
<1>6. QED
  BY <1>2, <1>3, <1>4, <1>5

\* A sum of values up to k, of which those outside U are 0.
THEOREM SumIsBounded ==
  ASSUME NEW T, IsFiniteSet(T), NEW U \in SUBSET T, NEW k \in Nat,
         NEW f, \A x \in T : f[x] \in 0..k, \A x \in T \ U : f[x] = 0
  PROVE  SumFunctionOnSet(f, T) <= Cardinality(U) * k
<1> DEFINE Most(S) == Cardinality(S \cap U) * k
           bad == {S \in SUBSET T : ~(SumFunctionOnSet(f, S) <= Most(S))}
<1>a. \A S \in SUBSET T : /\ IsFiniteSet(S) /\ IsFiniteSet(S \cap U)
                          /\ Cardinality(S \cap U) \in Nat
                          /\ SumFunctionOnSet(f, S) \in Nat
  <2>1. TAKE S \in SUBSET T
  <2>2. IsFiniteSet(S)
    BY FS_Subset
  <2>3. IsFiniteSet(S \cap U)
    BY <2>2, FS_Subset
  <2>4. QED
    BY <2>2, <2>3, FS_CardinalityType, SumOfNaturals
<1>1. SUFFICES ASSUME bad # {}
               PROVE  FALSE
  <2>1. T \in SUBSET T /\ T \cap U = U
    OBVIOUS
  <2>2. QED
    BY <1>1, <2>1
<1>2. \A S \in bad : IsFiniteSet(S)
  BY <1>a
<1>3. PICK S \in bad : \A R \in bad : ~(Cardinality(R) < Cardinality(S))
  BY <1>1, <1>2, LeastSet
<1>4. S # {}
  <2>1. {} \cap U = {} /\ Cardinality({}) = 0
    BY FS_EmptySet
  <2>2. SumFunctionOnSet(f, {}) <= Most({})
    BY <2>1, SumOfNone
  <2>3. QED
    BY <1>3, <2>2
<1> DEFINE z == Some(S)
           R == S \ {z}
<1>5. z \in S /\ R \notin bad /\ SumFunctionOnSet(f, S) = f[z] + SumFunctionOnSet(f, R)
  <2>1. IsFiniteSet(S)
    BY <1>2
  <2>2. z \in S /\ Cardinality(S) \in Nat /\ Cardinality(R) = Cardinality(S) - 1
    BY <1>4, <2>1, NextElement
  <2>3. Cardinality(R) < Cardinality(S)
    BY <2>2
  <2>4. R \notin bad
    <3> HIDE DEF bad, R
    <3>1. QED
      BY <1>3, <2>3
  <2>5. SumFunctionOnSet(f, S) = f[z] + SumFunctionOnSet(f, R)
    BY <1>4, <2>1, SumOfNext
  <2>6. QED
    BY <2>2, <2>4, <2>5
<1> HIDE DEF z
<1>6. R \in SUBSET T /\ SumFunctionOnSet(f, R) <= Most(R)
  BY <1>5
<1>7. z \in T /\ f[z] \in 0..k
  BY <1>5
<1>8. CASE z \in U
  <2>1. (S \cap U) \ {z} = R \cap U /\ z \in S \cap U
    BY <1>5, <1>8
  <2>2. Cardinality(R \cap U) = Cardinality(S \cap U) - 1
    BY <1>a, <2>1, FS_RemoveElement
  <2>3. \A n \in Nat : (n - 1) * k + k = n * k
    OBVIOUS
  <2>4. Most(R) + k = Most(S)
    BY <1>a, <2>2, <2>3
  <2>5. Most(R) \in Nat /\ SumFunctionOnSet(f, R) \in Nat
    <3>1. Cardinality(R \cap U) \in Nat /\ SumFunctionOnSet(f, R) \in Nat
      BY <1>a, <1>6
    <3>2. \A n \in Nat : n * k \in Nat
      OBVIOUS
    <3>3. QED
      BY <3>1, <3>2
  <2>6. SumFunctionOnSet(f, S) <= Most(S)
    <3> HIDE DEF Most, R
    <3>1. QED
      BY <1>5, <1>6, <1>7, <2>4, <2>5
  <2>7. QED
    BY <1>3, <2>6
<1>9. CASE z \notin U
  <2>1. R \cap U = S \cap U
    BY <1>9
  <2>2. f[z] = 0
    BY <1>7, <1>9
  <2>3. SumFunctionOnSet(f, R) \in Nat
    BY <1>a, <1>6
  <2>4. Most(R) = Most(S)
    BY <2>1
  <2> HIDE DEF Most, R
  <2>5. SumFunctionOnSet(f, S) <= Most(S)
    BY <1>5, <1>6, <2>2, <2>3, <2>4
  <2>6. QED
    BY <1>3, <2>5
<1>10. QED
  BY <1>8, <1>9

\* A sum of smaller values is smaller.
THEOREM SumIsMonotone ==
  ASSUME NEW T, IsFiniteSet(T), NEW f, NEW g,
         \A x \in T : f[x] \in Nat /\ g[x] \in Nat /\ f[x] <= g[x]
  PROVE  SumFunctionOnSet(f, T) <= SumFunctionOnSet(g, T)
<1> DEFINE bad == {S \in SUBSET T : ~(SumFunctionOnSet(f, S) <= SumFunctionOnSet(g, S))}
<1>a. \A S \in SUBSET T : /\ IsFiniteSet(S)
                          /\ SumFunctionOnSet(f, S) \in Nat /\ SumFunctionOnSet(g, S) \in Nat
  BY FS_Subset, SumOfNaturals
<1>1. SUFFICES ASSUME bad # {}
               PROVE  FALSE
  BY <1>1
<1>2. \A S \in bad : IsFiniteSet(S)
  BY <1>a
<1>3. PICK S \in bad : \A R \in bad : ~(Cardinality(R) < Cardinality(S))
  BY <1>1, <1>2, LeastSet
<1>4. S # {}
  BY <1>3, SumOfNone
<1> DEFINE z == Some(S)
           R == S \ {z}
<1>5. /\ z \in S /\ R \notin bad
      /\ SumFunctionOnSet(f, S) = f[z] + SumFunctionOnSet(f, R)
      /\ SumFunctionOnSet(g, S) = g[z] + SumFunctionOnSet(g, R)
  <2>1. IsFiniteSet(S)
    BY <1>2
  <2>2. z \in S /\ Cardinality(S) \in Nat /\ Cardinality(R) = Cardinality(S) - 1
    BY <1>4, <2>1, NextElement
  <2>3. Cardinality(R) < Cardinality(S)
    BY <2>2
  <2>4. R \notin bad
    <3> HIDE DEF bad, R
    <3>1. QED
      BY <1>3, <2>3
  <2>5. SumFunctionOnSet(f, S) = f[z] + SumFunctionOnSet(f, R)
    BY <1>4, <2>1, SumOfNext
  <2>6. SumFunctionOnSet(g, S) = g[z] + SumFunctionOnSet(g, R)
    BY <1>4, <2>1, SumOfNext
  <2>7. QED
    BY <2>2, <2>4, <2>5, <2>6
<1> HIDE DEF z
<1>6. R \in SUBSET T /\ SumFunctionOnSet(f, R) <= SumFunctionOnSet(g, R)
  BY <1>5
<1>7. f[z] \in Nat /\ g[z] \in Nat /\ f[z] <= g[z]
  BY <1>5
<1>8. SumFunctionOnSet(f, R) \in Nat /\ SumFunctionOnSet(g, R) \in Nat
  BY <1>6, <1>a
<1> HIDE DEF R
<1>9. SumFunctionOnSet(f, S) <= SumFunctionOnSet(g, S)
  BY <1>5, <1>6, <1>7, <1>8
<1>10. QED
  BY <1>3, <1>9
==============================================================================

--------------------------- MODULE FiniteSetFacts ---------------------------
(***************************************************************************)
(* Facts about the size, the maximum and the sum of a finite set, which    *)
(* the proofs of several components need.  Induction over a finite set is  *)
(* done here by taking a least counterexample.                             *)
(***************************************************************************)
EXTENDS Integers, FiniteSetsExt, FiniteSetTheorems, WellFoundedInduction, TLAPS

(* Every non-empty collection of subsets of a finite set has a least one.  *)
LEMMA LeastSubset ==
    ASSUME NEW S, IsFiniteSet(S), NEW F, F \subseteq SUBSET S, F # {}
    PROVE  \E T \in F : \A U \in F : U \subseteq T => U = T
<1>1. IsWellFoundedOn(StrictSubsetOrdering(S), FiniteSubsetsOf(S))
  BY FS_StrictSubsetOrderingWellFounded
<1>2. F \subseteq FiniteSubsetsOf(S)
  BY FS_Subset DEF FiniteSubsetsOf
<1>3. PICK T \in F : \A U \in F : ~(<<U, T>> \in StrictSubsetOrdering(S))
  BY <1>1, <1>2, WFMin
<1>4. \A U \in F : U \subseteq T => U = T
  BY <1>3 DEF StrictSubsetOrdering
<1> QED
  BY <1>4

(* The subsets that have, for every element of S, one at least as large.   *)
Dominating(S) == {T \in SUBSET S : T # {} /\ \A x \in S : \E y \in T : x <= y}

LEMMA MaxOfFinite ==
    ASSUME NEW S, S \subseteq Int, IsFiniteSet(S), S # {}
    PROVE  Max(S) \in S /\ \A x \in S : x <= Max(S)
<1>1. Dominating(S) # {} /\ Dominating(S) \subseteq SUBSET S
  <2>1. S \in Dominating(S)
    BY DEF Dominating
  <2> QED
    BY <2>1 DEF Dominating
<1>2. PICK T \in Dominating(S) : \A U \in Dominating(S) : U \subseteq T => U = T
  BY <1>1, LeastSubset
<1>3. T \subseteq S /\ T # {} /\ \A x \in S : \E y \in T : x <= y
  BY DEF Dominating
<1>4. PICK m \in T : TRUE
  BY <1>3
<1>5. \A x \in T : x <= m
  <2> SUFFICES ASSUME NEW x \in T, ~(x <= m)
               PROVE  FALSE
    OBVIOUS
  <2>1. x \in T \ {m} /\ T \subseteq Int /\ m < x
    BY <1>3
  <2>2. ASSUME NEW z \in S
        PROVE  \E y \in T \ {m} : z <= y
    <3>1. PICK y \in T : z <= y
      BY <1>3
    <3> QED
      BY <3>1, <2>1
  <2>3. T \ {m} \in Dominating(S)
    BY <1>3, <2>1, <2>2 DEF Dominating
  <2> QED
    BY <2>3, <1>2
<1>6. m \in S /\ \A x \in S : m >= x
  BY <1>3, <1>4, <1>5
<1>7. \E k \in S : \A x \in S : k >= x
  BY <1>6
<1> QED
  BY <1>7 DEF Max

(* Two subsets of a finite set that differ at most in r.                   *)
LEMMA OneApart ==
    ASSUME NEW U, IsFiniteSet(U), NEW S \in SUBSET U, NEW T \in SUBSET U, NEW r,
           S \ {r} = T \ {r}
    PROVE  /\ Cardinality(S) \in Nat /\ Cardinality(T) \in Nat
           /\ (r \in S <=> r \in T) => T = S
           /\ r \notin S /\ r \in T => Cardinality(T) = Cardinality(S) + 1
           /\ r \in S /\ r \notin T => Cardinality(T) = Cardinality(S) - 1
<1>1. IsFiniteSet(S) /\ IsFiniteSet(T)
  BY FS_Subset
<1>2. Cardinality(S) \in Nat /\ Cardinality(T) \in Nat
  BY <1>1, FS_CardinalityType
<1>3. ASSUME r \notin S, r \in T
      PROVE  Cardinality(T) = Cardinality(S) + 1
  <2>1. T = S \cup {r}
    BY <1>3
  <2>2. Cardinality(S \cup {r}) = Cardinality(S) + 1
    BY <1>1, <1>3, FS_AddElement
  <2> QED
    BY <2>1, <2>2
<1>4. ASSUME r \in S, r \notin T
      PROVE  Cardinality(T) = Cardinality(S) - 1
  <2>1. T = S \ {r}
    BY <1>4
  <2>2. Cardinality(S \ {r}) = Cardinality(S) - 1
    BY <1>1, <1>4, FS_RemoveElement
  <2> QED
    BY <2>1, <2>2
<1>5. (r \in S <=> r \in T) => T = S
  OBVIOUS
<1> QED
  BY <1>2, <1>3, <1>4, <1>5

(* Two disjoint subsets of a finite set that leave r out.                  *)
LEMMA DisjointPair ==
    ASSUME NEW U, IsFiniteSet(U), NEW S \in SUBSET U, NEW T \in SUBSET U,
           S \cap T = {}, NEW r \in U, r \notin S, r \notin T
    PROVE  Cardinality(S) + Cardinality(T) + 1 <= Cardinality(U)
<1>1. IsFiniteSet(S) /\ IsFiniteSet(T) /\ IsFiniteSet(S \cup T)
  BY FS_Subset
<1>2. /\ Cardinality(S) \in Nat /\ Cardinality(T) \in Nat
      /\ Cardinality(U) \in Nat /\ Cardinality(S \cup T) \in Nat
  BY <1>1, FS_CardinalityType
<1>3. Cardinality(S \cup T) = Cardinality(S) + Cardinality(T) - Cardinality(S \cap T)
  BY <1>1, FS_Union
<1>4. Cardinality(S \cap T) = 0
  BY FS_EmptySet
<1>5. (S \cup T) \cup {r} \subseteq U /\ r \notin S \cup T
  OBVIOUS
<1>6. Cardinality((S \cup T) \cup {r}) = Cardinality(S \cup T) + 1
  BY <1>1, <1>5, FS_AddElement
<1>7. Cardinality((S \cup T) \cup {r}) <= Cardinality(U)
  BY <1>5, FS_Subset
<1> QED
  BY <1>2, <1>3, <1>4, <1>6, <1>7

-----------------------------------------------------------------------------
(* The sum of g over a finite set, as MapThenSumSet computes it: by a      *)
(* recursive function on the subsets, which removes chosen elements.       *)
Total(g, S) == MapThenSumSet(LAMBDA x : g[x], S)

First(T) == CHOOSE x \in T : TRUE

IsSum(g, S, f) ==
    f = [T \in SUBSET S |-> IF T = {} THEN 0 ELSE g[First(T)] + f[T \ {First(T)}]]

SumOf(g, S) == CHOOSE f : IsSum(g, S, f)

LEMMA FirstIn ==
    ASSUME NEW T, T # {}
    PROVE  First(T) \in T /\ T \ {First(T)} \subseteq T /\ T \ {First(T)} # T
  BY DEF First

LEMMA IsSumAt ==
    ASSUME NEW g, NEW S, NEW f, IsSum(g, S, f), NEW T \in SUBSET S
    PROVE  f[T] = IF T = {} THEN 0 ELSE g[First(T)] + f[T \ {First(T)}]
  BY DEF IsSum

(* Two such functions agree where both are defined.                        *)
LEMMA SumUnique ==
    ASSUME NEW g, NEW S, IsFiniteSet(S), NEW T \in SUBSET S,
           NEW f, IsSum(g, S, f), NEW h, IsSum(g, T, h)
    PROVE  \A U \in SUBSET T : f[U] = h[U]
<1> DEFINE Differ == {U \in SUBSET T : f[U] # h[U]}
<1> SUFFICES ASSUME Differ # {}
             PROVE  FALSE
  OBVIOUS
<1>1. IsFiniteSet(T)
  BY FS_Subset
<1>2. PICK U \in Differ : \A V \in Differ : V \subseteq U => V = U
  <2>1. Differ \subseteq SUBSET T
    OBVIOUS
  <2> HIDE DEF Differ
  <2> QED
    BY <1>1, <2>1, LeastSubset
<1>3. U \in SUBSET S /\ U \in SUBSET T /\ f[U] # h[U]
  OBVIOUS
<1>4. /\ f[U] = IF U = {} THEN 0 ELSE g[First(U)] + f[U \ {First(U)}]
      /\ h[U] = IF U = {} THEN 0 ELSE g[First(U)] + h[U \ {First(U)}]
  <2> HIDE DEF Differ
  <2>1. f[U] = IF U = {} THEN 0 ELSE g[First(U)] + f[U \ {First(U)}]
    BY <1>3, IsSumAt
  <2>2. h[U] = IF U = {} THEN 0 ELSE g[First(U)] + h[U \ {First(U)}]
    BY <1>3, IsSumAt
  <2> QED
    BY <2>1, <2>2
<1>5. U # {} /\ f[U \ {First(U)}] # h[U \ {First(U)}]
  BY <1>3, <1>4
<1>6. U \ {First(U)} \in Differ
  BY <1>3, <1>5
<1> QED
  BY <1>2, <1>5, <1>6, FirstIn

LEMMA SumExists ==
    ASSUME NEW g, NEW S, IsFiniteSet(S)
    PROVE  IsSum(g, S, SumOf(g, S))
<1> DEFINE Without == {T \in SUBSET S : ~IsSum(g, T, SumOf(g, T))}
<1> SUFFICES ASSUME Without # {}
             PROVE  FALSE
  OBVIOUS
<1>1. PICK T \in Without : \A U \in Without : U \subseteq T => U = T
  <2>1. Without \subseteq SUBSET S
    OBVIOUS
  <2> HIDE DEF Without
  <2> QED
    BY <2>1, LeastSubset
<1>2. T \in SUBSET S /\ ~IsSum(g, T, SumOf(g, T))
  OBVIOUS
<1>3. \A U \in SUBSET T : U # T => IsSum(g, U, SumOf(g, U))
  BY <1>1, <1>2
<1> DEFINE Best(U) == SumOf(g, U)[U]
           f == [U \in SUBSET T |-> IF U = {} THEN 0
                                    ELSE g[First(U)] + Best(U \ {First(U)})]
<1>4. ASSUME NEW U \in SUBSET T, U # T
      PROVE  f[U] = Best(U)
  <2>1. IsSum(g, U, SumOf(g, U)) /\ U \in SUBSET U
    BY <1>3, <1>4
  <2>2. Best(U) = IF U = {} THEN 0
                  ELSE g[First(U)] + SumOf(g, U)[U \ {First(U)}]
    BY <2>1, IsSumAt
  <2>3. CASE U = {}
    BY <2>2, <2>3
  <2>4. CASE U # {}
    <3> DEFINE V == U \ {First(U)}
    <3>1. V \in SUBSET U /\ V # T /\ V \in SUBSET T
      BY <1>4, <2>4, FirstIn
    <3>2. IsSum(g, V, SumOf(g, V))
      BY <1>3, <3>1
    <3>3. IsFiniteSet(U)
      BY <1>2, FS_Subset
    <3>4. SumOf(g, U)[V] = SumOf(g, V)[V]
      BY <2>1, <3>1, <3>2, <3>3, SumUnique
    <3> QED
      BY <2>2, <2>4, <3>4
  <2> QED
    BY <2>3, <2>4
<1>5. IsSum(g, T, f)
  <2>1. ASSUME NEW U \in SUBSET T, U # {}
        PROVE  f[U \ {First(U)}] = Best(U \ {First(U)})
    <3>1. U \ {First(U)} \in SUBSET T /\ U \ {First(U)} # T
      BY <2>1, FirstIn
    <3> QED
      BY <1>4, <3>1
  <2> HIDE DEF Best
  <2>2. f = [U \in SUBSET T |-> IF U = {} THEN 0
                                ELSE g[First(U)] + f[U \ {First(U)}]]
    BY <2>1
  <2> QED
    BY <2>2 DEF IsSum
<1>6. IsSum(g, T, SumOf(g, T))
  BY <1>5 DEF SumOf
<1> QED
  BY <1>2, <1>6

LEMMA TotalIs ==
    ASSUME NEW g, NEW S
    PROVE  Total(g, S) = SumOf(g, S)[S]
  BY DEF Total, MapThenSumSet, MapThenFoldSet, IsSum, SumOf, First

LEMMA TotalEmpty ==
    ASSUME NEW g
    PROVE  Total(g, {}) = 0
<1>1. IsSum(g, {}, SumOf(g, {}))
  BY SumExists, FS_EmptySet
<1> QED
  BY <1>1, IsSumAt, TotalIs

LEMMA TotalFirst ==
    ASSUME NEW g, NEW S, IsFiniteSet(S), S # {}
    PROVE  Total(g, S) = g[First(S)] + Total(g, S \ {First(S)})
<1> DEFINE R == S \ {First(S)}
<1>1. R \in SUBSET S /\ IsFiniteSet(R)
  BY FS_Subset
<1>2. IsSum(g, S, SumOf(g, S)) /\ IsSum(g, R, SumOf(g, R))
  BY <1>1, SumExists
<1>3. SumOf(g, S)[R] = SumOf(g, R)[R]
  <2> HIDE DEF R
  <2>1. PICK f : f = SumOf(g, S)
    OBVIOUS
  <2>2. PICK h : h = SumOf(g, R)
    OBVIOUS
  <2>3. IsSum(g, S, f) /\ IsSum(g, R, h) /\ R \in SUBSET S
    BY <1>1, <1>2, <2>1, <2>2
  <2>4. \A U \in SUBSET R : f[U] = h[U]
    <3>1. PICK T : T = R
      OBVIOUS
    <3>2. IsSum(g, S, f) /\ IsSum(g, T, h) /\ T \in SUBSET S
      BY <2>3, <3>1
    <3>3. \A U \in SUBSET T : f[U] = h[U]
      BY <3>2, SumUnique, Z3
    <3> QED
      BY <3>1, <3>3
  <2> QED
    BY <2>1, <2>2, <2>4
<1>4. SumOf(g, S)[S] = g[First(S)] + SumOf(g, S)[R]
  BY <1>2, IsSumAt
<1> QED
  BY <1>3, <1>4, TotalIs

LEMMA TotalType ==
    ASSUME NEW S, IsFiniteSet(S), NEW g, \A x \in S : g[x] \in Int
    PROVE  Total(g, S) \in Int
<1> DEFINE Bad == {T \in SUBSET S : Total(g, T) \notin Int}
<1> SUFFICES ASSUME Bad # {}
             PROVE  FALSE
  OBVIOUS
<1>1. PICK T \in Bad : \A U \in Bad : U \subseteq T => U = T
  <2>1. Bad \subseteq SUBSET S
    OBVIOUS
  <2> HIDE DEF Bad
  <2> QED
    BY <2>1, LeastSubset
<1>2. T # {}
  BY TotalEmpty
<1>3. Total(g, T \ {First(T)}) \in Int /\ First(T) \in S
  BY <1>1, <1>2, FirstIn
<1>4. Total(g, T) = g[First(T)] + Total(g, T \ {First(T)})
  BY <1>2, TotalFirst, FS_Subset
<1> QED
  BY <1>3, <1>4

(* Any element may be taken out of a sum, not only the chosen one.         *)
LEMMA TotalWithout ==
    ASSUME NEW S, IsFiniteSet(S), NEW g, \A x \in S : g[x] \in Int, NEW e \in S
    PROVE  Total(g, S) = g[e] + Total(g, S \ {e})
<1> DEFINE Bad == {T \in SUBSET S : \E x \in T :
                                      Total(g, T) # g[x] + Total(g, T \ {x})}
<1> SUFFICES ASSUME Bad # {}
             PROVE  FALSE
  OBVIOUS
<1>1. PICK T \in Bad : \A U \in Bad : U \subseteq T => U = T
  <2>1. Bad \subseteq SUBSET S
    OBVIOUS
  <2> HIDE DEF Bad
  <2> QED
    BY <2>1, LeastSubset
<1>2. PICK x \in T : Total(g, T) # g[x] + Total(g, T \ {x})
  OBVIOUS
<1> DEFINE c == First(T)
<1>3. c \in T /\ IsFiniteSet(T) /\ T \in SUBSET S
  BY <1>2, FirstIn, FS_Subset
<1>4. Total(g, T) = g[c] + Total(g, T \ {c})
  BY <1>3, TotalFirst
<1>5. c # x
  BY <1>2, <1>4
<1>6. T \ {c} \notin Bad /\ T \ {x} \notin Bad
  BY <1>1, <1>3
<1>7. /\ Total(g, T \ {c}) = g[x] + Total(g, (T \ {c}) \ {x})
      /\ Total(g, T \ {x}) = g[c] + Total(g, (T \ {x}) \ {c})
  <2>1. x \in T \ {c} /\ c \in T \ {x}
    BY <1>3, <1>5
  <2>2. T \ {c} \in SUBSET S /\ T \ {x} \in SUBSET S
    BY <1>3
  <2> HIDE DEF c
  <2> QED
    BY <1>6, <2>1, <2>2
<1>8. (T \ {c}) \ {x} = (T \ {x}) \ {c}
  OBVIOUS
<1>9. Total(g, (T \ {x}) \ {c}) \in Int
  <2>1. (T \ {x}) \ {c} \in SUBSET S /\ IsFiniteSet((T \ {x}) \ {c})
    BY FS_Subset
  <2> QED
    BY <2>1, TotalType
<1>10. g[x] \in Int /\ g[c] \in Int
  BY <1>3
<1>11. Total(g, T) = g[c] + (g[x] + Total(g, (T \ {x}) \ {c}))
  BY <1>4, <1>7, <1>8
<1>12. g[x] + Total(g, T \ {x}) = g[x] + (g[c] + Total(g, (T \ {x}) \ {c}))
  BY <1>7
<1>13. \A a, b, d \in Int : a + (b + d) = b + (a + d)
  OBVIOUS
<1>14. Total(g, T) = g[x] + Total(g, T \ {x})
  <2> HIDE DEF c
  <2> QED
    BY <1>9, <1>10, <1>11, <1>12, <1>13
<1> QED
  BY <1>2, <1>14

LEMMA TotalWith ==
    ASSUME NEW S, IsFiniteSet(S), NEW g, NEW e, e \notin S,
           \A x \in S \cup {e} : g[x] \in Int
    PROVE  Total(g, S \cup {e}) = g[e] + Total(g, S)
<1>1. IsFiniteSet(S \cup {e}) /\ (S \cup {e}) \ {e} = S
  BY FS_AddElement
<1> QED
  BY <1>1, TotalWithout

LEMMA TotalSame ==
    ASSUME NEW S, IsFiniteSet(S), NEW g, NEW h, \A x \in S : g[x] = h[x]
    PROVE  Total(g, S) = Total(h, S)
<1> DEFINE Bad == {T \in SUBSET S : Total(g, T) # Total(h, T)}
<1> SUFFICES ASSUME Bad # {}
             PROVE  FALSE
  OBVIOUS
<1>1. PICK T \in Bad : \A U \in Bad : U \subseteq T => U = T
  <2>1. Bad \subseteq SUBSET S
    OBVIOUS
  <2> HIDE DEF Bad
  <2> QED
    BY <2>1, LeastSubset
<1>2. T # {}
  BY TotalEmpty
<1>3. Total(g, T \ {First(T)}) = Total(h, T \ {First(T)}) /\ First(T) \in S
  BY <1>1, <1>2, FirstIn
<1>4. /\ Total(g, T) = g[First(T)] + Total(g, T \ {First(T)})
      /\ Total(h, T) = h[First(T)] + Total(h, T \ {First(T)})
  BY <1>2, TotalFirst, FS_Subset
<1> QED
  BY <1>3, <1>4

(* A sum where one element's value changes.                                *)
LEMMA TotalChange ==
    ASSUME NEW S, IsFiniteSet(S), NEW g, NEW h, NEW e \in S,
           \A x \in S : g[x] \in Int /\ h[x] \in Int,
           \A x \in S \ {e} : g[x] = h[x]
    PROVE  /\ Total(g, S) \in Int
           /\ Total(h, S) = Total(g, S) + h[e] - g[e]
<1>1. IsFiniteSet(S \ {e})
  BY FS_Subset
<1>2. Total(g, S \ {e}) = Total(h, S \ {e}) /\ Total(g, S \ {e}) \in Int
  BY <1>1, TotalSame, TotalType
<1>3. /\ Total(g, S) = g[e] + Total(g, S \ {e})
      /\ Total(h, S) = h[e] + Total(h, S \ {e})
  BY TotalWithout
<1> QED
  BY <1>2, <1>3

Changed(g, e, v) == [g EXCEPT ![e] = v]

LEMMA TotalChanged ==
    ASSUME NEW S, IsFiniteSet(S), NEW g \in [S -> Int], NEW e \in S, NEW v \in Int
    PROVE  /\ Total(g, S) \in Int
           /\ Changed(g, e, v) \in [S -> Int]
           /\ Total(Changed(g, e, v), S) = Total(g, S) + (v - g[e])
<1> DEFINE k == [g EXCEPT ![e] = v]
<1>1. PICK h \in [S -> Int] : h = k
  OBVIOUS
<1>2. h[e] = v /\ \A x \in S \ {e} : g[x] = h[x]
  BY <1>1
<1>3. \A x \in S : g[x] \in Int /\ h[x] \in Int
  OBVIOUS
<1> HIDE DEF k
<1>4. Total(g, S) \in Int /\ Total(h, S) = Total(g, S) + h[e] - g[e]
  BY <1>2, <1>3, TotalChange
<1>5. Total(k, S) = Total(g, S) + v - g[e]
  BY <1>1, <1>2, <1>4
<1> QED
  BY <1>4, <1>5 DEF k, Changed

LEMMA TotalConstant ==
    ASSUME NEW S, IsFiniteSet(S), NEW v \in Int, NEW g, \A x \in S : g[x] = v
    PROVE  Total(g, S) = Cardinality(S) * v
<1> DEFINE Bad == {T \in SUBSET S : Total(g, T) # Cardinality(T) * v}
<1> SUFFICES ASSUME Bad # {}
             PROVE  FALSE
  OBVIOUS
<1>1. PICK T \in Bad : \A U \in Bad : U \subseteq T => U = T
  <2>1. Bad \subseteq SUBSET S
    OBVIOUS
  <2> HIDE DEF Bad
  <2> QED
    BY <2>1, LeastSubset
<1>2. T # {}
  <2>1. Total(g, {}) = 0
    BY TotalEmpty
  <2>2. Cardinality({}) = 0
    BY FS_EmptySet
  <2>3. 0 * v = 0
    OBVIOUS
  <2>4. Total(g, T) # Cardinality(T) * v
    BY <1>1
  <2> QED
    BY <2>1, <2>2, <2>3, <2>4
<1> DEFINE R == T \ {First(T)}
<1>3. /\ R \notin Bad /\ R \in SUBSET S /\ First(T) \in T
      /\ IsFiniteSet(T)
  BY <1>1, <1>2, FirstIn, FS_Subset
<1>4. Total(g, T) = v + Total(g, R)
  BY <1>2, <1>3, TotalFirst
<1>5. Total(g, R) = Cardinality(R) * v
  BY <1>3
<1>6. Cardinality(R) = Cardinality(T) - 1 /\ Cardinality(T) \in Nat
  BY <1>3, FS_RemoveElement, FS_CardinalityType
<1>7. \A n \in Nat : v + (n - 1) * v = n * v
  OBVIOUS
<1>8. Total(g, T) = Cardinality(T) * v
  BY <1>4, <1>5, <1>6, <1>7
<1> QED
  BY <1>8

LEMMA TotalZero ==
    ASSUME NEW S, IsFiniteSet(S), NEW g, \A x \in S : g[x] = 0
    PROVE  Total(g, S) = 0
<1>1. Total(g, S) = Cardinality(S) * 0 /\ Cardinality(S) \in Nat
  BY TotalConstant, FS_CardinalityType
<1> QED
  BY <1>1

(* A sum whose terms are at most v.                                        *)
LEMMA TotalAtMost ==
    ASSUME NEW S, IsFiniteSet(S), NEW v \in Int, NEW g,
           \A x \in S : g[x] \in Int /\ g[x] <= v
    PROVE  Total(g, S) <= Cardinality(S) * v
<1> DEFINE Bad == {T \in SUBSET S : ~(Total(g, T) <= Cardinality(T) * v)}
<1> SUFFICES ASSUME Bad # {}
             PROVE  FALSE
  OBVIOUS
<1>1. PICK T \in Bad : \A U \in Bad : U \subseteq T => U = T
  <2>1. Bad \subseteq SUBSET S
    OBVIOUS
  <2> HIDE DEF Bad
  <2> QED
    BY <2>1, LeastSubset
<1>2. T # {}
  <2>1. Total(g, {}) = 0
    BY TotalEmpty
  <2>2. Cardinality({}) = 0
    BY FS_EmptySet
  <2>3. 0 <= 0 * v
    OBVIOUS
  <2>4. ~(Total(g, T) <= Cardinality(T) * v)
    BY <1>1
  <2> QED
    BY <2>1, <2>2, <2>3, <2>4
<1> DEFINE R == T \ {First(T)}
<1>3. /\ R \notin Bad /\ R \in SUBSET S /\ First(T) \in T
      /\ IsFiniteSet(T) /\ IsFiniteSet(R)
  BY <1>1, <1>2, FirstIn, FS_Subset
<1>4. Total(g, T) = g[First(T)] + Total(g, R)
  BY <1>2, <1>3, TotalFirst
<1>5. Total(g, R) <= Cardinality(R) * v
  BY <1>3
<1>6. Cardinality(R) = Cardinality(T) - 1 /\ Cardinality(T) \in Nat
  BY <1>3, FS_RemoveElement, FS_CardinalityType
<1>7. Total(g, R) \in Int /\ g[First(T)] \in Int /\ g[First(T)] <= v
  BY <1>3, TotalType
<1>8. \A n \in Nat, a, b \in Int : a <= v /\ b <= (n - 1) * v => a + b <= n * v
  OBVIOUS
<1>9. PICK n \in Nat, a \in Int, b \in Int :
          n = Cardinality(T) /\ a = g[First(T)] /\ b = Total(g, R)
  BY <1>6, <1>7
<1>10. b <= (n - 1) * v /\ a <= v
  BY <1>5, <1>6, <1>7, <1>9
<1>11. a + b <= n * v
  BY <1>8, <1>10
<1>12. Total(g, T) <= Cardinality(T) * v
  BY <1>4, <1>9, <1>11
<1> QED
  BY <1>1, <1>12

LEMMA TotalNat ==
    ASSUME NEW S, IsFiniteSet(S), NEW g, \A x \in S : g[x] \in Nat
    PROVE  Total(g, S) \in Nat
<1> DEFINE Bad == {T \in SUBSET S : Total(g, T) \notin Nat}
<1> SUFFICES ASSUME Bad # {}
             PROVE  FALSE
  OBVIOUS
<1>1. PICK T \in Bad : \A U \in Bad : U \subseteq T => U = T
  <2>1. Bad \subseteq SUBSET S
    OBVIOUS
  <2> HIDE DEF Bad
  <2> QED
    BY <2>1, LeastSubset
<1>2. T # {}
  <2>1. Total(g, T) \notin Nat /\ Total(g, {}) = 0
    BY <1>1, TotalEmpty
  <2>2. 0 \in Nat
    OBVIOUS
  <2> QED
    BY <2>1, <2>2
<1> DEFINE R == T \ {First(T)}
<1>3. /\ R \notin Bad /\ R \in SUBSET S /\ First(T) \in T
      /\ IsFiniteSet(T)
  BY <1>1, <1>2, FirstIn, FS_Subset
<1>4. Total(g, T) = g[First(T)] + Total(g, R)
  BY <1>2, <1>3, TotalFirst
<1>5. Total(g, R) \in Nat /\ g[First(T)] \in Nat
  BY <1>3
<1>6. Total(g, T) \in Nat
  BY <1>4, <1>5
<1> QED
  BY <1>1, <1>6

(* The sum over two sets that have nothing in common.                      *)
LEMMA TotalUnion ==
    ASSUME NEW S, IsFiniteSet(S), NEW V, IsFiniteSet(V), S \cap V = {}, NEW g,
           \A x \in S \cup V : g[x] \in Int
    PROVE  Total(g, S \cup V) = Total(g, S) + Total(g, V)
<1> DEFINE Bad == {T \in SUBSET V : Total(g, S \cup T) # Total(g, S) + Total(g, T)}
<1> SUFFICES ASSUME Bad # {}
             PROVE  FALSE
  OBVIOUS
<1>1. PICK T \in Bad : \A U \in Bad : U \subseteq T => U = T
  <2>1. Bad \subseteq SUBSET V
    OBVIOUS
  <2> HIDE DEF Bad
  <2> QED
    BY <2>1, LeastSubset
<1>2. T # {}
  <2>1. Total(g, {}) = 0 /\ S \cup {} = S
    BY TotalEmpty
  <2>2. Total(g, S) \in Int
    BY TotalType
  <2>3. Total(g, S \cup {}) = Total(g, S) + Total(g, {})
    BY <2>1, <2>2
  <2> QED
    BY <1>1, <2>3
<1>3. PICK e \in T : e = First(T)
  BY <1>2, FirstIn
<1> DEFINE R == T \ {e}
<1>4. /\ R \notin Bad /\ R \in SUBSET V /\ e \in V /\ e \notin S
      /\ IsFiniteSet(T) /\ IsFiniteSet(R)
  BY <1>1, <1>3, FS_Subset
<1>5. Total(g, S \cup R) = Total(g, S) + Total(g, R)
  BY <1>4
<1>6. Total(g, T) = g[e] + Total(g, R)
  BY <1>1, <1>4, TotalWithout
<1>7. Total(g, S \cup T) = g[e] + Total(g, S \cup R)
  <2>1. IsFiniteSet(S \cup T) /\ e \in S \cup T
    BY <1>4, FS_Union
  <2>2. \A x \in S \cup T : g[x] \in Int
    BY <1>1
  <2>3. (S \cup T) \ {e} = S \cup R
    BY <1>4
  <2>4. Total(g, S \cup T) = g[e] + Total(g, (S \cup T) \ {e})
    BY <2>1, <2>2, TotalWithout
  <2> QED
    BY <2>3, <2>4
<1>8. Total(g, S) \in Int /\ Total(g, R) \in Int /\ g[e] \in Int
  BY <1>4, TotalType
<1>9. Total(g, S \cup T) = Total(g, S) + Total(g, T)
  <2> HIDE DEF R
  <2> QED
    BY <1>5, <1>6, <1>7, <1>8
<1> QED
  BY <1>1, <1>9

(* The sum over the pairs that begin with t.                               *)
RowAt(t, S) == {t} \X S

LEMMA TotalOfRow ==
    ASSUME NEW S, IsFiniteSet(S), NEW t, NEW g, NEW h,
           \A x \in S : g[x] \in Int /\ h[<<t, x>>] = g[x]
    PROVE  Total(h, RowAt(t, S)) = Total(g, S)
<1> USE DEF RowAt
<1> DEFINE Bad == {T \in SUBSET S : Total(h, {t} \X T) # Total(g, T)}
<1> SUFFICES ASSUME Bad # {}
             PROVE  FALSE
  OBVIOUS
<1>1. PICK T \in Bad : \A U \in Bad : U \subseteq T => U = T
  <2>1. Bad \subseteq SUBSET S
    OBVIOUS
  <2> HIDE DEF Bad
  <2> QED
    BY <2>1, LeastSubset
<1>2. T # {}
  <2>1. {t} \X {} = {}
    OBVIOUS
  <2>2. Total(h, {}) = 0 /\ Total(g, {}) = 0
    BY TotalEmpty
  <2>3. Total(h, {t} \X T) # Total(g, T)
    BY <1>1
  <2> QED
    BY <2>1, <2>2, <2>3
<1>3. PICK e \in T : e = First(T)
  BY <1>2, FirstIn
<1> DEFINE R == T \ {e}
           p == <<t, e>>
<1>4. /\ R \notin Bad /\ R \in SUBSET S /\ e \in S
      /\ IsFiniteSet(T)
  BY <1>1, <1>3, FS_Subset
<1>5. Total(h, {t} \X R) = Total(g, R)
  BY <1>4
<1>6. Total(g, T) = g[e] + Total(g, R)
  BY <1>1, <1>4, TotalWithout
<1>7. Total(h, {t} \X T) = h[p] + Total(h, {t} \X R)
  <2>1. p \in {t} \X T /\ ({t} \X T) \ {p} = {t} \X R
    BY <1>4
  <2>2. IsFiniteSet({t} \X T)
    BY <1>4, FS_Product, FS_Singleton
  <2>3. \A x \in {t} \X T : h[x] \in Int
    BY <1>1
  <2>4. PICK U : U = {t} \X T
    OBVIOUS
  <2>5. Total(h, U) = h[p] + Total(h, U \ {p})
    BY <2>1, <2>2, <2>3, <2>4, TotalWithout
  <2> QED
    BY <2>1, <2>4, <2>5
<1>8. h[p] = g[e]
  BY <1>4
<1>9. Total(h, {t} \X T) = Total(g, T)
  BY <1>5, <1>6, <1>7, <1>8
<1> QED
  BY <1>1, <1>9
=============================================================================

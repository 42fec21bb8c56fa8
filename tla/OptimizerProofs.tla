--------------------------- MODULE OptimizerProofs --------------------------
(***************************************************************************)
(* For any funds, any bounds and any point the solver may return: the type *)
(* invariant, the size of the shortfall the rounding hands out, and that   *)
(* whole-percent bounds which pin no fund are rounded to a whole.          *)
(***************************************************************************)
EXTENDS Optimizer, EnumerationProofs

----------------------------------------------------------------------------
(* Induction, stated with sets of sets.                                    *)

(* A set without one of its elements is smaller by one.                    *)
LEMMA Removed ==
    ASSUME NEW s, IsFiniteSet(s), NEW a \in s, NEW n \in Int, Cardinality(s) = n + 1
    PROVE  Cardinality(s \ {a}) = n
<1>1. Cardinality(s \ {a}) = Cardinality(s) - 1
  BY FS_RemoveElement
<1> QED
  BY <1>1

(* A set of subsets of S with {}, closed under adding an element of S, has *)
(* S.                                                                      *)
LEMMA InductiveSubsets ==
    ASSUME NEW S, IsFiniteSet(S), NEW T, {} \in T,
           \A s \in SUBSET S, a \in S : s \in T /\ a \notin s => s \cup {a} \in T
    PROVE  S \in T
<1> DEFINE Sized == {n \in Nat : \A s \in SUBSET S : Cardinality(s) = n => s \in T}
<1>1. \A s \in SUBSET S : IsFiniteSet(s) /\ Cardinality(s) \in Nat
  BY FS_Subset, FS_CardinalityType
<1>2. 0 \in Sized
  BY <1>1, FS_EmptySet
<1>3. ASSUME NEW n \in Nat, n \in Sized PROVE n + 1 \in Sized
  <2> SUFFICES ASSUME NEW s \in SUBSET S, Cardinality(s) = n + 1 PROVE s \in T
    BY <1>3
  <2>1. s # {}
    BY FS_EmptySet, n + 1 # 0
  <2>2. PICK a \in s : TRUE
    BY <2>1
  <2>3. Cardinality(s \ {a}) = n
    BY <1>1, <2>2, Removed
  <2>4. s \ {a} \in T
    BY <1>3, <2>3
  <2>5. s = (s \ {a}) \cup {a}
    BY <2>2
  <2> QED
    BY <2>2, <2>4, <2>5
<1>4. \A n \in Nat : n \in Sized
  <2> HIDE DEF Sized
  <2> QED
    BY <1>2, <1>3, InductiveNat
<1> QED
  BY <1>1, <1>4

----------------------------------------------------------------------------
(* What FoldFunction(+, 0, x) sums: iter[s] is the sum of x over s.        *)

Pick(s) == CHOOSE i \in s : TRUE

Unfold(x, g, t) == IF t = {} THEN 0 ELSE x[Pick(t)] + g[t \ {Pick(t)}]

Solves(x, g) == g = [t \in SUBSET DOMAIN x |-> Unfold(x, g, t)]

Iter(x) == CHOOSE g : Solves(x, g)

(* A sum is the iteration over the funds.                                  *)
LEMMA SumIsIter ==
    ASSUME NEW x
    PROVE  Sum(x) = Iter(x)[DOMAIN x]
  BY DEF Sum, FoldFunction, FoldFunctionOnSet, MapThenFoldSet, Iter, Solves, Pick, Unfold

(* The recursion has a solution: extend one for the subsets of at most n   *)
(* elements to those of n + 1.                                             *)
LEMMA IterExists ==
    ASSUME NEW D, IsFiniteSet(D), NEW x \in [D -> Int]
    PROVE  \E g \in [SUBSET D -> Int] : Solves(x, g)
<1> DEFINE Upto(n, g) == \A t \in SUBSET D : Cardinality(t) =< n => g[t] = Unfold(x, g, t)
           Solved == {n \in Nat : \E g \in [SUBSET D -> Int] : Upto(n, g)}
<1>1. \A t \in SUBSET D : /\ IsFiniteSet(t) /\ Cardinality(t) \in Nat
                          /\ Cardinality(t) =< Cardinality(D)
                          /\ t = {} <=> Cardinality(t) = 0
  BY FS_Subset, FS_CardinalityType, FS_EmptySet
<1>2. ASSUME NEW t \in SUBSET D, t # {}
      PROVE  /\ Pick(t) \in t /\ x[Pick(t)] \in Int
             /\ t \ {Pick(t)} \in SUBSET D
             /\ Cardinality(t \ {Pick(t)}) = Cardinality(t) - 1
  <2>1. Pick(t) \in t
    BY <1>2 DEF Pick
  <2>2. x[Pick(t)] \in Int
    BY <2>1
  <2> QED
    BY <2>1, <2>2, <1>1, FS_RemoveElement
<1>3. 0 \in Solved
  <2> DEFINE g == [t \in SUBSET D |-> 0]
  <2>1. Upto(0, g)
    BY <1>1 DEF Unfold
  <2>2. g \in [SUBSET D -> Int]
    OBVIOUS
  <2> HIDE DEF g, Upto
  <2> QED
    BY <2>1, <2>2
<1>4. ASSUME NEW n \in Nat, n \in Solved PROVE n + 1 \in Solved
  <2>1. PICK g \in [SUBSET D -> Int] : Upto(n, g)
    BY <1>4
  <2> DEFINE h == [t \in SUBSET D |-> IF Cardinality(t) =< n THEN g[t] ELSE Unfold(x, g, t)]
  <2>2. ASSUME NEW t \in SUBSET D PROVE Unfold(x, g, t) \in Int
    <3>1. CASE t = {}
      BY <3>1 DEF Unfold
    <3>2. CASE t # {}
      <4>1. x[Pick(t)] \in Int /\ g[t \ {Pick(t)}] \in Int
        BY <1>2, <3>2
      <4> QED
        BY <3>2, <4>1 DEF Unfold
    <3> QED
      BY <3>1, <3>2
  <2>3. h \in [SUBSET D -> Int]
    BY <2>2
  <2>4. ASSUME NEW t \in SUBSET D, Cardinality(t) =< n + 1
        PROVE  h[t] = Unfold(x, h, t)
    <3>1. h[t] = Unfold(x, g, t)
      BY <2>1
    <3>2. CASE t = {}
      BY <3>1, <3>2 DEF Unfold
    <3>3. CASE t # {}
      <4>1. Cardinality(t \ {Pick(t)}) =< n
        BY <1>1, <1>2, <2>4, <3>3
      <4>2. h[t \ {Pick(t)}] = g[t \ {Pick(t)}]
        BY <4>1, <1>2, <3>3
      <4> QED
        BY <3>1, <3>3, <4>2 DEF Unfold
    <3> QED
      BY <3>2, <3>3
  <2>5. Upto(n + 1, h)
    BY <2>4
  <2> HIDE DEF h, Upto
  <2> QED
    BY <2>3, <2>5
<1>5. Cardinality(D) \in Solved
  <2> HIDE DEF Solved
  <2> QED
    BY <1>1, <1>3, <1>4, InductiveNat, FS_CardinalityType
<1>6. PICK g \in [SUBSET D -> Int] : Upto(Cardinality(D), g)
  BY <1>5
<1>7. \A t \in SUBSET D : g[t] = Unfold(x, g, t)
  BY <1>1, <1>6
<1>8. g = [t \in SUBSET D |-> Unfold(x, g, t)]
  BY <1>7
<1> QED
  BY <1>8 DEF Solves

(* One element more is one summand more.                                   *)
LEMMA IterUnfolds ==
    ASSUME NEW D, IsFiniteSet(D), NEW x \in [D -> Int]
    PROVE  /\ Iter(x) \in [SUBSET D -> Int]
           /\ \A t \in SUBSET D : Iter(x)[t] = Unfold(x, Iter(x), t)
<1>1. \E g \in [SUBSET D -> Int] : Solves(x, g)
  BY IterExists
<1>2. DOMAIN x = D
  OBVIOUS
<1>3. Iter(x) = [t \in SUBSET D |-> Unfold(x, Iter(x), t)]
  <2>1. Solves(x, Iter(x))
    BY <1>1 DEF Iter
  <2> QED
    BY <1>2, <2>1 DEF Solves
<1>4. \A t \in SUBSET D : Iter(x)[t] = Unfold(x, Iter(x), t)
  BY <1>3
<1> DEFINE Same == {t \in SUBSET D : Iter(x)[t] \in Int}
           Sized == {n \in Nat : \A t \in SUBSET D : Cardinality(t) = n => t \in Same}
<1>5. \A t \in SUBSET D : /\ IsFiniteSet(t) /\ Cardinality(t) \in Nat
                          /\ t = {} <=> Cardinality(t) = 0
  BY FS_Subset, FS_CardinalityType, FS_EmptySet
<1>6. 0 \in Sized
  BY <1>4, <1>5 DEF Unfold
<1>7. ASSUME NEW n \in Nat, n \in Sized PROVE n + 1 \in Sized
  <2> SUFFICES ASSUME NEW t \in SUBSET D, Cardinality(t) = n + 1 PROVE Iter(x)[t] \in Int
    OBVIOUS
  <2>1. t # {} /\ Pick(t) \in t
    BY <1>5 DEF Pick
  <2>2. Cardinality(t \ {Pick(t)}) = n
    BY <1>5, <2>1, Removed
  <2>3. Iter(x)[t \ {Pick(t)}] \in Int /\ x[Pick(t)] \in Int
    BY <1>7, <2>1, <2>2
  <2> QED
    BY <1>4, <2>1, <2>3 DEF Unfold
<1>8. \A n \in Nat : n \in Sized
  <2> HIDE DEF Sized
  <2> QED
    BY <1>6, <1>7, InductiveNat
<1>9. \A t \in SUBSET D : Iter(x)[t] \in Int
  BY <1>5, <1>8
<1>10. DOMAIN Iter(x) = SUBSET D
  BY <1>3
<1> QED
  BY <1>3, <1>4, <1>9, <1>10

(* Whichever element is taken off, the rest sums to the rest.              *)
LEMMA IterRemoves ==
    ASSUME NEW D, IsFiniteSet(D), NEW x \in [D -> Int]
    PROVE  \A t \in SUBSET D : \A a \in t : Iter(x)[t] = x[a] + Iter(x)[t \ {a}]
<1> DEFINE g == Iter(x)
           Sized == {n \in Nat : \A t \in SUBSET D : Cardinality(t) = n =>
                                    \A a \in t : g[t] = x[a] + g[t \ {a}]}
<1>1. g \in [SUBSET D -> Int] /\ \A t \in SUBSET D : g[t] = Unfold(x, g, t)
  BY IterUnfolds
<1>2. \A t \in SUBSET D : /\ IsFiniteSet(t) /\ Cardinality(t) \in Nat
                          /\ t = {} <=> Cardinality(t) = 0
  BY FS_Subset, FS_CardinalityType, FS_EmptySet
<1> HIDE DEF g
<1>3. 0 \in Sized
  BY <1>2
<1>4. ASSUME NEW n \in Nat, n \in Sized PROVE n + 1 \in Sized
  <2> SUFFICES ASSUME NEW t \in SUBSET D, Cardinality(t) = n + 1, NEW a \in t
               PROVE  g[t] = x[a] + g[t \ {a}]
    OBVIOUS
  <2> DEFINE b == Pick(t)
  <2>1. b \in t
    BY DEF Pick
  <2> HIDE DEF b
  <2>2. g[t] = x[b] + g[t \ {b}]
    BY <1>1, <2>1 DEF Unfold, b
  <2>3. CASE a = b
    BY <2>2, <2>3
  <2>4. CASE a # b
    <3>1. Cardinality(t \ {a}) = n /\ Cardinality(t \ {b}) = n
      BY <1>2, <2>1, Removed
    <3>2. \A u \in SUBSET D : Cardinality(u) = n => \A c \in u : g[u] = x[c] + g[u \ {c}]
      BY <1>4
    <3> DEFINE rest == t \ {a, b}
    <3>3. rest \in SUBSET D /\ (t \ {b}) \ {a} = rest /\ (t \ {a}) \ {b} = rest
      OBVIOUS
    <3> HIDE DEF rest
    <3>4. g[t \ {b}] = x[a] + g[rest]
      BY <2>4, <3>1, <3>2, <3>3
    <3>5. g[t \ {a}] = x[b] + g[rest]
      BY <2>1, <2>4, <3>1, <3>2, <3>3
    <3>6. x[a] \in Int /\ x[b] \in Int /\ g[rest] \in Int
      BY <1>1, <2>1, <3>3
    <3>7. \A i, j, r \in Int : i + (j + r) = j + (i + r)
      OBVIOUS
    <3> QED
      BY <2>2, <3>4, <3>5, <3>6, <3>7
  <2> QED
    BY <2>3, <2>4
<1>5. \A n \in Nat : n \in Sized
  <2> HIDE DEF Sized
  <2> QED
    BY <1>3, <1>4, InductiveNat
<1> QED
  BY <1>2, <1>5 DEF g

(* A partial sum as the lemmas use it.                                     *)
LEMMA IterAdds ==
    ASSUME NEW D, IsFiniteSet(D), NEW x \in [D -> Int]
    PROVE  /\ Sum(x) = Iter(x)[D]
           /\ Iter(x)[{}] = 0
           /\ \A s \in SUBSET D : Iter(x)[s] \in Int
           /\ \A s \in SUBSET D, a \in D :
                 a \notin s => Iter(x)[s \cup {a}] = x[a] + Iter(x)[s]
<1>1. Sum(x) = Iter(x)[D]
  BY SumIsIter
<1>2. Iter(x)[{}] = 0 /\ \A s \in SUBSET D : Iter(x)[s] \in Int
  <2>1. Unfold(x, Iter(x), {}) = 0
    BY DEF Unfold
  <2>2. Iter(x)[{}] = Unfold(x, Iter(x), {})
    BY IterUnfolds
  <2>3. Iter(x) \in [SUBSET D -> Int]
    BY IterUnfolds
  <2>4. \A s \in SUBSET D : Iter(x)[s] \in Int
    BY ONLY <2>3
  <2> QED
    BY <2>1, <2>2, <2>4
<1>3. ASSUME NEW s \in SUBSET D, NEW a \in D, a \notin s
      PROVE  Iter(x)[s \cup {a}] = x[a] + Iter(x)[s]
  <2>1. s \cup {a} \in SUBSET D /\ a \in s \cup {a} /\ (s \cup {a}) \ {a} = s
    BY <1>3
  <2> QED
    BY <2>1, IterRemoves
<1> QED
  BY <1>1, <1>2, <1>3

----------------------------------------------------------------------------
(* Sums.                                                                   *)

(* Sums of integers are integers.                                          *)
LEMMA SumType ==
    ASSUME NEW D, IsFiniteSet(D), NEW x \in [D -> Int]
    PROVE  Sum(x) \in Int
BY IterAdds

(* The sum of a sum.                                                       *)
LEMMA SumAdds ==
    ASSUME NEW D, IsFiniteSet(D), NEW x \in [D -> Int], NEW y \in [D -> Int],
           NEW z \in [D -> Int], \A d \in D : z[d] = x[d] + y[d]
    PROVE  Sum(z) = Sum(x) + Sum(y)
<1> DEFINE T == {s \in SUBSET D : Iter(z)[s] = Iter(x)[s] + Iter(y)[s]}
<1>1. {} \in T
  BY IterAdds
<1>2. ASSUME NEW s \in SUBSET D, NEW a \in D, s \in T, a \notin s
      PROVE  s \cup {a} \in T
  <2>1. /\ Iter(x)[s \cup {a}] = x[a] + Iter(x)[s]
        /\ Iter(y)[s \cup {a}] = y[a] + Iter(y)[s]
        /\ Iter(z)[s \cup {a}] = z[a] + Iter(z)[s]
    BY <1>2, IterAdds
  <2>2. /\ Iter(x)[s] \in Int /\ Iter(y)[s] \in Int
        /\ x[a] \in Int /\ y[a] \in Int /\ z[a] = x[a] + y[a]
    BY IterAdds
  <2>3. Iter(z)[s \cup {a}] = Iter(x)[s \cup {a}] + Iter(y)[s \cup {a}]
    BY <1>2, <2>1, <2>2
  <2> QED
    BY <2>3
<1>3. D \in T
  <2> HIDE DEF T
  <2> QED
    BY <1>1, <1>2, InductiveSubsets
<1> QED
  BY <1>3, IterAdds

(* The sum of a multiple.                                                  *)
LEMMA SumScales ==
    ASSUME NEW D, IsFiniteSet(D), NEW c \in Int, NEW x \in [D -> Int],
           NEW z \in [D -> Int], \A d \in D : z[d] = c * x[d]
    PROVE  Sum(z) = c * Sum(x)
<1> DEFINE T == {s \in SUBSET D : Iter(z)[s] = c * Iter(x)[s]}
<1>1. {} \in T
  BY IterAdds
<1>2. ASSUME NEW s \in SUBSET D, NEW a \in D, s \in T, a \notin s
      PROVE  s \cup {a} \in T
  <2>1. /\ Iter(x)[s \cup {a}] = x[a] + Iter(x)[s]
        /\ Iter(z)[s \cup {a}] = z[a] + Iter(z)[s]
    BY <1>2, IterAdds
  <2>2. /\ Iter(x)[s] \in Int /\ x[a] \in Int /\ z[a] = c * x[a]
    BY IterAdds
  <2>3. \A p, q \in Int : c * (p + q) = c * p + c * q
    OBVIOUS
  <2>4. Iter(z)[s \cup {a}] = c * x[a] + c * Iter(x)[s]
    BY <1>2, <2>1, <2>2
  <2>5. Iter(z)[s \cup {a}] = c * Iter(x)[s \cup {a}]
    BY <2>1, <2>2, <2>3, <2>4
  <2> QED
    BY <2>5
<1>3. D \in T
  <2> HIDE DEF T
  <2> QED
    BY <1>1, <1>2, InductiveSubsets
<1> QED
  BY <1>3, IterAdds

(* Sums keep an order that holds at every point.                           *)
LEMMA SumKeepsOrder ==
    ASSUME NEW D, IsFiniteSet(D), NEW x \in [D -> Int], NEW y \in [D -> Int],
           \A d \in D : x[d] =< y[d]
    PROVE  Sum(x) =< Sum(y)
<1> DEFINE T == {s \in SUBSET D : Iter(x)[s] =< Iter(y)[s]}
<1>1. {} \in T
  BY IterAdds
<1>2. ASSUME NEW s \in SUBSET D, NEW a \in D, s \in T, a \notin s
      PROVE  s \cup {a} \in T
  <2>1. Iter(x)[s \cup {a}] = x[a] + Iter(x)[s] /\ Iter(x)[s] \in Int
    <3>1. a \notin s
      BY <1>2
    <3> QED
      BY ONLY <3>1, IterAdds, IsFiniteSet(D), x \in [D -> Int], s \in SUBSET D, a \in D
  <2>2. Iter(y)[s \cup {a}] = y[a] + Iter(y)[s] /\ Iter(y)[s] \in Int
    <3>1. a \notin s
      BY <1>2
    <3> QED
      BY ONLY <3>1, IterAdds, IsFiniteSet(D), y \in [D -> Int], s \in SUBSET D, a \in D
  <2>3. x[a] \in Int /\ y[a] \in Int /\ x[a] =< y[a]
    OBVIOUS
  <2>4. Iter(x)[s] =< Iter(y)[s]
    BY <1>2
  <2>5. Iter(x)[s \cup {a}] =< Iter(y)[s \cup {a}]
    BY <2>1, <2>2, <2>3, <2>4
  <2> QED
    BY <2>5
<1>3. D \in T
  <2> HIDE DEF T
  <2> QED
    BY <1>1, <1>2, InductiveSubsets
<1> QED
  BY <1>3, IterAdds

(* One for every member of B.                                              *)
Count(D, B) == [d \in D |-> IF d \in B THEN 1 ELSE 0]

(* A sum of ones and zeros counts the ones.                                *)
LEMMA SumCounts ==
    ASSUME NEW D, IsFiniteSet(D), NEW B \in SUBSET D
    PROVE  Count(D, B) \in [D -> Int] /\ Sum(Count(D, B)) = Cardinality(B)
<1> DEFINE x == Count(D, B)
           T == {s \in SUBSET D : Iter(x)[s] = Cardinality(s \cap B)}
<1>1. x \in [D -> Int] /\ \A d \in D : x[d] = IF d \in B THEN 1 ELSE 0
  BY DEF Count
<1> HIDE DEF x
<1>2. {} \in T
  BY <1>1, IterAdds, FS_EmptySet
<1>3. ASSUME NEW s \in SUBSET D, NEW a \in D, s \in T, a \notin s
      PROVE  s \cup {a} \in T
  <2>1. Iter(x)[s \cup {a}] = x[a] + Iter(x)[s]
    BY <1>1, <1>3, IterAdds
  <2>2. IsFiniteSet(s \cap B) /\ Cardinality(s \cap B) \in Nat
    BY FS_Subset, FS_CardinalityType
  <2>3. CASE a \in B
    <3>1. (s \cup {a}) \cap B = (s \cap B) \cup {a} /\ a \notin s \cap B
      BY <1>3, <2>3
    <3>2. Cardinality((s \cap B) \cup {a}) = Cardinality(s \cap B) + 1
      BY <2>2, <3>1, FS_AddElement
    <3>3. x[a] = 1 /\ Iter(x)[s] = Cardinality(s \cap B)
      BY <1>1, <1>3, <2>3
    <3>4. Iter(x)[s \cup {a}] = 1 + Cardinality(s \cap B)
      BY <2>1, <3>3
    <3>5. Cardinality((s \cup {a}) \cap B) = Cardinality(s \cap B) + 1
      BY <3>1, <3>2
    <3> QED
      BY <2>2, <3>4, <3>5
  <2>4. CASE a \notin B
    <3>1. (s \cup {a}) \cap B = s \cap B
      BY <2>4
    <3> QED
      BY <1>1, <1>3, <2>1, <2>2, <2>4, <3>1
  <2> QED
    BY <2>3, <2>4
<1>4. D \in T
  <2> HIDE DEF T
  <2> QED
    BY <1>2, <1>3, InductiveSubsets
<1>5. D \cap B = B
  OBVIOUS
<1> QED
  BY <1>1, <1>4, <1>5, IterAdds DEF x

(* A bound on every summand bounds the sum by as many.                     *)
LEMMA SumBounded ==
    ASSUME NEW D, IsFiniteSet(D), NEW c \in Int, NEW x \in [D -> Int]
    PROVE  /\ (\A d \in D : x[d] =< c) => Sum(x) =< c * Cardinality(D)
           /\ (\A d \in D : c =< x[d]) => c * Cardinality(D) =< Sum(x)
<1> DEFINE y == [d \in D |-> c]
           one == Count(D, D)
<1>1. one \in [D -> Int] /\ Sum(one) = Cardinality(D) /\ \A d \in D : one[d] = 1
  BY SumCounts DEF Count
<1>2. y \in [D -> Int] /\ \A d \in D : y[d] = c
  OBVIOUS
<1> HIDE DEF y, one
<1>3. \A d \in D : y[d] = c * one[d]
  BY <1>1, <1>2
<1>4. Sum(y) = c * Cardinality(D)
  BY <1>1, <1>2, <1>3, SumScales
<1>5. ASSUME \A d \in D : x[d] =< c PROVE Sum(x) =< Sum(y)
  <2>1. \A d \in D : x[d] =< y[d]
    BY <1>2, <1>5
  <2> QED
    BY <1>2, <2>1, SumKeepsOrder
<1>6. ASSUME \A d \in D : c =< x[d] PROVE Sum(y) =< Sum(x)
  <2>1. \A d \in D : y[d] =< x[d]
    BY <1>2, <1>6
  <2> QED
    BY <1>2, <2>1, SumKeepsOrder
<1> QED
  BY <1>4, <1>5, <1>6

(* No summand exceeds a sum of natural numbers.                            *)
LEMMA SumCovers ==
    ASSUME NEW D, IsFiniteSet(D), NEW x \in [D -> Nat], NEW a \in D
    PROVE  x[a] =< Sum(x)
<1> DEFINE one == Count(D, {a})
           y == [d \in D |-> x[a] * one[d]]
<1>1. Cardinality({a}) = 1
  BY FS_Singleton
<1>2. one \in [D -> Int] /\ Sum(one) = 1 /\ \A d \in D : one[d] = IF d = a THEN 1 ELSE 0
  BY <1>1, SumCounts DEF Count
<1> HIDE DEF one
<1>3. x[a] \in Int /\ y \in [D -> Int] /\ \A d \in D : y[d] = x[a] * one[d]
  BY <1>2
<1> HIDE DEF y
<1>4. Sum(y) = x[a] * 1
  BY <1>2, <1>3, SumScales
<1>5. ASSUME NEW d \in D PROVE y[d] =< x[d]
  <2>1. CASE d = a
    BY <1>2, <1>3, <2>1
  <2>2. CASE d # a
    BY <1>2, <1>3, <2>2
  <2> QED
    BY <2>1, <2>2
<1>6. x \in [D -> Int]
  OBVIOUS
<1>7. Sum(y) =< Sum(x)
  BY <1>3, <1>5, <1>6, SumKeepsOrder
<1> QED
  BY <1>3, <1>4, <1>7

----------------------------------------------------------------------------
(* Numbers.                                                                *)

(* Rounding is within half a percent.                                      *)
LEMMA RoundHalfEvenIsNear ==
    ASSUME One \in Nat \ {0}, NEW x \in Int
    PROVE  /\ RoundHalfEven(x) \in Int
           /\ -One =< 2 * (x - One * RoundHalfEven(x))
           /\ 2 * (x - One * RoundHalfEven(x)) =< One
<1> DEFINE q == x \div One
           r == x % One
<1>1. q \in Int /\ r \in Int /\ x = One * q + r /\ 0 =< r /\ r < One
  BY DivMod
<1> HIDE DEF q, r
<1>2. \/ RoundHalfEven(x) = q /\ 2 * r =< One
      \/ RoundHalfEven(x) = q + 1 /\ One =< 2 * r
  BY <1>1 DEF RoundHalfEven, Fraction, q, r
<1>3. One * (q + 1) = One * q + One
  BY <1>1
<1>4. One * q \in Int
  BY <1>1
<1> QED
  BY <1>1, <1>2, <1>3, <1>4

(* x is j percents, but for a floating-point error.                        *)
Near(x, j) == -Hair =< x - One * j /\ x - One * j =< Hair

(* The percents of a whole number of percents.                             *)
Pct(x) == IF Fraction(x) =< Hair THEN x \div One ELSE (x \div One) + 1

(* A whole percentage is near what it is rounded to.                       *)
LEMMA WholeIsNear ==
    ASSUME One \in Nat \ {0}, Hair \in Nat, NEW x \in Int, Whole(x)
    PROVE  Pct(x) \in Int /\ Near(x, Pct(x))
<1> DEFINE q == x \div One
           r == x % One
<1>1. q \in Int /\ r \in Int /\ x = One * q + r /\ 0 =< r /\ r < One
  BY DivMod
<1> HIDE DEF q, r
<1>2. \/ Pct(x) = q /\ r =< Hair
      \/ Pct(x) = q + 1 /\ One - Hair =< r
  BY <1>1 DEF Pct, Whole, Fraction, q, r
<1>3. One * (q + 1) = One * q + One
  BY <1>1
<1>4. One * q \in Int
  BY <1>1
<1> QED
  BY <1>1, <1>2, <1>3, <1>4 DEF Near

(* A number near j whole percents is whole.                                *)
LEMMA NearIsWhole ==
    ASSUME One \in Nat \ {0}, Hair \in Nat, 2 * Hair < One, NEW x \in Int, NEW j \in Int, Near(x, j)
    PROVE  Whole(x)
<1> DEFINE q == x \div One
           r == x % One
<1>1. q \in Int /\ r \in Int /\ x = One * q + r /\ 0 =< r /\ r < One
  BY DivMod
<1> HIDE DEF q, r
<1>2. One * q \in Int /\ One * j \in Int /\ One * (q + 1) = One * q + One
  BY <1>1
<1>3. One * q < One * j + One
  BY <1>1, <1>2 DEF Near
<1>4. One * j < One * (q + 1) + One
  BY <1>1, <1>2 DEF Near
<1>5. q =< j /\ j =< q + 1
  BY <1>1, <1>3, <1>4, Multiples
<1>6. CASE j = q
  BY <1>1, <1>2, <1>6 DEF Near, Whole, Fraction, r
<1>7. CASE j = q + 1
  BY <1>1, <1>2, <1>7 DEF Near, Whole, Fraction, r
<1> QED
  BY <1>1, <1>5, <1>6, <1>7

----------------------------------------------------------------------------
(* The rounding, from the point the solver returned.                       *)

(* The constants are numbers, the errors small.                            *)
LEMMA Sizes ==
    /\ IsFiniteSet(Fund) /\ Cardinality(Fund) \in Nat \ {0}
    /\ One \in Nat \ {0} /\ Percents \in Nat \ {0} /\ Hair \in Nat
    /\ Total \in Nat /\ Total = One * Percents /\ One =< Total
    /\ Tolerance \in Nat /\ Tolerance = Hair * Cardinality(Fund)
    /\ 4 * Tolerance < One /\ Hair =< Tolerance
<1>1. IsFiniteSet(Fund) /\ Fund # {} /\ One \in Nat \ {0} /\ Percents \in Nat \ {0} /\ Hair \in Nat
  BY OptimizerAssumption
<1>2. Cardinality(Fund) \in Nat /\ Cardinality(Fund) # 0
  BY <1>1, FS_CardinalityType, FS_EmptySet
<1>3. Total = One * Percents /\ Total \in Nat
  BY <1>1 DEF Total
<1>4. One * 1 =< One * Percents
  <2>1. PICK d \in Nat : Percents = d + 1
    <3>1. Percents - 1 \in Nat /\ Percents = (Percents - 1) + 1
      BY <1>1
    <3> QED
      BY <3>1
  <2>2. One * Percents = One + One * d /\ One * d >= 0
    BY <1>1, <2>1
  <2> QED
    BY <1>1, <2>2
<1>5. Tolerance = Hair * Cardinality(Fund) /\ Tolerance \in Nat
  BY <1>1, <1>2 DEF Tolerance
<1>6. Hair * 1 =< Hair * Cardinality(Fund)
  <2>1. PICK d \in Nat : Cardinality(Fund) = d + 1
    <3>1. Cardinality(Fund) - 1 \in Nat /\ Cardinality(Fund) = (Cardinality(Fund) - 1) + 1
      BY <1>2
    <3> QED
      BY <3>1
  <2>2. Hair * Cardinality(Fund) = Hair + Hair * d /\ Hair * d >= 0
    BY <1>1, <2>1
  <2> QED
    BY <1>1, <2>2
<1>7. 4 * Tolerance < One
  <2>1. 4 * Hair * Cardinality(Fund) < One
    BY OptimizerAssumption
  <2>2. 4 * Hair * Cardinality(Fund) = 4 * (Hair * Cardinality(Fund))
    BY <1>1, <1>2
  <2> QED
    BY <2>1, <2>2, <1>5
<1> QED
  BY <1>1, <1>2, <1>3, <1>4, <1>5, <1>6, <1>7

(* p is a point the solver may have returned for the weights x.            *)
IsPoint(p, x, lo, hi) ==
    /\ p \in [Fund -> Nat] /\ Sum(p) = Total
    /\ x \in [Fund -> Nat]
    /\ \A f \in Fund : /\ p[f] =< Total
                       /\ -Hair =< x[f] - p[f] /\ x[f] - p[f] =< Hair
                       /\ lo[f] - Hair =< p[f] /\ p[f] =< hi[f] + Hair

(* What the solver returns is near a point of the grid.                    *)
LEMMA ContinuousHasPoint ==
    ASSUME NEW lo \in [Fund -> Nat], NEW hi \in [Fund -> Nat], NEW x \in Continuous(lo, hi)
    PROVE  \E p : IsPoint(p, x, lo, hi)
<1>1. PICK p \in Points, e \in Errors :
         /\ Within(p, lo, hi)
         /\ x = [f \in Fund |-> p[f] + e[f]]
         /\ \A f \in Fund : x[f] >= 0
  BY DEF Continuous
<1>2. p \in [Fund -> Nat] /\ Sum(p) = Total
  <2>1. \A i \in 0 .. Total \div Grid : Grid * i \in Nat
    BY OptimizerAssumption
  <2> QED
    BY <2>1 DEF Points
<1>3. ASSUME NEW f \in Fund PROVE e[f] \in Int /\ -Hair =< e[f] /\ e[f] =< Hair
  BY Sizes DEF Errors
<1>4. \A f \in Fund : p[f] =< Total
  BY <1>2, Sizes, SumCovers
<1>5. x \in [Fund -> Nat]
  BY <1>1, <1>2, <1>3
<1>6. ASSUME NEW f \in Fund
      PROVE  /\ -Hair =< x[f] - p[f] /\ x[f] - p[f] =< Hair
             /\ lo[f] - Hair =< p[f] /\ p[f] =< hi[f] + Hair
  <2>1. x[f] = p[f] + e[f] /\ p[f] \in Nat
    BY <1>1, <1>2
  <2>2. lo[f] - Hair =< p[f] /\ p[f] =< hi[f] + Hair
    BY <1>1 DEF Within
  <2> QED
    BY <1>3, <2>1, <2>2
<1> QED
  BY <1>2, <1>4, <1>5, <1>6 DEF IsPoint

(* The weights rounded down and clipped to the bounds.                     *)
Floored(x, lo, hi) == [f \in Fund |-> Clip(Floor(x[f]), lo[f], hi[f])]

(* What rounding down leaves of a weight.                                  *)
LEMMA FloorIs ==
    ASSUME NEW y \in Nat
    PROVE  /\ Floor(y) \in Nat /\ Fraction(y) \in Nat
           /\ Floor(y) = One * (y \div One) /\ y \div One \in Int
           /\ y = Floor(y) + Fraction(y) /\ Fraction(y) < One
<1>1. /\ y \div One \in Int /\ y % One \in Int
      /\ y = One * (y \div One) + (y % One)
      /\ 0 =< y % One /\ y % One < One
  BY Sizes, DivMod
<1>2. y \div One >= 0
  <2>1. One * 0 < One * (y \div One) + One
    BY <1>1, Sizes
  <2> QED
    BY <1>1, <2>1, Sizes, Multiples
<1>3. One * (y \div One) \in Nat
  BY <1>1, <1>2, Sizes
<1> QED
  BY <1>1, <1>3 DEF Floor, Fraction

(* Rounded down, a weight is at most a hair above the solver's point, and  *)
(* less than a percent and a hair below it.                                *)
LEMMA FlooredBounds ==
    ASSUME NEW lo \in [Fund -> Nat], NEW hi \in [Fund -> Nat], NEW x, NEW p,
           IsPoint(p, x, lo, hi), \A f \in Fund : lo[f] =< hi[f], NEW f \in Fund
    PROVE  /\ Floored(x, lo, hi)[f] \in {Floor(x[f]), lo[f], hi[f]}
           /\ Floored(x, lo, hi)[f] \in Nat
           /\ lo[f] =< Floored(x, lo, hi)[f] /\ Floored(x, lo, hi)[f] =< hi[f]
           /\ Floored(x, lo, hi)[f] =< p[f] + Hair
           /\ p[f] - Floored(x, lo, hi)[f] =< One + Hair - 1
<1> DEFINE b == Floored(x, lo, hi)[f]
<1>1. b = Clip(Floor(x[f]), lo[f], hi[f])
  BY DEF Floored
<1>2. x[f] \in Nat /\ p[f] \in Nat /\ lo[f] \in Nat /\ hi[f] \in Nat /\ lo[f] =< hi[f]
  BY DEF IsPoint
<1>3. /\ Floor(x[f]) \in Nat /\ Fraction(x[f]) \in Nat
      /\ x[f] = Floor(x[f]) + Fraction(x[f]) /\ Fraction(x[f]) < One
  BY <1>2, FloorIs
<1>4. /\ -Hair =< x[f] - p[f] /\ x[f] - p[f] =< Hair
      /\ lo[f] - Hair =< p[f] /\ p[f] =< hi[f] + Hair
  BY DEF IsPoint
<1>5. \/ b = Floor(x[f]) /\ lo[f] =< b /\ b =< hi[f]
      \/ b = lo[f] /\ Floor(x[f]) < b
      \/ b = hi[f] /\ b < Floor(x[f])
  BY <1>1, <1>2, <1>3 DEF Clip
<1> HIDE DEF b
<1>6. b =< p[f] + Hair /\ p[f] - b =< One + Hair - 1 /\ lo[f] =< b /\ b =< hi[f]
  BY <1>2, <1>3, <1>4, <1>5, Sizes
<1>7. b \in {Floor(x[f]), lo[f], hi[f]} /\ b \in Nat
  BY <1>2, <1>3, <1>5
<1> QED
  BY <1>6, <1>7 DEF b

(* What is missing is no less than nothing and at most a percent for each  *)
(* fund and the whole portfolio.                                           *)
LEMMA MissingFits ==
    ASSUME NEW lo \in [Fund -> Nat], NEW hi \in [Fund -> Nat], NEW x, NEW p,
           IsPoint(p, x, lo, hi), \A f \in Fund : lo[f] =< hi[f],
           NEW s, s = RoundHalfEven(Total - Sum(Floored(x, lo, hi)))
    PROVE  /\ Floored(x, lo, hi) \in [Fund -> Nat]
           /\ s \in 0 .. Cardinality(Fund) /\ s =< Percents
           /\ \A f \in Fund : s > 0 => Floored(x, lo, hi)[f] + One =< 2 * Total
           /\ \A f \in Fund : Floored(x, lo, hi)[f] =< 2 * Total
<1> DEFINE b == Floored(x, lo, hi)
           d == [f \in Fund |-> b[f] - p[f]]
           n == Cardinality(Fund)
<1>1. \A f \in Fund : b[f] \in Nat /\ b[f] =< p[f] + Hair /\ p[f] - b[f] =< One + Hair - 1
  BY FlooredBounds
<1>2. b \in [Fund -> Nat]
  BY <1>1 DEF Floored
<1> HIDE DEF b
<1>3. p \in [Fund -> Nat] /\ Sum(p) = Total /\ \A f \in Fund : p[f] =< Total
  BY DEF IsPoint
<1>4. d \in [Fund -> Int] /\ \A f \in Fund : d[f] = b[f] - p[f]
  BY <1>2, <1>3
<1> HIDE DEF d
<1>5. Sum(b) = Total + Sum(d) /\ Sum(b) \in Int /\ Sum(d) \in Int
  <2>1. \A f \in Fund : b[f] = p[f] + d[f]
    BY <1>2, <1>3, <1>4
  <2>2. b \in [Fund -> Int] /\ p \in [Fund -> Int]
    BY <1>2, <1>3
  <2> QED
    BY <1>3, <1>4, <2>1, <2>2, Sizes, SumAdds, SumType
<1>6. Sum(d) =< Tolerance
  <2>1. \A f \in Fund : d[f] =< Hair
    BY <1>1, <1>3, <1>4, Sizes
  <2> QED
    BY <1>4, <2>1, Sizes, SumBounded
<1>7. (1 - One - Hair) * n =< Sum(d)
  <2>1. \A f \in Fund : 1 - One - Hair =< d[f]
    BY <1>1, <1>3, <1>4, Sizes
  <2>2. 1 - One - Hair \in Int
    BY Sizes
  <2> QED
    BY <1>4, <2>1, <2>2, Sizes, SumBounded
<1>8. (1 - One - Hair) * n = n - One * n - Tolerance
  BY Sizes
<1>9. s \in Int /\ -One =< 2 * (-Sum(d) - One * s) /\ 2 * (-Sum(d) - One * s) =< One
  <2>1. Total - Sum(b) = -Sum(d) /\ -Sum(d) \in Int
    BY <1>5, Sizes
  <2>2. s = RoundHalfEven(-Sum(d))
    BY <2>1 DEF b
  <2> QED
    BY <2>1, <2>2, Sizes, RoundHalfEvenIsNear
<1>10. One * s \in Int /\ One * n \in Int /\ n \in Nat \ {0} /\ One * 0 = 0
  BY <1>9, Sizes
<1>11. 0 =< s
  <2>1. One * 0 < One * s + One
    BY <1>5, <1>6, <1>9, <1>10, Sizes
  <2> QED
    BY <1>9, <2>1, Sizes, Multiples
<1>12. s =< n
  <2>1. One * s < One * n + One
    BY <1>5, <1>7, <1>8, <1>9, <1>10, Sizes
  <2> QED
    BY <1>9, <1>10, <2>1, Sizes, Multiples
<1>13. 0 =< Sum(b)
  <2>1. b \in [Fund -> Int] /\ \A f \in Fund : 0 =< b[f]
    BY <1>2
  <2>2. \A c \in Int : (\A f \in Fund : c =< b[f]) => c * n =< Sum(b)
    BY <2>1, Sizes, SumBounded
  <2>3. 0 \in Int /\ 0 * n = 0
    BY <1>10
  <2> QED
    BY <2>1, <2>2, <2>3
<1>14. s =< Percents
  <2>1. One * s < One * Percents + One
    BY <1>5, <1>9, <1>10, <1>13, Sizes
  <2> QED
    BY <1>9, <2>1, Sizes, Multiples
<1>15. ASSUME NEW f \in Fund, s > 0 PROVE b[f] + One =< 2 * Total
  <2>1. One * 1 =< One * s
    <3>1. PICK c \in Nat : s = 1 + c
      <4>1. s - 1 \in Nat /\ s = 1 + (s - 1)
        BY <1>9, <1>15
      <4> QED
        BY <4>1
    <3>2. One * s = One + One * c /\ One * c >= 0
      BY <3>1, Sizes
    <3> QED
      BY <3>2, Sizes
  <2>2. 2 * Sum(b) =< 2 * Total - One
    BY <1>5, <1>9, <1>10, <2>1, Sizes
  <2>3. b[f] =< Sum(b) /\ b[f] \in Nat
    BY <1>2, Sizes, SumCovers
  <2> QED
    BY <1>5, <2>2, <2>3, Sizes
<1>16. ASSUME NEW f \in Fund PROVE b[f] =< 2 * Total
  BY <1>1, <1>2, <1>3, Sizes
<1> QED
  BY <1>2, <1>9, <1>10, <1>11, <1>12, <1>14, <1>15, <1>16 DEF b

(* The order of the fractions lists every fund once.                       *)
LEMMA OrderFacts ==
    ASSUME NEW x \in [Fund -> Nat], NEW o \in ByFraction(x)
    PROVE  /\ o \in [1 .. Cardinality(Fund) -> Fund]
           /\ DOMAIN o = 1 .. Cardinality(Fund) /\ Len(o) = Cardinality(Fund)
           /\ o \in Seq(Fund)
           /\ \A i, j \in 1 .. Cardinality(Fund) : i # j => o[i] # o[j]
           /\ \A i, j \in 1 .. Cardinality(Fund) :
                 i < j => Fraction(x[o[i]]) >= Fraction(x[o[j]])
<1>1. /\ o \in [1 .. Cardinality(Fund) -> Fund]
      /\ \A i, j \in 1 .. Cardinality(Fund) : i # j => o[i] # o[j]
      /\ \A i, j \in DOMAIN o : i < j => Fraction(x[o[i]]) >= Fraction(x[o[j]])
  BY DEF ByFraction, SetToSeqs
<1>2. Cardinality(Fund) \in Nat
  BY Sizes
<1>3. DOMAIN o = 1 .. Cardinality(Fund)
  BY <1>1
<1>4. o \in Seq(Fund) /\ Len(o) = Cardinality(Fund)
  BY <1>1, <1>2
<1> QED
  BY <1>1, <1>3, <1>4

----------------------------------------------------------------------------
(* The inductive invariant.                                                *)

Down == Floored(w, lb, ub)

(* The work of the loop so far: a percent for the first j funds of order.  *)
Handed(j) ==
    [f \in Fund |-> Down[f] + (IF \E i \in 1 .. j : order[i] = f THEN One ELSE 0)]

(* The funds that were clipped once more.                                  *)
Clipped == [f \in Fund |-> Clip(Handed(short)[f], lb[f], ub[f])]

Searching == stage \in {"stats", "extreme", "solve"}
Solved == stage \in {"floor", "share", "loop", "clip"} \/ outcome = "ok"
Shared == stage \in {"loop", "clip"} \/ outcome = "ok"

SolvedInv ==
    /\ Searching \/ Solved => Crossed = {}
    /\ Solved => w \in Continuous(lb, ub)

SharedInv ==
    Shared => /\ short = RoundHalfEven(Total - Sum(Down))
              /\ order \in ByFraction(w)

RoundingInv ==
    /\ stage = "share" => base = Down
    /\ stage \in {"loop", "clip"} => k =< short /\ base = Handed(k)
    /\ stage = "clip" => k = short
    /\ outcome = "ok" => stage = "done" /\ base = Clipped

OptimizerInv == OptimizerTypeOK /\ SolvedInv /\ SharedInv /\ RoundingInv

(* What the invariant says of the weights rounded down.                    *)
LEMMA DownFits ==
    ASSUME OptimizerInv, Solved
    PROVE  /\ Down \in [Fund -> Nat]
           /\ RoundHalfEven(Total - Sum(Down)) \in 0 .. Cardinality(Fund)
           /\ RoundHalfEven(Total - Sum(Down)) =< Percents
           /\ \A f \in Fund : RoundHalfEven(Total - Sum(Down)) > 0 => Down[f] + One =< 2 * Total
           /\ \A f \in Fund : Down[f] =< 2 * Total
<1>1. /\ lb \in [Fund -> Nat] /\ ub \in [Fund -> Nat] /\ w \in Continuous(lb, ub)
      /\ Crossed = {}
  BY DEF OptimizerInv, OptimizerTypeOK, SolvedInv
<1>2. \A f \in Fund : lb[f] =< ub[f]
  BY <1>1 DEF Crossed
<1>3. PICK p : IsPoint(p, w, lb, ub)
  BY <1>1, ContinuousHasPoint
<1> QED
  BY <1>1, <1>2, <1>3, MissingFits DEF Down

(* The invariant holds when optimize() is called.                          *)
LEMMA OptimizerInitInv == OptimizerInit => OptimizerInv
<1> SUFFICES ASSUME OptimizerInit PROVE OptimizerInv
  OBVIOUS
<1>1. PICK b \in [Fund -> BoundChoices] :
         lb = [f \in Fund |-> b[f][1]] /\ ub = [f \in Fund |-> b[f][2]]
  BY DEF OptimizerInit
<1>2. lb \in [Fund -> Nat] /\ ub \in [Fund -> Nat]
  BY <1>1, OptimizerAssumption
<1>3. 0 \in Units /\ 0 \in -Percents .. Percents /\ 0 \in 0 .. Cardinality(Fund)
  BY Sizes DEF Units
<1>4. << >> \in Seq(Fund)
  OBVIOUS
<1>5. OptimizerTypeOK
  BY <1>2, <1>3, <1>4 DEF OptimizerInit, OptimizerTypeOK, Zero, Stage
<1> QED
  BY <1>5 DEF OptimizerInit, OptimizerInv, SolvedInv, SharedInv, RoundingInv,
              Searching, Solved, Shared

(* A refusal keeps the numbers as they were.                               *)
LEMMA RefusalKeepsInv ==
    ASSUME OptimizerInv, NEW r \in Refusal, End(r)
    PROVE  OptimizerInv'
<1>1. OptimizerTypeOK'
  BY DEF OptimizerInv, OptimizerTypeOK, End, Stage
<1>2. stage' = "done" /\ outcome' # "ok"
  BY DEF End, Refusal
<1> QED
  BY <1>1, <1>2 DEF OptimizerInv, SolvedInv, SharedInv, RoundingInv, Searching, Solved, Shared

(* So does a step of the search for an optimum.                            *)
LEMMA SearchKeepsInv ==
    ASSUME OptimizerInv, Crossed = {}, stage \in {"validate", "stats", "extreme"},
           stage' \in {"stats", "extreme", "solve"},
           UNCHANGED <<outcome, lb, ub, w, base, short, order, k>>
    PROVE  OptimizerInv'
<1>1. OptimizerTypeOK'
  BY DEF OptimizerInv, OptimizerTypeOK, Stage
<1>2. outcome' # "ok"
  BY DEF OptimizerInv, RoundingInv
<1>3. Crossed' = {}
  BY DEF Crossed
<1> QED
  BY <1>1, <1>2, <1>3 DEF OptimizerInv, SolvedInv, SharedInv, RoundingInv, Searching, Solved, Shared

(* The solver fails, or returns a point within the bounds.                 *)
LEMMA SolveKeepsInv ==
    ASSUME OptimizerInv, stage = "solve", NEW x \in Continuous(lb, ub), w' = x, stage' = "floor",
           UNCHANGED <<outcome, lb, ub, base, short, order, k>>
    PROVE  OptimizerInv'
<1>1. lb \in [Fund -> Nat] /\ ub \in [Fund -> Nat] /\ Crossed = {} /\ outcome # "ok"
  BY DEF OptimizerInv, OptimizerTypeOK, SolvedInv, RoundingInv, Searching
<1>2. x \in [Fund -> Units]
  <2>1. PICK p : IsPoint(p, x, lb, ub)
    BY <1>1, ContinuousHasPoint
  <2>2. x \in [Fund -> Nat] /\ p \in [Fund -> Nat]
    BY <2>1 DEF IsPoint
  <2>3. ASSUME NEW f \in Fund PROVE x[f] =< 2 * Total
    <3>1. x[f] - p[f] =< Hair /\ p[f] =< Total /\ x[f] \in Nat /\ p[f] \in Nat
      BY <2>1, <2>2 DEF IsPoint
    <3> QED
      BY <3>1, Sizes
  <2> QED
    BY <2>2, <2>3, Sizes DEF Units
<1>3. OptimizerTypeOK'
  BY <1>2 DEF OptimizerInv, OptimizerTypeOK, Stage
<1>4. Crossed' = {} /\ w' \in Continuous(lb', ub')
  BY <1>1 DEF Crossed
<1> QED
  BY <1>1, <1>3, <1>4 DEF OptimizerInv, SolvedInv, SharedInv, RoundingInv, Searching, Solved, Shared

(* The steps of the rounding leave the optimum alone.                      *)
LEMMA RoundingKeeps ==
    ASSUME OptimizerInv, Solved, UNCHANGED <<lb, ub, w>>
    PROVE  /\ SolvedInv'
           /\ Down' = Down /\ Down \in [Fund -> Nat]
           /\ lb' \in [Fund -> Nat] /\ ub' \in [Fund -> Nat] /\ w' \in [Fund -> Units]
           /\ w \in [Fund -> Nat] /\ w \in Continuous(lb, ub)
<1>1. Crossed = {} /\ w \in Continuous(lb, ub)
  BY DEF OptimizerInv, SolvedInv
<1>2. Crossed' = {} /\ w' \in Continuous(lb', ub')
  BY <1>1 DEF Crossed
<1>3. Down' = Down
  BY DEF Down
<1>4. lb \in [Fund -> Nat] /\ ub \in [Fund -> Nat] /\ w \in [Fund -> Units]
  BY DEF OptimizerInv, OptimizerTypeOK
<1>5. w \in [Fund -> Nat]
  BY <1>4, Sizes DEF Units
<1> QED
  BY <1>1, <1>2, <1>3, <1>4, <1>5, DownFits DEF SolvedInv

(* Rounding down keeps the weights that the solver returned.               *)
LEMMA FloorKeepsInv == OptimizerInv /\ FloorAndClip => OptimizerInv'
<1> SUFFICES ASSUME OptimizerInv, FloorAndClip PROVE OptimizerInv'
  OBVIOUS
<1>1. /\ stage = "floor" /\ stage' = "share" /\ base' = Down
      /\ UNCHANGED <<outcome, lb, ub, w, short, order, k>>
  BY DEF FloorAndClip, Down, Floored
<1>2. Solved /\ outcome # "ok"
  BY <1>1 DEF Solved, OptimizerInv, RoundingInv
<1>3. SolvedInv' /\ Down' = Down /\ base' = Down'
  BY <1>1, <1>2, RoundingKeeps
<1>4. Down \in [Fund -> Nat] /\ \A f \in Fund : Down[f] =< 2 * Total
  BY <1>2, DownFits
<1>5. base' \in [Fund -> Units]
  BY <1>1, <1>4, Sizes DEF Units
<1>6. OptimizerTypeOK'
  BY <1>1, <1>5 DEF OptimizerInv, OptimizerTypeOK, Stage
<1> QED
  BY <1>1, <1>2, <1>3, <1>6 DEF OptimizerInv, SharedInv, RoundingInv, Shared

(* The shortfall and the order are those of the weights rounded down.      *)
LEMMA ShareKeepsInv == OptimizerInv /\ Share => OptimizerInv'
<1> SUFFICES ASSUME OptimizerInv, Share PROVE OptimizerInv'
  OBVIOUS
<1> DEFINE s == RoundHalfEven(Total - Sum(Down))
<1>1. /\ stage = "share" /\ stage' = "loop" /\ k' = 0
      /\ UNCHANGED <<outcome, lb, ub, w, base>>
      /\ order' \in ByFraction(w)
  BY DEF Share
<1>2. Solved /\ outcome # "ok" /\ base = Down
  BY <1>1 DEF Solved, OptimizerInv, RoundingInv
<1>3. SolvedInv' /\ Down' = Down /\ Down \in [Fund -> Nat] /\ w \in [Fund -> Nat]
  BY <1>1, <1>2, RoundingKeeps
<1>4. short' = s
  BY <1>2 DEF Share
<1>5. s \in 0 .. Cardinality(Fund) /\ s =< Percents
  BY <1>2, DownFits
<1> HIDE DEF s
<1>6. order' \in Seq(Fund)
  BY <1>1, <1>3, OrderFacts
<1>7. OptimizerTypeOK'
  <2>1. short' \in -Percents .. Percents /\ k' \in 0 .. Cardinality(Fund)
    BY <1>1, <1>4, <1>5, Sizes
  <2> QED
    BY <1>1, <1>6, <2>1 DEF OptimizerInv, OptimizerTypeOK, Stage
<1>8. Handed(0)' = Down'
  <2>1. \A f \in Fund : ~ \E i \in 1 .. 0 : order'[i] = f
    OBVIOUS
  <2>2. \A f \in Fund : Down'[f] + 0 = Down'[f]
    BY <1>3
  <2>3. Down' = [f \in Fund |-> Down'[f]]
    BY <1>3
  <2>4. Handed(0)' = [f \in Fund |-> Down'[f] + (IF \E i \in 1 .. 0 : order'[i] = f THEN One ELSE 0)]
    BY DEF Handed
  <2> QED
    BY <2>1, <2>2, <2>3, <2>4
<1>9. RoundingInv'
  <2>1. k' =< short'
    BY <1>1, <1>4, <1>5, Sizes
  <2>2. base' = Handed(0)'
    BY <1>1, <1>2, <1>3, <1>8
  <2>3. base' = Handed(k)'
    BY <1>1, <2>2 DEF Handed
  <2> QED
    BY <1>1, <1>2, <2>1, <2>3 DEF RoundingInv
<1>10. SharedInv'
  <2>1. s = RoundHalfEven(Total - Sum(Down'))
    BY <1>3 DEF s
  <2> QED
    BY <1>1, <1>4, <2>1 DEF SharedInv
<1> QED
  BY <1>3, <1>7, <1>9, <1>10 DEF OptimizerInv

(* A turn of the loop gives a percent to a fund that has had none.         *)
LEMMA IncrementKeepsInv == OptimizerInv /\ Increment => OptimizerInv'
<1> SUFFICES ASSUME OptimizerInv, Increment PROVE OptimizerInv'
  OBVIOUS
<1> DEFINE n == Cardinality(Fund)
<1>1. /\ stage = "loop" /\ k < Abs(short) /\ k' = k + 1
      /\ UNCHANGED <<stage, outcome, lb, ub, w, short, order>>
  BY DEF Increment
<1>2. Solved /\ Shared /\ outcome # "ok" /\ base = Handed(k) /\ k =< short
  BY <1>1 DEF Solved, Shared, OptimizerInv, RoundingInv
<1>3. /\ SolvedInv' /\ Down' = Down /\ Down \in [Fund -> Nat] /\ w \in [Fund -> Nat]
  BY <1>1, <1>2, RoundingKeeps
<1>4. short = RoundHalfEven(Total - Sum(Down)) /\ order \in ByFraction(w)
  BY <1>2 DEF OptimizerInv, SharedInv
<1>5. /\ short \in 0 .. n /\ n \in Nat \ {0} /\ k \in Nat
      /\ \A f \in Fund : short > 0 => Down[f] + One =< 2 * Total
      /\ \A f \in Fund : Down[f] =< 2 * Total
  <2>1. k \in 0 .. n /\ n \in Nat \ {0}
    BY Sizes DEF OptimizerInv, OptimizerTypeOK
  <2>2. /\ short \in 0 .. n
        /\ \A f \in Fund : short > 0 => Down[f] + One =< 2 * Total
        /\ \A f \in Fund : Down[f] =< 2 * Total
    BY <1>2, <1>4, DownFits
  <2> QED
    BY <2>1, <2>2
<1>6. k < short /\ Sign(short) = 1 /\ k + 1 \in 1 .. n
  BY <1>1, <1>5 DEF Abs, Sign
<1>7. /\ order \in [1 .. n -> Fund] /\ Len(order) = n
      /\ \A i, j \in 1 .. n : i # j => order[i] # order[j]
  BY <1>3, <1>4, OrderFacts
<1>8. k % Len(order) = k
  BY <1>5, <1>6, <1>7
<1> DEFINE a == order[k + 1]
<1>9. a \in Fund /\ base' = [base EXCEPT ![a] = @ + 1 * One]
  BY <1>6, <1>7, <1>8 DEF Increment
<1>10. base' = Handed(k + 1)
  <2>1. Handed(k) = [f \in Fund |-> Down[f] + (IF \E i \in 1 .. k : order[i] = f THEN One ELSE 0)]
    BY DEF Handed
  <2>2. Handed(k + 1) = [f \in Fund |-> Down[f] + (IF \E i \in 1 .. k + 1 : order[i] = f THEN One ELSE 0)]
    BY DEF Handed
  <2>3. ~ \E i \in 1 .. k : order[i] = a
    BY <1>5, <1>6, <1>7
  <2>4. \E i \in 1 .. k + 1 : order[i] = a
    BY <1>5
  <2>5. \A f \in Fund : f # a => ((\E i \in 1 .. k : order[i] = f) <=> (\E i \in 1 .. k + 1 : order[i] = f))
    BY <1>5
  <2>6. 1 * One = One /\ One \in Nat
    BY Sizes
  <2> HIDE DEF a
  <2>7. base' = [f \in Fund |-> IF f = a THEN base[f] + One ELSE base[f]]
    BY <1>2, <1>9, <2>1, <2>6
  <2>8. ASSUME NEW f \in Fund PROVE base'[f] = Handed(k + 1)[f]
    <3>1. CASE f = a
      BY <1>2, <1>3, <1>9, <2>1, <2>2, <2>3, <2>4, <2>6, <2>7, <3>1
    <3>2. CASE f # a
      BY <1>2, <2>1, <2>2, <2>5, <2>7, <3>2
    <3> QED
      BY <3>1, <3>2
  <2> QED
    BY <2>2, <2>7, <2>8
<1>11. base' = Handed(k)'
  BY <1>1, <1>3, <1>10 DEF Handed
<1>12. base' \in [Fund -> Units]
  <2>1. base' = [f \in Fund |-> Down[f] + (IF \E i \in 1 .. k + 1 : order[i] = f THEN One ELSE 0)]
    BY <1>10 DEF Handed
  <2>2. ASSUME NEW f \in Fund PROVE base'[f] \in Units
    <3>1. Down[f] + One =< 2 * Total /\ Down[f] =< 2 * Total /\ Down[f] \in Nat
      BY <1>3, <1>5, <1>6
    <3>2. base'[f] = Down[f] + One \/ base'[f] = Down[f] + 0
      BY <2>1
    <3> QED
      BY <3>1, <3>2, Sizes DEF Units
  <2> QED
    BY <2>1, <2>2
<1>13. OptimizerTypeOK'
  <2>1. k' \in 0 .. n
    BY <1>1, <1>5, <1>6
  <2> QED
    BY <1>1, <1>12, <2>1 DEF OptimizerInv, OptimizerTypeOK
<1>14. RoundingInv'
  <2>1. k' =< short'
    BY <1>1, <1>5, <1>6
  <2> QED
    BY <1>1, <1>2, <1>11, <2>1 DEF RoundingInv
<1>15. SharedInv'
  BY <1>1, <1>3, <1>4 DEF SharedInv
<1> QED
  BY <1>3, <1>13, <1>14, <1>15 DEF OptimizerInv

(* The loop ends when the shortfall is shared out.                         *)
LEMMA LoopEndKeepsInv == OptimizerInv /\ LoopEnds => OptimizerInv'
<1> SUFFICES ASSUME OptimizerInv, LoopEnds PROVE OptimizerInv'
  OBVIOUS
<1>1. /\ stage = "loop" /\ stage' = "clip" /\ k >= Abs(short)
      /\ UNCHANGED <<outcome, lb, ub, w, base, short, order, k>>
  BY DEF LoopEnds
<1>2. Solved /\ Shared /\ outcome # "ok" /\ base = Handed(k) /\ k =< short
  BY <1>1 DEF Solved, Shared, OptimizerInv, RoundingInv
<1>3. SolvedInv' /\ Down' = Down
  BY <1>1, <1>2, RoundingKeeps
<1>4. short = RoundHalfEven(Total - Sum(Down)) /\ order \in ByFraction(w)
  BY <1>2 DEF OptimizerInv, SharedInv
<1>5. short \in Nat /\ k \in Nat
  <2>1. short \in 0 .. Cardinality(Fund)
    BY <1>2, <1>4, DownFits
  <2> QED
    BY <2>1, Sizes DEF OptimizerInv, OptimizerTypeOK
<1>6. k = short
  BY <1>1, <1>2, <1>5 DEF Abs
<1>7. OptimizerTypeOK'
  BY <1>1 DEF OptimizerInv, OptimizerTypeOK, Stage
<1>8. Handed(k)' = Handed(k)
  BY <1>1, <1>3 DEF Handed
<1>9. RoundingInv'
  BY <1>1, <1>2, <1>6, <1>8 DEF RoundingInv
<1>10. SharedInv'
  BY <1>1, <1>3, <1>4 DEF SharedInv
<1> QED
  BY <1>3, <1>7, <1>9, <1>10 DEF OptimizerInv

(* The bounds the weights were rounded down to.                            *)
LEMMA DownWithin ==
    ASSUME OptimizerInv, Solved, NEW f \in Fund
    PROVE  /\ lb[f] \in Nat /\ ub[f] \in Nat /\ lb[f] =< ub[f]
           /\ lb[f] =< Down[f] /\ Down[f] =< ub[f]
<1>1. /\ lb \in [Fund -> Nat] /\ ub \in [Fund -> Nat] /\ w \in Continuous(lb, ub)
      /\ Crossed = {}
  BY DEF OptimizerInv, OptimizerTypeOK, SolvedInv
<1>2. \A g \in Fund : lb[g] =< ub[g]
  BY <1>1 DEF Crossed
<1>3. PICK p : IsPoint(p, w, lb, ub)
  BY <1>1, ContinuousHasPoint
<1> QED
  BY <1>1, <1>2, <1>3, FlooredBounds DEF Down

(* The last clip keeps to the bounds.                                      *)
LEMMA ClipKeepsInv == OptimizerInv /\ FinalClip => OptimizerInv'
<1> SUFFICES ASSUME OptimizerInv, FinalClip PROVE OptimizerInv'
  OBVIOUS
<1>1. /\ stage = "clip" /\ stage' = "done" /\ outcome' = "ok"
      /\ base' = [f \in Fund |-> Clip(base[f], lb[f], ub[f])]
      /\ UNCHANGED <<lb, ub, w, short, order, k>>
  BY DEF FinalClip
<1>2. Solved /\ Shared /\ outcome # "ok" /\ base = Handed(k) /\ k = short
  BY <1>1 DEF Solved, Shared, OptimizerInv, RoundingInv
<1>3. SolvedInv' /\ Down' = Down /\ Down \in [Fund -> Nat]
  BY <1>1, <1>2, RoundingKeeps
<1>4. short = RoundHalfEven(Total - Sum(Down)) /\ order \in ByFraction(w)
  BY <1>2 DEF OptimizerInv, SharedInv
<1>5. ASSUME NEW f \in Fund PROVE base'[f] \in Units
  <2>1. base[f] \in 0 .. 2 * Total
    BY DEF OptimizerInv, OptimizerTypeOK, Units
  <2>2. lb[f] \in Nat /\ ub[f] \in Nat /\ lb[f] =< Down[f] /\ Down[f] =< 2 * Total /\ Down[f] \in Nat
    BY <1>2, <1>3, DownWithin, DownFits
  <2>3. base'[f] = Clip(base[f], lb[f], ub[f])
    BY <1>1
  <2>4. base'[f] = lb[f] \/ (base'[f] = ub[f] /\ ub[f] < base[f]) \/ base'[f] = base[f]
    BY <2>1, <2>2, <2>3 DEF Clip
  <2> QED
    BY <2>1, <2>2, <2>4, Sizes DEF Units
<1>6. OptimizerTypeOK'
  BY <1>1, <1>5 DEF OptimizerInv, OptimizerTypeOK, Stage
<1>7. base' = Clipped'
  <2>1. base' = Clipped
    BY <1>1, <1>2 DEF Clipped
  <2>2. Clipped' = Clipped
    BY <1>1, <1>3 DEF Clipped, Handed
  <2> QED
    BY <2>1, <2>2
<1>8. RoundingInv'
  BY <1>1, <1>7 DEF RoundingInv
<1>9. SharedInv'
  BY <1>1, <1>3, <1>4 DEF SharedInv
<1> QED
  BY <1>3, <1>6, <1>8, <1>9 DEF OptimizerInv

(* Every step keeps the invariant.                                         *)
LEMMA OptimizerStep == OptimizerInv /\ [OptimizerNext]_ovars => OptimizerInv'
<1> SUFFICES ASSUME OptimizerInv, [OptimizerNext]_ovars PROVE OptimizerInv'
  OBVIOUS
<1>1. ASSUME RefuseTarget \/ RefuseCrossed \/ RefuseSums PROVE OptimizerInv'
  <2>1. \E r \in Refusal : End(r)
    BY <1>1 DEF RefuseTarget, RefuseCrossed, RefuseSums, Refusal
  <2> QED
    BY <2>1, RefusalKeepsInv
<1>2. ASSUME Validate PROVE OptimizerInv'
  BY <1>2, SearchKeepsInv DEF Validate
<1>3. ASSUME FundStats PROVE OptimizerInv'
  <2>1. stage = "stats" /\ Crossed = {}
    BY <1>3 DEF FundStats, OptimizerInv, SolvedInv, Searching
  <2>2. CASE End("history")
    BY <2>2, RefusalKeepsInv DEF Refusal
  <2>3. CASE stage' = "extreme" /\ UNCHANGED <<outcome, lb, ub, w, base, short, order, k>>
    BY <2>1, <2>3, SearchKeepsInv
  <2> QED
    BY <1>3, <2>2, <2>3 DEF FundStats
<1>4. ASSUME ExtremeVol PROVE OptimizerInv'
  <2>1. stage = "extreme" /\ Crossed = {}
    BY <1>4 DEF ExtremeVol, OptimizerInv, SolvedInv, Searching
  <2>2. CASE End("volatility")
    BY <2>2, RefusalKeepsInv DEF Refusal
  <2>3. CASE stage' = "solve" /\ UNCHANGED <<outcome, lb, ub, w, base, short, order, k>>
    BY <2>1, <2>3, SearchKeepsInv
  <2> QED
    BY <1>4, <2>2, <2>3 DEF ExtremeVol
<1>5. ASSUME Solve PROVE OptimizerInv'
  <2>1. CASE End("solver")
    BY <2>1, RefusalKeepsInv DEF Refusal
  <2>2. CASE ~ End("solver")
    BY <1>5, <2>2, SolveKeepsInv DEF Solve
  <2> QED
    BY <2>1, <2>2
<1>6. ASSUME UNCHANGED ovars PROVE OptimizerInv'
  <2>1. Down' = Down
    BY <1>6 DEF ovars, Down
  <2>2. Handed(k)' = Handed(k) /\ Handed(short)' = Handed(short)
    BY <1>6, <2>1 DEF ovars, Handed
  <2>3. Clipped' = Clipped
    BY <1>6, <2>2 DEF ovars, Clipped
  <2>4. Crossed' = Crossed
    BY <1>6 DEF ovars, Crossed
  <2>5. OptimizerTypeOK'
    BY <1>6 DEF ovars, OptimizerInv, OptimizerTypeOK
  <2>6. SolvedInv' /\ SharedInv'
    BY <1>6, <2>1, <2>4 DEF ovars, OptimizerInv, SolvedInv, SharedInv, Searching, Solved, Shared
  <2>7. RoundingInv'
    BY <1>6, <2>1, <2>2, <2>3 DEF ovars, OptimizerInv, RoundingInv
  <2> QED
    BY <2>5, <2>6, <2>7 DEF OptimizerInv
<1> QED
  BY <1>1, <1>2, <1>3, <1>4, <1>5, <1>6, FloorKeepsInv, ShareKeepsInv, IncrementKeepsInv,
     LoopEndKeepsInv, ClipKeepsInv DEF OptimizerNext

(* The invariant holds in every reachable state.                           *)
LEMMA OptimizerInvariance == OptimizerSpec => []OptimizerInv
BY OptimizerInitInv, OptimizerStep, PTL DEF OptimizerSpec

(* Whatever the bounds and the solver's point, optimize() keeps the types  *)
(* of its state: the whole percents still to hand out are never more than  *)
(* the portfolio, no weight goes below zero or above twice the whole.      *)
THEOREM OptimizerTypeCorrect == OptimizerSpec => []OptimizerTypeOK
<1>1. OptimizerInv => OptimizerTypeOK
  BY DEF OptimizerInv
<1> QED
  BY <1>1, OptimizerInvariance, PTL

(* Rounding down never gives out too much, and misses at most one percent  *)
(* for each fund, for any number of funds and any bounds: the loop of      *)
(* _round_weights() reaches every fund at most once.                       *)
THEOREM ShortfallAlwaysFits == OptimizerSpec => []ShortfallFits
<1>1. OptimizerInv => ShortfallFits
  <2> SUFFICES ASSUME OptimizerInv, stage = "loop" PROVE short \in 0 .. Cardinality(Fund)
    BY DEF ShortfallFits
  <2>1. Solved /\ short = RoundHalfEven(Total - Sum(Down))
    BY DEF OptimizerInv, SharedInv, Shared, Solved
  <2> QED
    BY <2>1, DownFits
<1> QED
  BY <1>1, OptimizerInvariance, PTL

----------------------------------------------------------------------------
(* Whole-percent bounds with a percent of room for every fund.             *)

(* Multiples of a unit are ordered as their factors are.                   *)
LEMMA MultiplesKeepOrder ==
    ASSUME NEW n \in Nat, NEW a \in Int, NEW b \in Int, a =< b
    PROVE  n * a =< n * b
<1>1. PICK d \in Nat : b = a + d
  <2>1. b - a \in Nat /\ b = a + (b - a)
    OBVIOUS
  <2> QED
    BY <2>1
<1>2. n * b = n * a + n * d /\ n * d >= 0
  BY <1>1
<1> QED
  BY <1>2

(* A fund whose fraction stands out of the floating-point error: it is the *)
(* only kind that a percent is owed to.                                    *)
StandsOut(y) == 3 * Hair < Fraction(y)

Roomy(lo, hi) == Whole(lo) /\ Whole(hi) /\ hi - lo >= One - 2 * Hair

(* Rounded down, a weight is some whole percents; the solver's point is    *)
(* more than an error above them only if the fraction stands out, and then *)
(* the fund has room for one more.                                         *)
LEMMA FundRounds ==
    ASSUME NEW lo \in [Fund -> Nat], NEW hi \in [Fund -> Nat], NEW x, NEW p,
           IsPoint(p, x, lo, hi), \A f \in Fund : lo[f] =< hi[f],
           NEW f \in Fund, Roomy(lo[f], hi[f]),
           NEW b, b = Floored(x, lo, hi)[f]
    PROVE  /\ Pct(b) \in Int /\ Near(b, Pct(b))
           /\ p[f] - One * Pct(b) =< IF StandsOut(x[f]) THEN One + 4 * Hair ELSE 4 * Hair
           /\ StandsOut(x[f]) => b + One =< hi[f] + 2 * Hair
<1> DEFINE q == x[f] \div One
           r == Fraction(x[f])
           m == Pct(b)
           u == Pct(hi[f])
<1>1. x[f] \in Nat /\ p[f] \in Nat /\ lo[f] \in Nat /\ hi[f] \in Nat /\ lo[f] =< hi[f]
  BY DEF IsPoint
<1>2. /\ Floor(x[f]) = One * q /\ q \in Int /\ One * q \in Nat /\ r \in Nat
      /\ x[f] = One * q + r /\ r < One
  BY <1>1, FloorIs
<1>3. /\ -Hair =< x[f] - p[f] /\ x[f] - p[f] =< Hair
      /\ lo[f] - Hair =< p[f] /\ p[f] =< hi[f] + Hair
  BY DEF IsPoint
<1>4. b = Clip(One * q, lo[f], hi[f])
  BY <1>2 DEF Floored
<1>5. \/ b = One * q /\ lo[f] =< b /\ b =< hi[f]
      \/ b = lo[f] /\ One * q < b
      \/ b = hi[f] /\ b < One * q
  BY <1>1, <1>2, <1>4 DEF Clip
<1>6. Whole(lo[f]) /\ Whole(hi[f]) /\ hi[f] - lo[f] >= One - 2 * Hair
  BY DEF Roomy
<1>7. /\ 4 * Hair < One /\ One \in Nat \ {0} /\ Hair \in Nat
  BY Sizes
<1> HIDE DEF q, r
<1>8. u \in Int /\ Near(hi[f], u)
  BY <1>1, <1>6, <1>7, WholeIsNear
<1>9. b \in Nat /\ Whole(b)
  <2>1. Near(One * q, q)
    BY <1>2, <1>7 DEF Near
  <2>2. Whole(One * q)
    BY <1>2, <1>7, <2>1, NearIsWhole
  <2> QED
    BY <1>1, <1>2, <1>5, <1>6, <2>2
<1>10. m \in Int /\ Near(b, m)
  BY <1>7, <1>9, WholeIsNear
<1> HIDE DEF m, u
<1>11. One * m \in Int /\ One * u \in Int
  BY <1>7, <1>8, <1>10
<1>12. -Hair =< b - One * m /\ b - One * m =< Hair
  BY <1>10 DEF Near
<1>13. -Hair =< hi[f] - One * u /\ hi[f] - One * u =< Hair
  BY <1>8 DEF Near
<1>14. StandsOut(x[f]) <=> 3 * Hair < r
  BY DEF StandsOut, r
<1>15. CASE b = One * q /\ lo[f] =< b /\ b =< hi[f]
  <2>1. One * m < One * q + One /\ One * q < One * m + One
    BY <1>2, <1>7, <1>11, <1>12, <1>15
  <2>2. m = q
    BY <1>2, <1>7, <1>10, <2>1, Multiples
  <2>3. p[f] - One * m =< IF 3 * Hair < r THEN One + 4 * Hair ELSE 4 * Hair
    BY <1>1, <1>2, <1>3, <1>7, <2>2
  <2>4. ASSUME 3 * Hair < r PROVE b + One =< hi[f] + 2 * Hair
    <3>1. One * q < One * u
      BY <1>1, <1>2, <1>3, <1>7, <1>11, <1>13, <2>4
    <3>2. ~ u =< q
      BY <1>2, <1>7, <1>8, <1>11, <3>1, MultiplesKeepOrder
    <3>3. q + 1 =< u /\ q + 1 \in Int
      BY <1>2, <1>8, <3>2
    <3>4. One * (q + 1) =< One * u /\ One * (q + 1) = One * q + One
      BY <1>2, <1>7, <1>8, <3>3, MultiplesKeepOrder
    <3> QED
      BY <1>1, <1>2, <1>7, <1>11, <1>13, <1>15, <3>4
  <2> QED
    BY <1>10, <1>14, <2>3, <2>4 DEF m
<1>16. CASE b = lo[f] /\ One * q < b
  <2>1. One * q < One * m + One
    BY <1>1, <1>2, <1>7, <1>11, <1>12, <1>16
  <2>2. One * q =< One * m
    BY <1>2, <1>7, <1>10, <2>1, Multiples, MultiplesKeepOrder
  <2>3. p[f] - One * m =< IF 3 * Hair < r THEN One + 4 * Hair ELSE 4 * Hair
    BY <1>1, <1>2, <1>3, <1>7, <1>11, <2>2
  <2>4. b + One =< hi[f] + 2 * Hair
    BY <1>1, <1>6, <1>7, <1>16
  <2> QED
    BY <1>10, <1>14, <2>3, <2>4 DEF m
<1>17. CASE b = hi[f] /\ b < One * q
  <2>1. ~ 3 * Hair < r
    BY <1>1, <1>2, <1>3, <1>7, <1>17
  <2>2. p[f] - One * m =< 4 * Hair
    BY <1>1, <1>3, <1>7, <1>11, <1>12, <1>17
  <2> QED
    BY <1>10, <1>14, <2>1, <2>2 DEF m
<1> QED
  BY <1>5, <1>15, <1>16, <1>17

(* One more percent survives the final clip.                               *)
LEMMA PercentSurvives ==
    ASSUME NEW lo \in Nat, NEW hi \in Nat, Whole(hi), NEW b \in Nat, NEW m \in Int,
           lo =< b, Near(b, m), b + One =< hi + 2 * Hair
    PROVE  Near(Clip(b + One, lo, hi), m + 1)
<1> DEFINE u == Pct(hi)
<1>1. 4 * Hair < One /\ One \in Nat \ {0} /\ Hair \in Nat
  BY Sizes
<1>2. u \in Int /\ Near(hi, u)
  BY <1>1, WholeIsNear
<1> HIDE DEF u
<1>3. One * m \in Int /\ One * u \in Int /\ One * (m + 1) = One * m + One
  BY <1>1, <1>2
<1>4. -Hair =< b - One * m /\ b - One * m =< Hair /\ -Hair =< hi - One * u /\ hi - One * u =< Hair
  BY <1>2 DEF Near
<1>5. One * m < One * u
  BY <1>1, <1>3, <1>4
<1>6. m + 1 =< u /\ m + 1 \in Int
  BY <1>1, <1>2, <1>3, <1>5, MultiplesKeepOrder
<1>7. One * (m + 1) =< One * u
  BY <1>1, <1>2, <1>6, MultiplesKeepOrder
<1>8. Clip(b + One, lo, hi) = b + One \/ (Clip(b + One, lo, hi) = hi /\ hi < b + One)
  BY <1>1 DEF Clip
<1> QED
  BY <1>1, <1>3, <1>4, <1>7, <1>8 DEF Near

(* Errors of a hair each add up to the tolerance.                          *)
LEMMA SumIsNear ==
    ASSUME NEW x \in [Fund -> Int], NEW j \in [Fund -> Int], \A f \in Fund : Near(x[f], j[f])
    PROVE  /\ Sum(x) \in Int /\ Sum(j) \in Int
           /\ -Tolerance =< Sum(x) - One * Sum(j)
           /\ Sum(x) - One * Sum(j) =< Tolerance
<1> DEFINE z == [f \in Fund |-> One * j[f]]
           d == [f \in Fund |-> x[f] - One * j[f]]
<1>1. z \in [Fund -> Int] /\ \A f \in Fund : z[f] = One * j[f]
  BY Sizes
<1>2. d \in [Fund -> Int] /\ \A f \in Fund : d[f] = x[f] - z[f]
  BY Sizes
<1> HIDE DEF z, d
<1>3. Sum(z) = One * Sum(j)
  BY <1>1, Sizes, SumScales
<1>4. Sum(x) = Sum(z) + Sum(d)
  <2>1. ASSUME NEW f \in Fund PROVE x[f] = z[f] + d[f]
    <3>1. d[f] = x[f] - z[f] /\ x[f] \in Int /\ z[f] \in Int
      BY <1>1, <1>2
    <3> QED
      BY <3>1
  <2>2. IsFiniteSet(Fund)
    BY Sizes
  <2>3. z \in [Fund -> Int] /\ d \in [Fund -> Int]
    BY <1>1, <1>2
  <2> QED
    BY <2>1, <2>2, <2>3, SumAdds
<1>5. \A f \in Fund : -Hair =< d[f] /\ d[f] =< Hair
  BY <1>1, <1>2 DEF Near
<1>6. Sum(d) =< Hair * Cardinality(Fund) /\ (-Hair) * Cardinality(Fund) =< Sum(d)
  <2>1. Hair \in Int /\ -Hair \in Int
    BY Sizes
  <2> QED
    BY <1>2, <1>5, <2>1, Sizes, SumBounded
<1>7. (-Hair) * Cardinality(Fund) = -Tolerance
  BY Sizes
<1>8. Sum(x) \in Int /\ Sum(j) \in Int /\ Sum(d) \in Int /\ Sum(z) \in Int
  BY <1>1, <1>2, Sizes, SumType
<1> QED
  BY <1>3, <1>4, <1>6, <1>7, <1>8, Sizes

(* The first s funds of an order are s funds.                              *)
First(o, s) == {o[i] : i \in 1 .. s}

(* The first k of the order are k funds.                                   *)
LEMMA FirstAreAsMany ==
    ASSUME NEW x \in [Fund -> Nat], NEW o \in ByFraction(x), NEW s \in 0 .. Cardinality(Fund)
    PROVE  First(o, s) \in SUBSET Fund /\ Cardinality(First(o, s)) = s
<1> DEFINE g == [i \in 1 .. s |-> o[i]]
<1>1. /\ s \in Nat /\ Cardinality(Fund) \in Nat
      /\ \A i \in 1 .. s : i \in 1 .. Cardinality(Fund)
  BY Sizes
<1>2. First(o, s) \in SUBSET Fund
  BY <1>1, OrderFacts DEF First
<1>3. g \in Surjection(1 .. s, First(o, s))
  BY DEF First, Surjection
<1>4. g \in Injection(1 .. s, First(o, s))
  <2>1. \A i, j \in 1 .. s : g[i] = g[j] => i = j
    BY <1>1, OrderFacts
  <2> QED
    BY <1>3, <2>1 DEF Injection, IsInjective, Surjection
<1>5. IsFiniteSet(1 .. s) /\ Cardinality(1 .. s) = s
  BY <1>1, FS_Interval
<1> HIDE DEF g
<1>6. Cardinality(First(o, s)) = s
  BY <1>3, <1>4, <1>5, FS_Surjection
<1> QED
  BY <1>2, <1>6

(* If at least s fractions stand out, those of the first s funds do.       *)
LEMMA FirstStandOut ==
    ASSUME NEW x \in [Fund -> Nat], NEW o \in ByFraction(x), NEW s \in 0 .. Cardinality(Fund),
           s =< Cardinality({f \in Fund : StandsOut(x[f])}), NEW i \in 1 .. s
    PROVE  StandsOut(x[o[i]])
<1> SUFFICES ASSUME ~ StandsOut(x[o[i]]) PROVE FALSE
  OBVIOUS
<1> DEFINE n == Cardinality(Fund)
           Big == {f \in Fund : StandsOut(x[f])}
<1>1. /\ n \in Nat /\ s \in Nat /\ i \in 1 .. n /\ i - 1 \in 0 .. n /\ i =< s
      /\ IsFiniteSet(Fund) /\ Hair \in Nat
  BY Sizes
<1>2. /\ o \in [1 .. n -> Fund]
      /\ \A j, l \in 1 .. n : j < l => Fraction(x[o[j]]) >= Fraction(x[o[l]])
  BY OrderFacts
<1>3. \A f \in Fund : Fraction(x[f]) \in Nat
  BY FloorIs
<1>4. First(o, n) = Fund
  <2>1. First(o, n) \in SUBSET Fund /\ Cardinality(First(o, n)) = n
    BY <1>1, FirstAreAsMany
  <2> QED
    BY <1>1, <2>1, FS_Subset
<1>5. Big \subseteq First(o, i - 1)
  <2> SUFFICES ASSUME NEW f \in Fund, StandsOut(x[f]) PROVE f \in First(o, i - 1)
    OBVIOUS
  <2>1. PICK j \in 1 .. n : f = o[j]
    BY <1>4 DEF First
  <2>2. j < i
    <3> SUFFICES ASSUME i =< j PROVE FALSE
      BY <1>1, <2>1
    <3>1. CASE i = j
      BY <2>1, <3>1
    <3>2. CASE i < j
      <4>1. Fraction(x[o[i]]) >= Fraction(x[f])
        BY <1>1, <1>2, <2>1, <3>2
      <4>2. Fraction(x[o[i]]) \in Nat /\ Fraction(x[f]) \in Nat
        BY <1>1, <1>2, <1>3
      <4> QED
        BY <1>1, <4>1, <4>2 DEF StandsOut
    <3> QED
      BY <1>1, <2>1, <3>1, <3>2
  <2>3. j \in 1 .. i - 1
    BY <1>1, <2>1, <2>2
  <2> QED
    BY <2>1, <2>3 DEF First
<1>6. First(o, i - 1) \in SUBSET Fund /\ Cardinality(First(o, i - 1)) = i - 1
  BY <1>1, FirstAreAsMany
<1>7. Cardinality(Big) =< i - 1
  <2>1. IsFiniteSet(First(o, i - 1))
    BY <1>1, <1>6, FS_Subset
  <2> HIDE DEF Big
  <2> QED
    BY <1>5, <1>6, <2>1, FS_Subset
<1>8. s =< Cardinality(Big)
  OBVIOUS
<1>9. Cardinality(Big) \in Nat
  <2>1. Big \in SUBSET Fund
    OBVIOUS
  <2> QED
    BY <1>1, <2>1, FS_Subset, FS_CardinalityType
<1> QED
  BY <1>1, <1>7, <1>8, <1>9

(* With bounds that leave room, as many percents are handed out as are     *)
(* missing, and only to funds whose fraction stands out.                   *)
LEMMA MissingIsOwed ==
    ASSUME NEW lo \in [Fund -> Nat], NEW hi \in [Fund -> Nat], NEW x, NEW p,
           IsPoint(p, x, lo, hi), \A f \in Fund : lo[f] =< hi[f],
           \A f \in Fund : Roomy(lo[f], hi[f]),
           NEW b, b = Floored(x, lo, hi), b \in [Fund -> Nat],
           NEW m, m = [f \in Fund |-> Pct(b[f])],
           NEW s, s = RoundHalfEven(Total - Sum(b))
    PROVE  /\ m \in [Fund -> Int] /\ Sum(m) \in Int
           /\ s = Percents - Sum(m)
           /\ s =< Cardinality({f \in Fund : StandsOut(x[f])})
<1> DEFINE Big == {f \in Fund : StandsOut(x[f])}
           one == Count(Fund, Big)
           mc == [f \in Fund |-> m[f] + one[f]]
           z == [f \in Fund |-> One * mc[f]]
           d == [f \in Fund |-> p[f] - z[f]]
<1>1. IsFiniteSet(Fund) /\ One \in Nat \ {0} /\ Hair \in Nat
  BY Sizes
<1>2. ASSUME NEW f \in Fund
      PROVE  /\ Pct(b[f]) \in Int /\ Near(b[f], Pct(b[f]))
             /\ p[f] - One * Pct(b[f]) =< IF StandsOut(x[f]) THEN One + 4 * Hair ELSE 4 * Hair
  BY FundRounds
<1>3. m \in [Fund -> Int] /\ \A f \in Fund : Near(b[f], m[f])
  BY <1>2
<1>4. \A f \in Fund : p[f] - One * m[f] =< IF StandsOut(x[f]) THEN One + 4 * Hair ELSE 4 * Hair
  BY <1>2
<1>5. p \in [Fund -> Int] /\ Sum(p) = Total
  BY DEF IsPoint
<1>6. one \in [Fund -> Int] /\ Sum(one) = Cardinality(Big)
      /\ \A f \in Fund : one[f] = IF StandsOut(x[f]) THEN 1 ELSE 0
  <2>1. Big \in SUBSET Fund
    OBVIOUS
  <2>2. \A f \in Fund : one[f] = IF StandsOut(x[f]) THEN 1 ELSE 0
    BY DEF Count
  <2> HIDE DEF Big
  <2> QED
    BY <1>1, <2>1, <2>2, SumCounts
<1> HIDE DEF one
<1>7. mc \in [Fund -> Int] /\ \A f \in Fund : mc[f] = m[f] + one[f]
  BY <1>3, <1>6
<1> HIDE DEF mc
<1>8. z \in [Fund -> Int] /\ \A f \in Fund : z[f] = One * mc[f]
  BY <1>1, <1>7
<1> HIDE DEF z
<1>9. d \in [Fund -> Int] /\ \A f \in Fund : d[f] = p[f] - z[f]
  BY <1>5, <1>8
<1> HIDE DEF d
<1>10. /\ Sum(m) \in Int /\ Sum(mc) \in Int /\ Sum(z) \in Int /\ Sum(d) \in Int /\ Sum(b) \in Int
       /\ Cardinality(Big) \in Int
  <2>1. b \in [Fund -> Int]
    OBVIOUS
  <2>2. Sum(one) \in Int
    BY <1>1, <1>6, SumType
  <2> QED
    BY <1>1, <1>3, <1>6, <1>7, <1>8, <1>9, <2>1, <2>2, SumType
<1>11. Sum(mc) = Sum(m) + Cardinality(Big)
  BY <1>1, <1>3, <1>6, <1>7, SumAdds
<1>12. Sum(z) = One * Sum(mc)
  BY <1>1, <1>7, <1>8, SumScales
<1>13. Total = Sum(z) + Sum(d)
  <2>1. ASSUME NEW f \in Fund PROVE p[f] = z[f] + d[f]
    <3>1. d[f] = p[f] - z[f] /\ p[f] \in Int /\ z[f] \in Int
      BY <1>5, <1>8, <1>9
    <3> QED
      BY <3>1
  <2>2. z \in [Fund -> Int] /\ d \in [Fund -> Int] /\ p \in [Fund -> Int] /\ IsFiniteSet(Fund)
    BY <1>1, <1>5, <1>8, <1>9
  <2>3. Sum(p) = Sum(z) + Sum(d)
    BY <2>1, <2>2, SumAdds
  <2> QED
    BY <1>5, <2>3
<1>14. Sum(d) =< 4 * Tolerance
  <2>1. ASSUME NEW f \in Fund PROVE d[f] =< 4 * Hair
    <3>1. /\ p[f] \in Int /\ m[f] \in Int /\ mc[f] = m[f] + one[f]
          /\ d[f] = p[f] - One * mc[f]
      BY <1>3, <1>5, <1>7, <1>8, <1>9
    <3>2. One * (m[f] + 1) = One * m[f] + One /\ One * (m[f] + 0) = One * m[f] /\ One * m[f] \in Int
      BY <1>1, <3>1
    <3>3. CASE StandsOut(x[f])
      BY <1>1, <1>4, <1>6, <3>1, <3>2, <3>3
    <3>4. CASE ~ StandsOut(x[f])
      BY <1>1, <1>4, <1>6, <3>1, <3>2, <3>4
    <3> QED
      BY <3>3, <3>4
  <2>2. Sum(d) =< (4 * Hair) * Cardinality(Fund)
    <3>1. 4 * Hair \in Int
      BY <1>1
    <3> QED
      BY <1>1, <1>9, <2>1, <3>1, SumBounded
  <2>3. (4 * Hair) * Cardinality(Fund) = 4 * (Hair * Cardinality(Fund))
    BY Sizes
  <2> QED
    BY <2>2, <2>3, Sizes
<1>15. Percents =< Sum(mc)
  <2>1. One * Percents < One * Sum(mc) + One
    BY <1>10, <1>12, <1>13, <1>14, Sizes
  <2> QED
    BY <1>10, <2>1, Sizes, Multiples
<1>16. s = Percents - Sum(m)
  <2>1. -Tolerance =< Sum(b) - One * Sum(m) /\ Sum(b) - One * Sum(m) =< Tolerance
    BY <1>3, SumIsNear
  <2>2. Total - Sum(b) \in Int
    BY <1>10, Sizes
  <2>3. /\ s \in Int /\ -One =< 2 * ((Total - Sum(b)) - One * s)
        /\ 2 * ((Total - Sum(b)) - One * s) =< One
    BY <2>2, Sizes, RoundHalfEvenIsNear
  <2> DEFINE t == Percents - Sum(m)
  <2>4. t \in Int /\ One * t = One * Percents - One * Sum(m)
    BY <1>10, Sizes
  <2>5. One * Sum(m) \in Int /\ One * s \in Int
    BY <1>10, <2>3, Sizes
  <2> HIDE DEF t
  <2>6. One * s < One * t + One /\ One * t < One * s + One
    BY <1>10, <2>1, <2>3, <2>4, <2>5, Sizes
  <2>7. s =< t /\ t =< s
    BY <1>1, <2>3, <2>4, <2>6, Multiples
  <2> QED
    BY <2>3, <2>4, <2>7 DEF t
<1>17. s =< Cardinality(Big)
  BY <1>10, <1>11, <1>15, <1>16, Sizes
<1> QED
  BY <1>3, <1>10, <1>16, <1>17

(* The whole rounding, from the solver's point to the final clip.          *)
LEMMA RoomyRounds ==
    ASSUME OptimizerInv, outcome = "ok", RoomyBounds
    PROVE  WholePortfolio /\ \A f \in Fund : Whole(base[f])
<1> DEFINE m == [f \in Fund |-> Pct(Down[f])]
           inc == Count(Fund, First(order, short))
           got == [f \in Fund |-> m[f] + inc[f]]
<1>1. Solved /\ Shared /\ base = Clipped
  BY DEF OptimizerInv, RoundingInv, Solved, Shared
<1>2. /\ lb \in [Fund -> Nat] /\ ub \in [Fund -> Nat] /\ w \in Continuous(lb, ub)
      /\ Crossed = {} /\ base \in [Fund -> Units]
      /\ short = RoundHalfEven(Total - Sum(Down)) /\ order \in ByFraction(w)
  BY <1>1 DEF OptimizerInv, OptimizerTypeOK, SolvedInv, SharedInv
<1>3. \A f \in Fund : lb[f] =< ub[f]
  BY <1>2 DEF Crossed
<1>4. \A f \in Fund : Roomy(lb[f], ub[f])
  BY DEF RoomyBounds, Roomy
<1>5. PICK p : IsPoint(p, w, lb, ub)
  BY <1>2, ContinuousHasPoint
<1>6. w \in [Fund -> Nat]
  BY <1>5 DEF IsPoint
<1>7. Down \in [Fund -> Nat] /\ short \in 0 .. Cardinality(Fund)
  BY <1>1, <1>2, DownFits
<1>8. Down = Floored(w, lb, ub)
  BY DEF Down
<1>9. /\ m \in [Fund -> Int] /\ Sum(m) \in Int
      /\ short = Percents - Sum(m)
      /\ short =< Cardinality({f \in Fund : StandsOut(w[f])})
  BY <1>2, <1>3, <1>4, <1>5, <1>7, <1>8, MissingIsOwed
<1>10. \A f \in Fund : m[f] = Pct(Down[f])
  OBVIOUS
<1> HIDE DEF m
<1>11. ASSUME NEW f \in Fund
       PROVE  /\ m[f] \in Int /\ Near(Down[f], m[f])
              /\ StandsOut(w[f]) => Down[f] + One =< ub[f] + 2 * Hair
  BY <1>2, <1>3, <1>4, <1>5, <1>8, <1>10, FundRounds
<1>12. First(order, short) \in SUBSET Fund /\ Cardinality(First(order, short)) = short
  BY <1>2, <1>6, <1>7, FirstAreAsMany
<1>13. ASSUME NEW f \in First(order, short) PROVE StandsOut(w[f])
  <2>1. PICK i \in 1 .. short : f = order[i]
    BY DEF First
  <2> QED
    BY <1>2, <1>6, <1>7, <1>9, <2>1, FirstStandOut
<1>14. /\ inc \in [Fund -> Int] /\ Sum(inc) = short
       /\ \A f \in Fund : inc[f] = IF f \in First(order, short) THEN 1 ELSE 0
  <2>1. \A f \in Fund : inc[f] = IF f \in First(order, short) THEN 1 ELSE 0
    BY DEF Count
  <2> QED
    BY <1>12, <2>1, Sizes, SumCounts
<1> HIDE DEF inc
<1>15. got \in [Fund -> Int] /\ \A f \in Fund : got[f] = m[f] + inc[f]
  BY <1>9, <1>14
<1> HIDE DEF got
<1>16. ASSUME NEW f \in Fund PROVE Near(base[f], got[f])
  <2>1. /\ lb[f] \in Nat /\ ub[f] \in Nat /\ lb[f] =< Down[f] /\ Down[f] =< ub[f] /\ Down[f] \in Nat
    BY <1>1, <1>7, DownWithin
  <2>2. base[f] = Clip(Down[f] + (IF \E i \in 1 .. short : order[i] = f THEN One ELSE 0), lb[f], ub[f])
    BY <1>1 DEF Clipped, Handed
  <2>3. (\E i \in 1 .. short : order[i] = f) <=> f \in First(order, short)
    BY DEF First
  <2>4. CASE f \in First(order, short)
    <3>1. base[f] = Clip(Down[f] + One, lb[f], ub[f]) /\ got[f] = m[f] + 1
      BY <1>14, <1>15, <2>2, <2>3, <2>4
    <3>2. Down[f] + One =< ub[f] + 2 * Hair /\ m[f] \in Int /\ Near(Down[f], m[f])
      BY <1>11, <1>13, <2>4
    <3>3. Whole(ub[f])
      BY <1>4 DEF Roomy
    <3> QED
      BY <2>1, <3>1, <3>2, <3>3, PercentSurvives
  <2>5. CASE f \notin First(order, short)
    <3>1. base[f] = Clip(Down[f] + 0, lb[f], ub[f]) /\ got[f] = m[f] + 0
      BY <1>14, <1>15, <2>2, <2>3, <2>5
    <3>2. m[f] \in Int /\ Near(Down[f], m[f])
      BY <1>11
    <3>3. base[f] = Down[f] /\ got[f] = m[f]
      BY <2>1, <3>1, <3>2 DEF Clip
    <3> QED
      BY <3>2, <3>3
  <2> QED
    BY <2>4, <2>5
<1>17. base \in [Fund -> Int]
  BY <1>2, Sizes DEF Units
<1>18. Sum(got) = Percents
  <2>1. Sum(got) = Sum(m) + Sum(inc)
    BY <1>9, <1>14, <1>15, Sizes, SumAdds
  <2> QED
    BY <1>7, <1>9, <1>14, <2>1, Sizes
<1>19. WholePortfolio
  <2>1. /\ Sum(base) \in Int
        /\ -Tolerance =< Sum(base) - One * Sum(got) /\ Sum(base) - One * Sum(got) =< Tolerance
    BY <1>15, <1>16, <1>17, SumIsNear
  <2> QED
    BY <1>18, <2>1, Sizes DEF WholePortfolio, Off, Abs
<1>20. ASSUME NEW f \in Fund PROVE Whole(base[f])
  BY <1>15, <1>16, <1>17, Sizes, NearIsWhole
<1> QED
  BY <1>19, <1>20

(* For any number of funds, any point of the solver and any whole-percent  *)
(* bounds that leave every fund a percent of room, the rounded weights are *)
(* whole percents that sum to 100%: the percents _round_weights() hands    *)
(* out go to funds that have room for them, so the final clip takes none   *)
(* back.                                                                   *)
THEOREM RoomyRounding == OptimizerSpec => []RoomyBoundsSumToWhole
<1>1. OptimizerInv => RoomyBoundsSumToWhole
  BY RoomyRounds DEF RoomyBoundsSumToWhole
<1> QED
  BY <1>1, OptimizerInvariance, PTL
=============================================================================

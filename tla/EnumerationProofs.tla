------------------------- MODULE EnumerationProofs --------------------------
(***************************************************************************)
(* Lemmas on enumerations of finite sets, cited wherever a query or a      *)
(* series is one: every strict order of a finite set lists it, a list      *)
(* without repetition of the right length leaves nothing out, and the      *)
(* element of a given rank is the one that stands there.  What is said of  *)
(* numbers is for the calendars and the percents: division with remainder. *)
(***************************************************************************)
EXTENDS Enumerations, FunctionTheorems, FiniteSetTheorems, WellFoundedInduction, TLAPS

(* A strict total order of C, as the elements before each.                 *)
IsStrictOrder(C, before) ==
    /\ before \in [C -> SUBSET C]
    /\ \A x \in C : x \notin before[x]
    /\ \A x, y \in C : x \in before[y] => before[x] \subseteq before[y]
    /\ \A x, y \in C : x # y => x \in before[y] \/ y \in before[x]

Ranks(C, before) == [x \in C |-> Cardinality(before[x]) + 1]

IsListing(C, q) ==
    /\ q \in [1 .. Cardinality(C) -> C]
    /\ \A a, b \in 1 .. Cardinality(C) : a # b => q[a] # q[b]

(* The ranks are 1, 2, 3, ..., and they order the elements.                *)
LEMMA RanksOrder ==
    ASSUME NEW C, IsFiniteSet(C), NEW before, IsStrictOrder(C, before)
    PROVE  /\ Ranks(C, before) \in Bijection(C, 1 .. Cardinality(C))
           /\ \A x, y \in C : x \in before[y] <=>
                 Ranks(C, before)[x] < Ranks(C, before)[y]
<1> DEFINE n == Cardinality(C)
           rank == Ranks(C, before)
<1>1. n \in Nat
  BY FS_CardinalityType
<1>2. ASSUME NEW x \in C
      PROVE  /\ IsFiniteSet(before[x]) /\ Cardinality(before[x]) \in Nat
             /\ Cardinality(before[x] \cup {x}) = Cardinality(before[x]) + 1
             /\ IsFiniteSet(before[x] \cup {x})
             /\ rank[x] = Cardinality(before[x]) + 1
             /\ before[x] \subseteq C /\ x \notin before[x]
  <2>1. before[x] \subseteq C /\ x \notin before[x]
    BY DEF IsStrictOrder
  <2>2. IsFiniteSet(before[x]) /\ Cardinality(before[x]) \in Nat
    BY <2>1, FS_Subset, FS_CardinalityType
  <2>3. /\ IsFiniteSet(before[x] \cup {x})
        /\ Cardinality(before[x] \cup {x}) = Cardinality(before[x]) + 1
    BY <2>1, <2>2, FS_AddElement
  <2> QED
    BY <2>1, <2>2, <2>3 DEF Ranks
<1>3. ASSUME NEW x \in C PROVE rank[x] \in 1 .. n
  <2>1. before[x] \cup {x} \subseteq C
    BY <1>2
  <2>2. Cardinality(before[x] \cup {x}) =< n
    BY <2>1, FS_Subset
  <2> QED
    BY <1>1, <1>2, <2>2
<1>4. ASSUME NEW x \in C, NEW y \in C, x \in before[y]
      PROVE  rank[x] < rank[y]
  <2>1. before[x] \cup {x} \subseteq before[y]
    BY <1>4 DEF IsStrictOrder
  <2>2. Cardinality(before[x] \cup {x}) =< Cardinality(before[y])
    BY <1>2, <2>1, FS_Subset
  <2>3. Cardinality(before[x]) + 1 =< Cardinality(before[y])
    BY <1>2, <2>2
  <2>4. Cardinality(before[x]) \in Nat /\ Cardinality(before[y]) \in Nat
    BY <1>2
  <2>5. /\ rank[x] = Cardinality(before[x]) + 1
        /\ rank[y] = Cardinality(before[y]) + 1
    BY <1>2
  <2> HIDE DEF rank
  <2> QED
    BY <2>3, <2>4, <2>5
<1>5. ASSUME NEW x \in C, NEW y \in C, x # y PROVE rank[x] # rank[y]
  <2>1. x \in before[y] \/ y \in before[x]
    BY <1>5 DEF IsStrictOrder
  <2>2. rank[x] \in Int /\ rank[y] \in Int
    BY <1>3
  <2> QED
    BY <1>4, <2>1, <2>2
<1>6. rank \in Injection(C, 1 .. n)
  <2>1. rank \in [C -> 1 .. n]
    BY <1>3 DEF Ranks
  <2>2. \A x, y \in C : rank[x] = rank[y] => x = y
    BY <1>5
  <2> QED
    BY <2>1, <2>2 DEF Injection, IsInjective
<1>7. IsFiniteSet(1 .. n) /\ Cardinality(1 .. n) = n
  BY <1>1, FS_Interval
<1>8. rank \in Surjection(C, 1 .. n)
  BY <1>6, <1>7, FS_Injection
<1>9. \A x, y \in C : x \in before[y] <=> rank[x] < rank[y]
  <2> SUFFICES ASSUME NEW x \in C, NEW y \in C, rank[x] < rank[y]
               PROVE  x \in before[y]
    BY <1>4
  <2>1. rank[x] \in Int /\ rank[y] \in Int /\ x # y
    BY <1>3
  <2>2. ~(y \in before[x])
    BY <1>4, <2>1
  <2> QED
    BY <2>1, <2>2 DEF IsStrictOrder
<1> QED
  BY <1>6, <1>8, <1>9 DEF Bijection

(* So there is a list of the elements in that order.                       *)
LEMMA OrderedListing ==
    ASSUME NEW C, IsFiniteSet(C), NEW before, IsStrictOrder(C, before)
    PROVE  \E q : /\ IsListing(C, q)
                  /\ \A a, b \in 1 .. Cardinality(C) :
                        a < b => q[a] \in before[q[b]]
<1> DEFINE n == Cardinality(C)
           rank == Ranks(C, before)
           q == [k \in 1 .. n |-> CHOOSE x \in C : rank[x] = k]
<1>1. /\ rank \in Bijection(C, 1 .. n)
      /\ \A x, y \in C : x \in before[y] <=> rank[x] < rank[y]
  BY RanksOrder
<1>2. \A k \in 1 .. n : \E x \in C : rank[x] = k
  BY <1>1 DEF Bijection, Surjection
<1> HIDE DEF rank
<1>3. \A k \in 1 .. n : q[k] \in C /\ rank[q[k]] = k
  BY <1>2
<1>4. q \in [1 .. n -> C]
  BY <1>3
<1> HIDE DEF q
<1>5. IsListing(C, q)
  BY <1>3, <1>4 DEF IsListing
<1>6. \A a, b \in 1 .. n : a < b => q[a] \in before[q[b]]
  BY <1>1, <1>3
<1> QED
  BY <1>5, <1>6

(* A list without repetition, as long as the set is large, is of all of it.*)
LEMMA ListingIsOnto ==
    ASSUME NEW C, IsFiniteSet(C), NEW q, IsListing(C, q)
    PROVE  \A x \in C : \E k \in 1 .. Cardinality(C) : q[k] = x
<1> DEFINE n == Cardinality(C)
<1>1. n \in Nat
  BY FS_CardinalityType
<1>2. Cardinality(1 .. n) = n
  BY <1>1, FS_Interval
<1>3. q \in Injection(1 .. n, C)
  BY DEF IsListing, Injection, IsInjective
<1>4. q \in Surjection(1 .. n, C)
  BY <1>2, <1>3, FS_Injection
<1> QED
  BY <1>4 DEF Surjection

(* In a list that follows the order, the element of rank k is the k-th.    *)
LEMMA ListingRanks ==
    ASSUME NEW C, IsFiniteSet(C), NEW before, IsStrictOrder(C, before),
           NEW q, IsListing(C, q),
           \A a, b \in 1 .. Cardinality(C) : a < b => q[a] \in before[q[b]]
    PROVE  \A k \in 1 .. Cardinality(C) : Ranks(C, before)[q[k]] = k
<1> DEFINE n == Cardinality(C)
<1>1. n \in Nat
  BY FS_CardinalityType
<1> SUFFICES ASSUME NEW k \in 1 .. n PROVE Cardinality(before[q[k]]) = k - 1
  <2>1. \A k \in 1 .. n : q[k] \in C
    BY DEF IsListing
  <2> QED
    BY <1>1, <2>1 DEF Ranks
<1> DEFINE A == 1 .. k - 1
           B == before[q[k]]
           g == [j \in A |-> q[j]]
<1>2. /\ A \subseteq 1 .. n /\ IsFiniteSet(A) /\ Cardinality(A) = k - 1
      /\ \A j \in 1 .. n : j \in A <=> j < k
  <2>1. k \in Int /\ 1 =< k /\ k =< n
    BY <1>1
  <2>2. IsFiniteSet(1 .. k - 1) /\ Cardinality(1 .. k - 1) = k - 1
    <3>1. /\ IsFiniteSet(1 .. k - 1)
          /\ Cardinality(1 .. k - 1) =
                IF 1 > k - 1 THEN 0 ELSE (k - 1) - 1 + 1
      BY <2>1, FS_Interval
    <3> QED
      BY <2>1, <3>1
  <2> QED
    BY <1>1, <2>1, <2>2
<1>3. /\ \A j \in 1 .. n : q[j] \in C
      /\ \A i, j \in 1 .. n : q[i] = q[j] => i = j
  BY DEF IsListing
<1>4. g \in [A -> B]
  BY <1>2
<1>5. \A i, j \in A : g[i] = g[j] => i = j
  BY <1>2, <1>3
<1>6. \A x \in B : \E j \in A : g[j] = x
  <2> TAKE x \in B
  <2>1. x \in C /\ x # q[k]
    BY <1>3 DEF IsStrictOrder
  <2>2. PICK j \in 1 .. n : q[j] = x
    BY <2>1, ListingIsOnto
  <2>3. ~(k < j)
    <3> SUFFICES ASSUME k < j PROVE FALSE
      OBVIOUS
    <3>1. q[k] \in before[x] /\ x \in before[q[k]]
      BY <2>2
    <3>2. x \in before[x]
      BY <1>3, <2>1, <3>1 DEF IsStrictOrder
    <3> QED
      BY <2>1, <3>2 DEF IsStrictOrder
  <2>4. j < k
    BY <1>1, <2>1, <2>2, <2>3
  <2> QED
    BY <1>2, <2>2, <2>4
<1> HIDE DEF A, B, g
<1>7. g \in Bijection(A, B)
  BY <1>4, <1>5, <1>6 DEF Bijection, Injection, IsInjective, Surjection
<1>8. Cardinality(B) = k - 1
  BY <1>2, <1>7, FS_Bijection DEF ExistsBijection
<1> QED
  BY <1>8 DEF B

(* So an order has one list.                                               *)
LEMMA ListingIsUnique ==
    ASSUME NEW C, IsFiniteSet(C), NEW before, IsStrictOrder(C, before),
           NEW q, IsListing(C, q),
           \A a, b \in 1 .. Cardinality(C) : a < b => q[a] \in before[q[b]],
           NEW r, IsListing(C, r),
           \A a, b \in 1 .. Cardinality(C) : a < b => r[a] \in before[r[b]]
    PROVE  q = r
<1>1. Ranks(C, before) \in Injection(C, 1 .. Cardinality(C))
  BY RanksOrder DEF Bijection
<1>2. \A k \in 1 .. Cardinality(C) :
         /\ q[k] \in C /\ r[k] \in C
         /\ Ranks(C, before)[q[k]] = k /\ Ranks(C, before)[r[k]] = k
  <2>1. \A k \in 1 .. Cardinality(C) : Ranks(C, before)[q[k]] = k
    BY ListingRanks
  <2>2. \A k \in 1 .. Cardinality(C) : Ranks(C, before)[r[k]] = k
    BY ListingRanks
  <2> QED
    BY <2>1, <2>2 DEF IsListing
<1>3. \A k \in 1 .. Cardinality(C) : q[k] = r[k]
  BY <1>1, <1>2 DEF Injection, IsInjective
<1>4. /\ q = [k \in 1 .. Cardinality(C) |-> q[k]]
      /\ r = [k \in 1 .. Cardinality(C) |-> r[k]]
  BY DEF IsListing
<1> QED
  BY <1>3, <1>4

----------------------------------------------------------------------------
(* The integers below form a strict order.                                 *)
LEMMA BelowIsOrder ==
    ASSUME NEW S \in SUBSET Int
    PROVE  IsStrictOrder(S, [x \in S |-> Below(S, x)])
<1> DEFINE below == [x \in S |-> Below(S, x)]
<1>1. \A x \in S : below[x] = {y \in S : y < x}
  BY DEF Below
<1>2. below \in [S -> SUBSET S]
  BY DEF Below
<1> HIDE DEF below
<1>3. \A x, y \in S : x \in below[y] <=> x < y
  BY <1>1
<1>4. ASSUME NEW x \in S, NEW y \in S
      PROVE  /\ x \in below[y] => below[x] \subseteq below[y]
             /\ x \notin below[x]
             /\ x # y => x \in below[y] \/ y \in below[x]
  <2>1. x \in Int /\ y \in Int /\ \A z \in S : z \in Int
    OBVIOUS
  <2>2. below[x] = {z \in S : z < x} /\ below[y] = {z \in S : z < y}
    BY <1>1
  <2>3. ASSUME x < y, NEW z \in S, z < x PROVE z < y
    BY <2>1, <2>3
  <2>4. x < y => below[x] \subseteq below[y]
    BY <2>2, <2>3
  <2> QED
    BY <1>3, <2>1, <2>4
<1> QED
  BY <1>2, <1>4 DEF IsStrictOrder, below

(* InOrder lists a set: each element at its rank, from least to greatest.  *)
LEMMA InOrderLists ==
    ASSUME NEW S \in SUBSET Int, IsFiniteSet(S)
    PROVE  /\ Cardinality(S) \in Nat
           /\ IsListing(S, InOrder(S))
           /\ InOrder(S) \in Seq(S) /\ Len(InOrder(S)) = Cardinality(S)
           /\ \A k \in 1 .. Cardinality(S) :
                 /\ InOrder(S)[k] \in S
                 /\ Cardinality(Below(S, InOrder(S)[k])) = k - 1
           /\ \A x \in S :
                 /\ Cardinality(Below(S, x)) + 1 \in 1 .. Cardinality(S)
                 /\ InOrder(S)[Cardinality(Below(S, x)) + 1] = x
           /\ \A a, b \in 1 .. Cardinality(S) :
                 a < b => InOrder(S)[a] < InOrder(S)[b]
<1> DEFINE n == Cardinality(S)
           below == [x \in S |-> Below(S, x)]
           rank == Ranks(S, below)
<1>1. n \in Nat
  BY FS_CardinalityType
<1>2. /\ rank \in Bijection(S, 1 .. n)
      /\ \A x, y \in S : x \in below[y] <=> rank[x] < rank[y]
  BY BelowIsOrder, RanksOrder
<1>3. \A x \in S : rank[x] = Cardinality(Below(S, x)) + 1
  BY DEF Ranks
<1>4. \A x, y \in S : x < y <=> rank[x] < rank[y]
  BY <1>2 DEF Below
<1>5. /\ \A x \in S : rank[x] \in 1 .. n
      /\ \A x, y \in S : rank[x] = rank[y] => x = y
      /\ \A k \in 1 .. n : \E x \in S : rank[x] = k
  BY <1>2 DEF Bijection, Injection, IsInjective, Surjection
<1> HIDE DEF rank, below
<1>6. ASSUME NEW x \in S
      PROVE  Cardinality(Below(S, x)) \in Nat
  <2>1. Below(S, x) \subseteq S
    BY DEF Below
  <2> QED
    BY <2>1, FS_Subset, FS_CardinalityType
<1>7. ASSUME NEW k \in 1 .. n
      PROVE  /\ InOrder(S)[k] \in S
             /\ Cardinality(Below(S, InOrder(S)[k])) = k - 1
             /\ rank[InOrder(S)[k]] = k
  <2>1. PICK x \in S : rank[x] = k
    BY <1>5
  <2>2. Cardinality(Below(S, x)) = k - 1
    BY <1>1, <1>3, <1>6, <2>1
  <2>3. /\ InOrder(S)[k] \in S
        /\ Cardinality(Below(S, InOrder(S)[k])) = k - 1
    BY <2>2 DEF InOrder
  <2>4. rank[InOrder(S)[k]] = (k - 1) + 1
    BY <1>3, <2>3
  <2> QED
    BY <1>1, <2>3, <2>4
<1>8. InOrder(S) \in [1 .. n -> S]
  BY <1>7 DEF InOrder
<1>9. InOrder(S) \in Seq(S) /\ Len(InOrder(S)) = n
  BY <1>1, <1>8
<1>10. IsListing(S, InOrder(S))
  BY <1>7, <1>8 DEF IsListing
<1>11. ASSUME NEW x \in S
       PROVE  /\ Cardinality(Below(S, x)) + 1 \in 1 .. n
              /\ InOrder(S)[Cardinality(Below(S, x)) + 1] = x
  <2>1. rank[x] \in 1 .. n /\ rank[x] = Cardinality(Below(S, x)) + 1
    BY <1>3, <1>5
  <2>2. InOrder(S)[rank[x]] \in S /\ rank[InOrder(S)[rank[x]]] = rank[x]
    BY <1>7, <2>1
  <2>3. InOrder(S)[rank[x]] = x
    BY <1>5, <2>2
  <2> QED
    BY <2>1, <2>3
<1>12. ASSUME NEW a \in 1 .. n, NEW b \in 1 .. n, a < b
       PROVE  InOrder(S)[a] < InOrder(S)[b]
  BY <1>4, <1>7, <1>12
<1> QED
  BY <1>1, <1>7, <1>9, <1>10, <1>11, <1>12

(* A map that keeps the order takes one enumeration to the other.          *)
LEMMA InOrderOfImage ==
    ASSUME NEW S \in SUBSET Int, IsFiniteSet(S), NEW T \in SUBSET Int,
           NEW f \in [S -> T],
           \A y \in T : \E x \in S : f[x] = y,
           \A x, y \in S : x < y => f[x] < f[y]
    PROVE  /\ IsFiniteSet(T) /\ Cardinality(T) = Cardinality(S)
           /\ \A k \in 1 .. Cardinality(S) : InOrder(T)[k] = f[InOrder(S)[k]]
<1>1. \A x, y \in S : x < y <=> f[x] < f[y]
  <2> SUFFICES ASSUME NEW x \in S, NEW y \in S, f[x] < f[y] PROVE x < y
    OBVIOUS
  <2>1. x \in Int /\ y \in Int /\ f[x] \in Int /\ f[y] \in Int
    OBVIOUS
  <2>2. ~(y < x) /\ x # y
    BY <2>1
  <2> QED
    BY <2>1, <2>2
<1>2. \A x, y \in S : f[x] = f[y] => x = y
  BY <1>1
<1>3. f \in Bijection(S, T)
  BY <1>2 DEF Bijection, Injection, IsInjective, Surjection
<1>4. IsFiniteSet(T) /\ Cardinality(T) = Cardinality(S)
  BY <1>3, FS_Bijection DEF ExistsBijection
<1>5. ASSUME NEW x \in S
      PROVE  Cardinality(Below(T, f[x])) = Cardinality(Below(S, x))
  <2> DEFINE A == Below(S, x)
             B == Below(T, f[x])
             g == [y \in A |-> f[y]]
  <2>1. A \subseteq S /\ B \subseteq T
    BY DEF Below
  <2>2. g \in [A -> B]
    BY <1>1 DEF Below
  <2>3. \A y, z \in A : g[y] = g[z] => y = z
    BY <1>2, <2>1
  <2>4. \A z \in B : \E y \in A : g[y] = z
    <3> TAKE z \in B
    <3>1. z \in T /\ z < f[x]
      BY DEF Below
    <3>2. PICK y \in S : f[y] = z
      BY <3>1
    <3>3. y \in A
      BY <1>1, <3>1, <3>2 DEF Below
    <3> QED
      BY <3>2, <3>3
  <2> HIDE DEF A, B, g
  <2>5. g \in Bijection(A, B)
    BY <2>2, <2>3, <2>4 DEF Bijection, Injection, IsInjective, Surjection
  <2>6. IsFiniteSet(A)
    BY <2>1, FS_Subset
  <2>7. Cardinality(B) = Cardinality(A)
    BY <2>5, <2>6, FS_Bijection DEF ExistsBijection
  <2> QED
    BY <2>7 DEF A, B
<1>6. ASSUME NEW k \in 1 .. Cardinality(S)
      PROVE  InOrder(T)[k] = f[InOrder(S)[k]]
  <2> DEFINE x == InOrder(S)[k]
  <2>1. x \in S /\ Cardinality(Below(S, x)) = k - 1
    BY InOrderLists
  <2> HIDE DEF x
  <2>2. f[x] \in T /\ Cardinality(Below(T, f[x])) = k - 1
    BY <1>5, <2>1
  <2>3. InOrder(T)[Cardinality(Below(T, f[x])) + 1] = f[x]
    BY <1>4, <2>2, InOrderLists
  <2>4. Cardinality(Below(T, f[x])) + 1 = k
    BY <2>2, FS_CardinalityType
  <2> QED
    BY <2>3, <2>4 DEF x
<1> QED
  BY <1>4, <1>6

(* The first and the last element.                                         *)
LEMMA EndsOfSet ==
    ASSUME NEW S \in SUBSET Int, IsFiniteSet(S), S # {}
    PROVE  /\ \E x \in S : \A y \in S : x =< y
           /\ \E x \in S : \A y \in S : y =< x
<1> DEFINE n == Cardinality(S)
           L == InOrder(S)
<1>1. /\ n \in Nat
      /\ \A k \in 1 .. n : L[k] \in S
      /\ \A x \in S : \E k \in 1 .. n : L[k] = x
      /\ \A a, b \in 1 .. n : a < b => L[a] < L[b]
  BY InOrderLists
<1> HIDE DEF n, L
<1>2. n >= 1
  <2>1. PICK k \in 1 .. n : L[k] \in S
    BY <1>1
  <2> QED
    BY <1>1, <2>1
<1>3. 1 \in 1 .. n /\ n \in 1 .. n
  BY <1>1, <1>2
<1>4. ASSUME NEW y \in S PROVE L[1] =< y /\ y =< L[n]
  <2>1. PICK k \in 1 .. n : L[k] = y
    BY <1>1
  <2>2. /\ k = 1 \/ 1 < k
        /\ k = n \/ k < n
    BY <1>1
  <2>3. y \in Int /\ L[1] \in Int /\ L[n] \in Int
    BY <1>1, <1>3
  <2>4. (L[1] = L[k] \/ L[1] < L[k]) /\ (L[k] = L[n] \/ L[k] < L[n])
    BY <1>1, <1>3, <2>2
  <2> QED
    BY <2>1, <2>3, <2>4
<1> QED
  BY <1>1, <1>3, <1>4

(* Sets that agree below d are enumerated alike as far as d.               *)
LEMMA InOrderOfPrefix ==
    ASSUME NEW S \in SUBSET Int, IsFiniteSet(S),
           NEW T \in SUBSET Int, IsFiniteSet(T),
           NEW d \in Int, Below(S, d) = Below(T, d),
           NEW k \in 1 .. Cardinality(S), InOrder(S)[k] < d
    PROVE  k \in 1 .. Cardinality(T) /\ InOrder(T)[k] = InOrder(S)[k]
<1> DEFINE x == InOrder(S)[k]
<1>1. x \in S /\ Cardinality(Below(S, x)) = k - 1 /\ Cardinality(S) \in Nat
  BY InOrderLists
<1>2. x \in T
  BY <1>1 DEF Below
<1>3. \A y \in S \cup T : y < x => y < d
  <2>1. x \in Int /\ x < d
    BY <1>1
  <2> HIDE DEF x
  <2> QED
    BY <2>1
<1> HIDE DEF x
<1>4. Below(S, x) = Below(T, x)
  BY <1>3 DEF Below
<1>5. /\ Cardinality(Below(T, x)) + 1 \in 1 .. Cardinality(T)
      /\ InOrder(T)[Cardinality(Below(T, x)) + 1] = x
  BY <1>2, InOrderLists
<1>6. Cardinality(Below(T, x)) + 1 = k
  BY <1>1, <1>4
<1> QED
  BY <1>5, <1>6 DEF x

(* What a function makes of a finite set is finite and no larger, and as   *)
(* large if it makes no two the same.                                      *)
LEMMA ImageIsFinite ==
    ASSUME NEW S, IsFiniteSet(S), NEW T, NEW f \in [S -> T], \A y \in T : \E x \in S : f[x] = y
    PROVE  /\ IsFiniteSet(T) /\ Cardinality(S) \in Nat /\ Cardinality(T) \in Nat
           /\ Cardinality(T) =< Cardinality(S)
           /\ (\A x, y \in S : x # y => f[x] # f[y]) => Cardinality(T) = Cardinality(S)
<1>1. f \in Surjection(S, T)
  BY DEF Surjection
<1>2. /\ IsFiniteSet(T) /\ Cardinality(T) =< Cardinality(S)
      /\ Cardinality(T) = Cardinality(S) <=> f \in Injection(S, T)
  BY <1>1, FS_Surjection
<1>3. (\A x, y \in S : x # y => f[x] # f[y]) => f \in Injection(S, T)
  BY DEF Injection, IsInjective
<1> QED
  BY <1>2, <1>3, FS_CardinalityType

(* A sequence that ascends through all of S is S in order.                 *)
LEMMA AscendingIsInOrder ==
    ASSUME NEW S \in SUBSET Int, NEW n \in Nat, NEW q \in [1 .. n -> S],
           \A x \in S : \E k \in 1 .. n : q[k] = x,
           \A a, b \in 1 .. n : a < b => q[a] < q[b]
    PROVE  IsFiniteSet(S) /\ Cardinality(S) = n /\ q = InOrder(S)
<1> DEFINE below == [x \in S |-> Below(S, x)]
<1>1. IsFiniteSet(1 .. n) /\ Cardinality(1 .. n) = n
  BY FS_Interval
<1>2. ASSUME NEW a \in 1 .. n, NEW b \in 1 .. n, a # b PROVE q[a] # q[b]
  <2>1. q[a] \in Int /\ q[b] \in Int /\ (a < b \/ b < a)
    <3>1. q[a] \in S /\ q[b] \in S
      OBVIOUS
    <3>2. a < b \/ b < a
      BY <1>2
    <3> QED
      BY <3>1, <3>2
  <2>2. CASE a < b
    <3>1. q[a] < q[b]
      BY <2>2
    <3> QED
      BY <2>1, <3>1
  <2>3. CASE b < a
    <3>1. q[b] < q[a]
      BY <2>3
    <3> QED
      BY <2>1, <3>1
  <2> QED
    BY <2>1, <2>2, <2>3
<1>3. IsFiniteSet(S) /\ Cardinality(S) = n
  BY <1>1, <1>2, ImageIsFinite
<1>4. IsListing(S, q)
  BY <1>2, <1>3 DEF IsListing
<1>5. \A a, b \in 1 .. Cardinality(S) : a < b => q[a] \in below[q[b]]
  BY <1>3 DEF Below
<1>6. /\ IsListing(S, InOrder(S))
      /\ \A a, b \in 1 .. Cardinality(S) : a < b => InOrder(S)[a] \in below[InOrder(S)[b]]
  <2>1. /\ IsListing(S, InOrder(S))
        /\ \A a \in 1 .. Cardinality(S) : InOrder(S)[a] \in S
        /\ \A a, b \in 1 .. Cardinality(S) : a < b => InOrder(S)[a] < InOrder(S)[b]
    BY <1>3, InOrderLists
  <2> QED
    BY <2>1 DEF Below
<1>7. IsStrictOrder(S, below)
  BY BelowIsOrder
<1> HIDE DEF below
<1>8. q = InOrder(S)
  BY <1>3, <1>4, <1>5, <1>6, <1>7, ListingIsUnique
<1> QED
  BY <1>3, <1>8

(* The positions of a sequence.                                            *)
LEMMA IntervalSize ==
    ASSUME NEW n \in Nat
    PROVE  IsFiniteSet(1 .. n) /\ Cardinality(1 .. n) = n
BY FS_Interval

(* What is left of a sequence's positions.                                 *)
LEMMA PositionsSplit ==
    ASSUME NEW n \in Nat, NEW B \in SUBSET (1 .. n)
    PROVE  /\ IsFiniteSet(B) /\ Cardinality(B) \in 0 .. n
           /\ Cardinality((1 .. n) \ B) = n - Cardinality(B)
<1>1. IsFiniteSet(1 .. n) /\ Cardinality(1 .. n) = n
  BY FS_Interval
<1>2. IsFiniteSet(B) /\ Cardinality(B) \in Nat /\ Cardinality(B) =< n
  BY <1>1, FS_Subset, FS_CardinalityType
<1>3. (1 .. n) \cap B = B
  OBVIOUS
<1>4. Cardinality((1 .. n) \ B) = n - Cardinality(B)
  BY <1>1, <1>3, FS_Difference
<1> QED
  BY <1>2, <1>4

----------------------------------------------------------------------------
(* Induction, stated with sets of numbers, and recursion along a sequence. *)

(* A nonempty set of natural numbers has a least element.                  *)
LEMMA LeastNat ==
    ASSUME NEW T \in SUBSET Nat, T # {}
    PROVE  \E n \in T : \A m \in T : n =< m
<1>1. PICK n \in T : \A m \in T : ~ (<<m, n>> \in OpToRel(<, Nat))
  BY NatLessThanWellFounded, WFMin
<1>2. \A m \in T : ~ m < n
  BY <1>1 DEF OpToRel
<1> QED
  BY <1>2

(* A set of numbers with 0, closed under successor, has all of them.       *)
LEMMA InductiveNat ==
    ASSUME NEW T, 0 \in T, \A n \in Nat : n \in T => n + 1 \in T
    PROVE  \A n \in Nat : n \in T
<1> SUFFICES ASSUME Nat \ T # {} PROVE FALSE
  OBVIOUS
<1>1. PICK n \in Nat \ T : \A m \in Nat \ T : n =< m
  BY LeastNat
<1>2. n # 0 /\ n - 1 \in Nat /\ ~ n =< n - 1
  BY <1>1
<1>3. n - 1 \in T
  BY <1>1, <1>2
<1> QED
  BY <1>1, <1>2, <1>3

(* f starts with first on 0 .. n and goes on by these steps.               *)
Follows(f, n, first, step) ==
    f = [i \in 0 .. n |-> IF i = 0 THEN first ELSE step[i][f[i - 1]]]

(* A recursion over the first n numbers has a solution.                    *)
LEMMA RecursionExists ==
    ASSUME NEW X, NEW first \in X, NEW n \in Nat, NEW step \in [1 .. n -> [X -> X]]
    PROVE  \E f \in [0 .. n -> X] : Follows(f, n, first, step)
<1> DEFINE T == {k \in Nat : k =< n => \E f \in [0 .. k -> X] : Follows(f, k, first, step)}
<1>1. 0 \in T
  <2> DEFINE f == [i \in 0 .. 0 |-> first]
  <2>1. f \in [0 .. 0 -> X] /\ Follows(f, 0, first, step)
    BY DEF Follows
  <2> HIDE DEF f
  <2> QED
    BY <2>1
<1>2. ASSUME NEW k \in Nat, k \in T PROVE k + 1 \in T
  <2> SUFFICES ASSUME k + 1 =< n PROVE \E f \in [0 .. k + 1 -> X] : Follows(f, k + 1, first, step)
    OBVIOUS
  <2>1. k =< n /\ k + 1 \in 1 .. n
    OBVIOUS
  <2>2. PICK f \in [0 .. k -> X] : Follows(f, k, first, step)
    BY <1>2, <2>1
  <2> DEFINE next == step[k + 1][f[k]]
             g == [i \in 0 .. k + 1 |-> IF i = k + 1 THEN next ELSE f[i]]
  <2>3. next \in X
    <3>1. step[k + 1] \in [X -> X] /\ f[k] \in X
      BY <2>1
    <3> QED
      BY <3>1
  <2>4. \A i \in 0 .. k + 1 : i = k + 1 \/ i \in 0 .. k
    OBVIOUS
  <2>5. g \in [0 .. k + 1 -> X]
    <3> HIDE DEF next
    <3> QED
      BY <2>3, <2>4
  <2>6. ASSUME NEW i \in 0 .. k + 1
        PROVE  g[i] = IF i = 0 THEN first ELSE step[i][g[i - 1]]
    <3>1. CASE i = k + 1
      <4>1. i # 0 /\ i - 1 = k /\ k \in 0 .. k + 1 /\ k # k + 1
        BY <3>1
      <4>2. g[i - 1] = f[k] /\ g[i] = next
        <5> HIDE DEF next
        <5> QED
          BY <3>1, <4>1
      <4> QED
        BY <3>1, <4>1, <4>2
    <3>2. CASE i # k + 1
      <4>1. i \in 0 .. k
        BY <2>4, <3>2
      <4>2. f[i] = IF i = 0 THEN first ELSE step[i][f[i - 1]]
        BY <2>2, <4>1 DEF Follows
      <4>3. g[i] = f[i]
        <5> HIDE DEF next
        <5> QED
          BY <3>2
      <4>4. i # 0 => g[i - 1] = f[i - 1]
        <5>1. i # 0 => i - 1 \in 0 .. k + 1 /\ i - 1 # k + 1
          BY <4>1
        <5> HIDE DEF next
        <5> QED
          BY <5>1
      <4> HIDE DEF g
      <4> QED
        BY <4>2, <4>3, <4>4
    <3> QED
      BY <3>1, <3>2
  <2>7. g = [i \in 0 .. k + 1 |-> g[i]]
    OBVIOUS
  <2> HIDE DEF g
  <2>8. Follows(g, k + 1, first, step)
    BY <2>6, <2>7 DEF Follows
  <2> QED
    BY <2>5, <2>8
<1>3. \A k \in Nat : k \in T
  <2> HIDE DEF T
  <2> QED
    BY <1>1, <1>2, InductiveNat
<1>4. n \in T
  BY <1>3
<1> QED
  BY <1>4

----------------------------------------------------------------------------
(* Numbers.                                                                *)

(* Quotient and remainder.                                                 *)
LEMMA DivMod ==
    ASSUME NEW n \in Nat \ {0}, NEW x \in Int
    PROVE  /\ x \div n \in Int /\ x % n \in Int
           /\ x = n * (x \div n) + (x % n)
           /\ 0 =< x % n /\ x % n < n
<1>1. x = n * (x \div n) + (x % n)
  OBVIOUS
<1>2. 0 =< x % n /\ x % n < n
  OBVIOUS
<1> QED
  BY <1>1, <1>2

(* Multiples of n that are less than n apart are ordered as their factors. *)
LEMMA Multiples ==
    ASSUME NEW n \in Nat \ {0}, NEW a \in Int, NEW b \in Int, n * a < n * b + n
    PROVE  a =< b
<1> SUFFICES ASSUME b < a PROVE FALSE
  OBVIOUS
<1>1. PICK d \in Nat : a = b + 1 + d
  <2>1. a - b - 1 \in Nat /\ a = b + 1 + (a - b - 1)
    OBVIOUS
  <2> QED
    BY <2>1
<1>2. n * a = n * b + n + n * d
  BY <1>1
<1>3. n * d >= 0
  OBVIOUS
<1> QED
  BY <1>2, <1>3

(* The numbers that have the quotient k, and their order.                  *)
LEMMA QuotientIs ==
    ASSUME NEW n \in Nat \ {0}, NEW x \in Int, NEW k \in Int
    PROVE  x \div n = k <=> n * k =< x /\ x < n * k + n
<1> DEFINE q == x \div n
           r == x % n
<1>1. q \in Int /\ r \in Int /\ x = n * q + r /\ 0 =< r /\ r < n
  BY DivMod
<1> HIDE DEF q, r
<1>2. n * q \in Int /\ n * k \in Int /\ n \in Int
  BY <1>1
<1>3. q = k => n * k =< x /\ x < n * k + n
  BY <1>1, <1>2
<1>4. ASSUME n * k =< x, x < n * k + n PROVE q = k
  <2>1. n * k < n * q + n /\ n * q < n * k + n
    BY <1>1, <1>2, <1>4
  <2>2. k =< q /\ q =< k
    BY <1>1, <2>1, Multiples
  <2> QED
    BY <1>1, <2>2
<1> QED
  BY <1>3, <1>4 DEF q

(* A larger number has no smaller quotient.                                *)
LEMMA QuotientsKeepOrder ==
    ASSUME NEW n \in Nat \ {0}, NEW x \in Int, NEW y \in Int, x =< y
    PROVE  x \div n \in Int /\ x \div n =< y \div n /\ (x >= 0 => x \div n >= 0)
<1> DEFINE p == x \div n
           q == y \div n
<1>1. p \in Int /\ q \in Int
  BY DivMod
<1>2. n * p =< x /\ x < n * p + n /\ n * q =< y /\ y < n * q + n
  BY <1>1, QuotientIs
<1> HIDE DEF p, q
<1>3. n * p \in Int /\ n * q \in Int /\ n \in Int
  BY <1>1
<1>4. n * p < n * q + n
  BY <1>2, <1>3
<1>5. p =< q
  BY <1>1, <1>4, Multiples
<1>6. x >= 0 => p >= 0
  <2> SUFFICES ASSUME x >= 0 PROVE 0 =< p
    BY <1>1
  <2>1. n * 0 < n * p + n /\ 0 \in Int
    BY <1>2, <1>3
  <2> QED
    BY <1>1, <2>1, Multiples
<1> QED
  BY <1>1, <1>5, <1>6 DEF p, q
=============================================================================

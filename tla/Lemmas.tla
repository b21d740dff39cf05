-------------------------------- MODULE Lemmas --------------------------------
(* Facts about numbers and finite sets that the proofs of several components *)
(* rest on.                                                                  *)
EXTENDS Integers, Sequences, FiniteSets, FiniteSetTheorems, WellFoundedInduction, TLAPS

------------------------------------------------------------------------------
(* Arithmetic of "every save_freq steps".                                    *)

\* A multiple of a number is divisible by it.
LEMMA Multiple == ASSUME NEW k \in Nat, NEW f \in Nat \ {0} PROVE (k * f) % f = 0
BY SMTT(30)

\* Among any f consecutive numbers there is a multiple of f.
LEMMA MilestoneAhead ==
  ASSUME NEW n \in Nat, NEW f \in Nat \ {0}
  PROVE  \E m \in n + 1 .. n + f : m % f = 0
<1> DEFINE d == n \div f
           e == n % f
<1>1. d \in Nat /\ e \in 0 .. f - 1 /\ n = f * d + e
  BY SMTT(30)
<1> HIDE DEF d, e
<1> DEFINE k == d + 1
<1>2. k * f = f * d + f /\ k \in Nat
  BY <1>1, SMTT(30)
<1>3. k * f \in n + 1 .. n + f
  <2> DEFINE a == f * d
  <2>1. a \in Nat /\ k * f = a + f /\ n = a + e
    BY <1>1, <1>2
  <2> HIDE DEF a, k
  <2>2. QED
    BY <1>1, <2>1
<1>4. (k * f) % f = 0
  BY <1>2, Multiple
<1>5. QED
  BY <1>3, <1>4

------------------------------------------------------------------------------
(* The least and the greatest of a set of numbers, and counting.             *)

\* Any set of natural numbers has a least one.
LEMMA LeastNumber ==
  ASSUME NEW S \in SUBSET Nat, S # {}
  PROVE  \E n \in S : \A m \in S : n <= m
<1>1. PICK n \in S : \A m \in S : <<m, n>> \notin OpToRel(<, Nat)
  BY WFMin, NatLessThanWellFounded, Zenon
<1>2. \A m \in S : ~ (m < n)
  BY <1>1, Zenon DEF OpToRel
<1>3. QED
  BY <1>2

\* The first n numbers.
LEMMA FirstNumbers ==
  ASSUME NEW n \in Nat
  PROVE  IsFiniteSet(1 .. n) /\ Cardinality(1 .. n) = n
<1>1. 1 \in Int /\ n \in Int
  OBVIOUS
<1>2. IsFiniteSet(1 .. n) /\ Cardinality(1 .. n) = IF 1 > n THEN 0 ELSE n - 1 + 1
  BY <1>1, FS_Interval
<1>3. QED
  BY <1>2

\* A part of a finite set that is not all of it is smaller.
LEMMA SmallerSet ==
  ASSUME NEW S, IsFiniteSet(S), NEW T \in SUBSET S, NEW x \in S, x \notin T
  PROVE  /\ IsFiniteSet(T) /\ Cardinality(T) \in Nat /\ Cardinality(S) \in Nat
         /\ Cardinality(T) < Cardinality(S)
<1>1. IsFiniteSet(T) /\ Cardinality(T) <= Cardinality(S) /\ Cardinality(S) # Cardinality(T)
  BY FS_Subset
<1>2. Cardinality(T) \in Nat /\ Cardinality(S) \in Nat
  BY <1>1, FS_CardinalityType
<1>3. QED
  BY <1>1, <1>2

\* A finite set of natural numbers has a greatest one: the one with most
\* elements up to it.
LEMMA GreatestNumber ==
  ASSUME NEW S \in SUBSET Nat, IsFiniteSet(S), S # {}
  PROVE  \E n \in S : \A m \in S : m <= n
<1> DEFINE UpTo(x) == {y \in S : y <= x}
           rest(x) == Cardinality(S) - Cardinality(UpTo(x))
<1>1. \A x \in S : Cardinality(UpTo(x)) \in Nat /\ Cardinality(S) \in Nat /\ rest(x) \in Nat
  <2>1. \A x \in S : UpTo(x) \in SUBSET S
    OBVIOUS
  <2>2. \A x \in S : IsFiniteSet(UpTo(x)) /\ Cardinality(UpTo(x)) <= Cardinality(S)
    BY <2>1, FS_Subset
  <2>3. QED
    BY <2>2, FS_CardinalityType
<1>2. PICK n \in S : \A m \in S : rest(n) <= rest(m)
  <2> DEFINE R == {rest(x) : x \in S}
  <2>1. R \in SUBSET Nat /\ R # {}
    BY <1>1
  <2> HIDE DEF R
  <2>2. PICK r \in R : \A q \in R : r <= q
    BY <2>1, LeastNumber
  <2>3. QED
    BY <2>2 DEF R
<1>3. ASSUME NEW m \in S, m > n PROVE FALSE
  <2>0. m <= m /\ ~ (m <= n) /\ \A y \in S : y <= n => y <= m
    BY <1>3
  <2>1. UpTo(n) \in SUBSET UpTo(m) /\ m \in UpTo(m) /\ m \notin UpTo(n) /\ UpTo(m) \in SUBSET S
    BY <2>0, Zenon
  <2>2. IsFiniteSet(UpTo(m))
    BY <2>1, FS_Subset
  <2> HIDE DEF UpTo
  <2>3. Cardinality(UpTo(n)) < Cardinality(UpTo(m))
    BY <2>1, <2>2, SmallerSet
  <2>4. QED
    BY <2>3, <1>1, <1>2, <1>3
<1>4. QED
  BY <1>3

\* A function on the first n numbers is a sequence of length n.
LEMMA AsSequence ==
  ASSUME NEW S, NEW n \in Nat, NEW f \in [1 .. n -> S]
  PROVE  f \in Seq(S) /\ Len(f) = n
OBVIOUS

------------------------------------------------------------------------------
(* The places of the elements of an order.                                   *)

\* A map that names each of the first n numbers exactly once.
NamesOnce(idx, n) ==
  /\ idx \in [1 .. n -> 1 .. n]
  /\ \A k, l \in 1 .. n : idx[k] = idx[l] => k = l
  /\ \A i \in 1 .. n : \E k \in 1 .. n : idx[k] = i

\* R orders the first n numbers from the lowest on.
Orders(R, n) ==
  /\ \A i \in 1 .. n : <<i, i>> \in R
  /\ \A i, j \in 1 .. n : <<i, j>> \in R \/ <<j, i>> \in R
  /\ \A i, j \in 1 .. n : <<i, j>> \in R /\ <<j, i>> \in R => i = j
  /\ \A i, j, k \in 1 .. n : <<i, j>> \in R /\ <<j, k>> \in R => <<i, k>> \in R

\* Where each is in that order.
RanksIn(R, n) == [i \in 1 .. n |-> Cardinality({j \in 1 .. n : <<j, i>> \in R})]

\* Places that go with the order.
Follows(pos, R, n) == \A i, j \in 1 .. n : pos[i] <= pos[j] => <<i, j>> \in R

\* Counting what an element is not below gives every element a place of its
\* own, and every place an element.
LEMMA Ranking ==
  ASSUME NEW n \in Nat, NEW R, Orders(R, n),
         NEW pos, pos = RanksIn(R, n)
  PROVE  NamesOnce(pos, n) /\ Follows(pos, R, n)
<1> DEFINE D == 1 .. n
           Upto(i) == {j \in D : <<j, i>> \in R}
<1>1. IsFiniteSet(D) /\ Cardinality(D) = n
  BY FirstNumbers
<1>2. \A i \in D : pos[i] = Cardinality(Upto(i))
  BY DEF RanksIn
<1>3. /\ \A i \in D : <<i, i>> \in R
      /\ \A i, j \in D : <<i, j>> \in R \/ <<j, i>> \in R
      /\ \A i, j \in D : <<i, j>> \in R /\ <<j, i>> \in R => i = j
      /\ \A i, j, k \in D : <<i, j>> \in R /\ <<j, k>> \in R => <<i, k>> \in R
  BY Zenon DEF Orders
<1>d. pos = [i \in D |-> Cardinality(Upto(i))]
  BY DEF RanksIn
<1> HIDE DEF D
<1>4. \A i \in D : /\ Upto(i) \in SUBSET D /\ IsFiniteSet(Upto(i))
                   /\ Cardinality(Upto(i)) \in Nat /\ Cardinality(Upto(i)) <= n
  <2>1. \A i \in D : Upto(i) \in SUBSET D
    OBVIOUS
  <2>2. \A i \in D : IsFiniteSet(Upto(i)) /\ Cardinality(Upto(i)) <= Cardinality(D)
    BY <1>1, <2>1, FS_Subset
  <2>3. QED
    BY <1>1, <2>1, <2>2, FS_CardinalityType
<1>5. \A i \in D : Cardinality(Upto(i)) # 0
  <2>1. \A i \in D : i \in Upto(i)
    BY <1>3
  <2>2. QED
    BY <1>4, <2>1, FS_EmptySet
<1>6. ASSUME NEW i \in D, NEW j \in D, <<i, j>> \in R, i # j
      PROVE  pos[i] < pos[j]
  <2>1. Upto(i) \in SUBSET Upto(j)
    BY <1>3, <1>6
  <2>2. j \in Upto(j) /\ j \notin Upto(i)
    BY <1>3, <1>6
  <2>3. Cardinality(Upto(i)) < Cardinality(Upto(j))
    BY <1>4, <2>1, <2>2, SmallerSet
  <2>4. QED
    BY <1>2, <2>3
<1>7. pos \in [D -> D]
  <2>1. ASSUME NEW i \in D PROVE Cardinality(Upto(i)) \in D
    <3> DEFINE c == Cardinality(Upto(i))
    <3>1. c \in Nat /\ c # 0 /\ c <= n
      BY <1>4, <1>5
    <3> HIDE DEF c
    <3>2. c \in D
      BY <3>1 DEF D
    <3>3. QED
      BY <3>2 DEF c
  <2>2. QED
    BY <2>1, <1>d
<1>8. \A i, j \in D : pos[i] = pos[j] => i = j
  <2>1. SUFFICES ASSUME NEW i \in D, NEW j \in D, i # j PROVE pos[i] # pos[j]
    OBVIOUS
  <2>2. pos[i] \in Nat /\ pos[j] \in Nat
    BY <1>7 DEF D
  <2>3. pos[i] < pos[j] \/ pos[j] < pos[i]
    BY <1>3, <1>6, <2>1
  <2>4. QED
    BY <2>2, <2>3
<1>9. pos \in Injection(D, D)
  BY <1>7, <1>8, Zenon DEF Injection, IsInjective
<1>10. pos \in Surjection(D, D)
  BY <1>1, <1>9, FS_Injection
<1>11. \A k \in D : \E i \in D : pos[i] = k
  BY <1>10, Zenon DEF Surjection
<1>12. NamesOnce(pos, n)
  BY <1>7, <1>8, <1>11, Zenon DEF D, NamesOnce
<1>13. \A i, j \in D : pos[i] <= pos[j] => <<i, j>> \in R
  <2>1. SUFFICES ASSUME NEW i \in D, NEW j \in D, <<i, j>> \notin R PROVE pos[j] < pos[i]
    BY <1>7 DEF D
  <2>2. <<j, i>> \in R /\ i # j
    BY <1>3, <2>1
  <2>3. QED
    BY <1>6, <2>2
<1>14. QED
  BY <1>12, <1>13, Zenon DEF D, Follows

\* In a finite set of numbers every rank belongs to exactly one of them.
LEMMA RankOfNumber ==
  ASSUME NEW S \in SUBSET Nat, IsFiniteSet(S),
         NEW k \in 0 .. Cardinality(S) - 1
  PROVE  /\ \E p \in S : Cardinality({q \in S : q < p}) = k
         /\ \A p, r \in S : /\ Cardinality({q \in S : q < p}) = k
                            /\ Cardinality({q \in S : q < r}) = k
                            => p = r
<1> DEFINE n == Cardinality(S)
           Below(p) == {q \in S : q < p}
           D == 0 .. n - 1
           rank == [p \in S |-> Cardinality(Below(p))]
<1>1. n \in Nat /\ k \in D
  BY FS_CardinalityType
<1>2. \A p \in S : Below(p) \in SUBSET S /\ p \notin Below(p)
  OBVIOUS
<1>3. \A p \in S : IsFiniteSet(Below(p)) /\ Cardinality(Below(p)) \in Nat
                     /\ Cardinality(Below(p)) < n
  <2> HIDE DEF Below
  <2>1. QED
    BY <1>2, SmallerSet
<1>4. \A p, r \in S : p < r => Cardinality(Below(p)) < Cardinality(Below(r))
  <2> SUFFICES ASSUME NEW p \in S, NEW r \in S, p < r
               PROVE  Cardinality(Below(p)) < Cardinality(Below(r))
    OBVIOUS
  <2>0. ~ (p < p) /\ \A q \in S : q < p => q < r
    OBVIOUS
  <2>1. Below(p) \in SUBSET Below(r) /\ p \in Below(r) /\ p \notin Below(p)
    BY <2>0, Zenon
  <2>2. IsFiniteSet(Below(r))
    BY <1>3
  <2> HIDE DEF Below
  <2>3. QED
    BY <2>1, <2>2, SmallerSet
<1>5. rank \in [S -> D]
  <2>1. \A p \in S : Cardinality(Below(p)) \in D
    <3> SUFFICES ASSUME NEW p \in S PROVE Cardinality(Below(p)) \in D
      OBVIOUS
    <3> DEFINE c == Cardinality(Below(p))
    <3>1. c \in Nat /\ c < n
      BY <1>3
    <3> HIDE DEF c, n
    <3>2. c \in D
      BY <1>1, <3>1
    <3>3. QED
      BY <3>2 DEF c
  <2> HIDE DEF D, Below
  <2>2. QED
    BY <2>1
<1>6. \A p, r \in S : Cardinality(Below(p)) = Cardinality(Below(r)) => p = r
  <2> SUFFICES ASSUME NEW p \in S, NEW r \in S, p # r
               PROVE  Cardinality(Below(p)) # Cardinality(Below(r))
    OBVIOUS
  <2>1. p < r \/ r < p
    OBVIOUS
  <2> HIDE DEF Below
  <2>2. QED
    BY <1>3, <1>4, <2>1
<1>7. rank \in Injection(S, D)
  <2>1. \A p, r \in S : rank[p] = rank[r] => p = r
    BY <1>6
  <2> HIDE DEF rank, D
  <2>2. QED
    BY <1>5, <2>1, Zenon DEF Injection, IsInjective
<1>8. IsFiniteSet(D) /\ Cardinality(D) = n
  <2> HIDE DEF n
  <2>1. 0 \in Int /\ n - 1 \in Int
    BY <1>1
  <2>2. IsFiniteSet(D) /\ Cardinality(D) = IF 0 > n - 1 THEN 0 ELSE (n - 1) - 0 + 1
    BY <2>1, FS_Interval
  <2>3. QED
    BY <1>1, <2>2
<1>9. rank \in Surjection(S, D)
  <2> HIDE DEF rank, D
  <2>1. IsFiniteSet(D) /\ Cardinality(S) = Cardinality(D)
    BY <1>8
  <2>2. QED
    BY <1>7, <2>1, FS_Injection
<1>10. \E p \in S : rank[p] = k
  <2> HIDE DEF rank, D
  <2>1. QED
    BY <1>1, <1>9, Zenon DEF Surjection
<1>11. QED
  BY <1>6, <1>10, Zenon

------------------------------------------------------------------------------
(* Strict orders, and the first few of a set.                                *)

\* R puts the elements of S in a strict order.
StrictlyOrders(R, S) ==
  /\ \A i \in S : <<i, i>> \notin R
  /\ \A i, j \in S : i # j => <<i, j>> \in R \/ <<j, i>> \in R
  /\ \A i, j, k \in S : <<i, j>> \in R /\ <<j, k>> \in R => <<i, k>> \in R

\* How many come before each.
RankBy(R, S) == [i \in S |-> Cardinality({j \in S : <<j, i>> \in R})]

\* Ranks are the numbers from 0 on, each of one element.
LEMMA StrictRanking ==
  ASSUME NEW S, NEW R, IsFiniteSet(S), StrictlyOrders(R, S)
  PROVE  /\ Cardinality(S) \in Nat
         /\ RankBy(R, S) \in [S -> 0 .. Cardinality(S) - 1]
         /\ \A i, j \in S : RankBy(R, S)[i] = RankBy(R, S)[j] => i = j
         /\ \A k \in 0 .. Cardinality(S) - 1 : \E i \in S : RankBy(R, S)[i] = k
<1> DEFINE n == Cardinality(S)
           Before(i) == {j \in S : <<j, i>> \in R}
           D == 0 .. n - 1
           rank == RankBy(R, S)
<1>1. n \in Nat
  BY FS_CardinalityType
<1>2. \A i \in S : Before(i) \in SUBSET S /\ i \notin Before(i) /\ rank[i] = Cardinality(Before(i))
  BY Zenon DEF StrictlyOrders, RankBy
<1>3. \A i \in S : IsFiniteSet(Before(i)) /\ rank[i] \in Nat /\ rank[i] < n
  <2> HIDE DEF Before, rank
  <2>1. QED
    BY <1>2, SmallerSet
<1>4. \A i, j \in S : <<i, j>> \in R => rank[i] < rank[j]
  <2> SUFFICES ASSUME NEW i \in S, NEW j \in S, <<i, j>> \in R PROVE rank[i] < rank[j]
    OBVIOUS
  <2>1. Before(i) \in SUBSET Before(j) /\ i \in Before(j) /\ i \notin Before(i)
    BY Zenon DEF StrictlyOrders
  <2> HIDE DEF Before, rank
  <2>2. QED
    BY <1>2, <1>3, <2>1, SmallerSet
<1>5. rank \in [S -> D]
  <2>1. \A i \in S : rank[i] \in D
    <3> SUFFICES ASSUME NEW i \in S PROVE rank[i] \in D
      OBVIOUS
    <3> DEFINE c == rank[i]
    <3>1. c \in Nat /\ c < n
      BY <1>3
    <3> HIDE DEF c, n, rank
    <3>2. c \in D
      BY <1>1, <3>1
    <3>3. QED
      BY <3>2 DEF c
  <2>2. rank = [i \in S |-> rank[i]]
    BY DEF RankBy
  <2> HIDE DEF rank, D
  <2>3. QED
    BY <2>1, <2>2
<1>6. \A i, j \in S : rank[i] = rank[j] => i = j
  <2> SUFFICES ASSUME NEW i \in S, NEW j \in S, i # j PROVE rank[i] # rank[j]
    OBVIOUS
  <2>1. <<i, j>> \in R \/ <<j, i>> \in R
    BY DEF StrictlyOrders
  <2>2. rank[i] < rank[j] \/ rank[j] < rank[i]
    BY <1>4, <2>1, Zenon
  <2> DEFINE a == rank[i]
             b == rank[j]
  <2>3. a \in Nat /\ b \in Nat /\ (a < b \/ b < a)
    BY <1>3, <2>2, Zenon
  <2> HIDE DEF a, b
  <2>4. a # b
    BY <2>3
  <2>5. QED
    BY <2>4 DEF a, b
<1>7. rank \in Injection(S, D)
  <2> HIDE DEF rank, D
  <2>1. QED
    BY <1>5, <1>6, Zenon DEF Injection, IsInjective
<1>8. IsFiniteSet(D) /\ Cardinality(D) = n
  <2> HIDE DEF n
  <2>1. 0 \in Int /\ n - 1 \in Int
    BY <1>1
  <2>2. IsFiniteSet(D) /\ Cardinality(D) = IF 0 > n - 1 THEN 0 ELSE (n - 1) - 0 + 1
    BY <2>1, FS_Interval
  <2>3. QED
    BY <1>1, <2>2
<1>9. rank \in Surjection(S, D)
  <2> HIDE DEF rank, D
  <2>1. IsFiniteSet(D) /\ Cardinality(S) = Cardinality(D)
    BY <1>8
  <2>2. QED
    BY <1>7, <2>1, FS_Injection
<1>10. \A k \in D : \E i \in S : rank[i] = k
  <2> HIDE DEF rank, D
  <2>1. QED
    BY <1>9, Zenon DEF Surjection
<1>11. QED
  BY <1>1, <1>5, <1>6, <1>10

\* Numbers are strictly ordered.
Ascending(S) == {p \in S \X S : p[1] < p[2]}

\* The order of the numbers is strict, and ranks them by their size.
LEMMA AscendingOrders ==
  ASSUME NEW S \in SUBSET Nat
  PROVE  /\ StrictlyOrders(Ascending(S), S)
         /\ RankBy(Ascending(S), S) = [i \in S |-> Cardinality({j \in S : j < i})]
<1>1. \A i, j \in S : <<i, j>> \in Ascending(S) <=> i < j
  BY DEF Ascending
<1>2. StrictlyOrders(Ascending(S), S)
  BY <1>1 DEF StrictlyOrders
<1>3. \A i \in S : {j \in S : <<j, i>> \in Ascending(S)} = {j \in S : j < i}
  BY <1>1
<1>4. QED
  BY <1>2, <1>3, Zenon DEF RankBy

\* The elements of the first n ranks.
FirstOf(S, r, n) == {i \in S : r[i] < n}

\* At most n elements have the first n ranks.
LEMMA FirstOfRank ==
  ASSUME NEW S, NEW r, NEW n \in Nat, IsFiniteSet(S), r \in [S -> Nat],
         \A i, j \in S : r[i] = r[j] => i = j
  PROVE  /\ IsFiniteSet(FirstOf(S, r, n))
         /\ Cardinality(FirstOf(S, r, n)) \in 0 .. n
<1> DEFINE L == FirstOf(S, r, n)
           D == 0 .. n - 1
           f == [i \in L |-> r[i]]
<1>1. IsFiniteSet(L) /\ Cardinality(L) \in Nat
  <2>1. L \in SUBSET S
    BY DEF FirstOf
  <2> HIDE DEF L
  <2>2. QED
    BY <2>1, FS_Subset, FS_CardinalityType
<1>2. IsFiniteSet(D) /\ Cardinality(D) = n
  <2>1. 0 \in Int /\ n - 1 \in Int
    OBVIOUS
  <2>2. IsFiniteSet(D) /\ Cardinality(D) = IF 0 > n - 1 THEN 0 ELSE (n - 1) - 0 + 1
    BY <2>1, FS_Interval
  <2>3. QED
    BY <2>2
<1>3. f \in [L -> D]
  BY DEF FirstOf
<1>4. \A i, j \in L : f[i] = f[j] => i = j
  BY DEF FirstOf
<1> HIDE DEF f, L, D
<1>5. f \in Injection(L, D)
  BY <1>3, <1>4, Zenon DEF Injection, IsInjective
<1>6. Cardinality(L) <= n
  BY <1>2, <1>5, FS_Injection
<1>7. QED
  BY <1>1, <1>6 DEF L

\* As many as there are, if each of these ranks is one's.
LEMMA AllOfRank ==
  ASSUME NEW S, NEW r, NEW n \in Nat, IsFiniteSet(S), r \in [S -> Nat],
         \A i, j \in S : r[i] = r[j] => i = j,
         \A k \in 0 .. n - 1 : \E i \in S : r[i] = k
  PROVE  IsFiniteSet(FirstOf(S, r, n)) /\ Cardinality(FirstOf(S, r, n)) = n
<1> DEFINE L == FirstOf(S, r, n)
           D == 0 .. n - 1
           f == [i \in L |-> r[i]]
<1>1. IsFiniteSet(L) /\ Cardinality(L) \in 0 .. n
  BY FirstOfRank
<1>2. IsFiniteSet(D) /\ Cardinality(D) = n
  <2>1. 0 \in Int /\ n - 1 \in Int
    OBVIOUS
  <2>2. IsFiniteSet(D) /\ Cardinality(D) = IF 0 > n - 1 THEN 0 ELSE (n - 1) - 0 + 1
    BY <2>1, FS_Interval
  <2>3. QED
    BY <2>2
<1>3. f \in [L -> D]
  BY DEF FirstOf
<1>4. \A k \in D : \E i \in L : f[i] = k
  <2> SUFFICES ASSUME NEW k \in D PROVE \E i \in L : f[i] = k
    OBVIOUS
  <2>1. PICK i \in S : r[i] = k
    OBVIOUS
  <2>2. i \in L /\ f[i] = k
    BY <2>1 DEF FirstOf
  <2>3. QED
    BY <2>2
<1> HIDE DEF f, L, D
<1>5. f \in Surjection(L, D)
  BY <1>3, <1>4, Zenon DEF Surjection
<1>6. Cardinality(D) <= Cardinality(L)
  BY <1>1, <1>5, FS_Surjection
<1>7. QED
  BY <1>1, <1>2, <1>6 DEF L

------------------------------------------------------------------------------
(* Blocks of f places: the first f, the next f, and so on.                   *)

\* A later block starts where an earlier one has ended, or after that.
LEMMA BlocksApart ==
  ASSUME NEW a \in Nat, NEW b \in Nat, NEW f \in Nat \ {0}, a < b
  PROVE  a * f + f <= b * f /\ a * f \in Nat /\ b * f \in Nat
<1> DEFINE c == b - a - 1
<1>1. c \in Nat /\ b = a + 1 + c
  OBVIOUS
<1> HIDE DEF c
<1>2. c * f \in Nat /\ a * f \in Nat
  BY <1>1, SMTT(30)
<1>3. (a + 1 + c) * f = a * f + f + c * f
  BY <1>1, SMTT(30)
<1> DEFINE x == a * f
           y == c * f
           z == b * f
<1>4. x \in Nat /\ y \in Nat /\ z = x + f + y
  BY <1>1, <1>2, <1>3
<1> HIDE DEF x, y, z
<1>5. x + f <= z /\ z \in Nat
  BY <1>4
<1>6. QED
  BY <1>2, <1>5 DEF x, z

\* The block of a place is the one it lies in.
LEMMA BlockOf ==
  ASSUME NEW i \in Nat, NEW f \in Nat \ {0}
  PROVE  /\ i \div f \in Nat
         /\ (i \div f) * f <= i /\ i < (i \div f) * f + f
         /\ \A k \in Nat : k * f <= i /\ i < k * f + f => i \div f = k
<1> DEFINE d == i \div f
<1>1. d \in Nat /\ d * f <= i /\ i < d * f + f
  BY SMTT(30)
<1> HIDE DEF d
<1>2. ASSUME NEW k \in Nat, k * f <= i, i < k * f + f
      PROVE  d = k
  <2> DEFINE x == d * f
             y == k * f
  <2>1. x \in Nat /\ y \in Nat
    BY <1>1, SMTT(30)
  <2>2. d < k => x + f <= y
    BY <1>1, BlocksApart
  <2>3. k < d => y + f <= x
    BY <1>1, BlocksApart
  <2>4. x <= i /\ i < x + f /\ y <= i /\ i < y + f
    BY <1>1, <1>2
  <2> HIDE DEF x, y
  <2>5. ~ (d < k) /\ ~ (k < d)
    BY <2>1, <2>2, <2>3, <2>4
  <2>6. QED
    BY <1>1, <2>5
<1>3. QED
  BY <1>1, <1>2 DEF d

\* The places of the first c blocks are the first c * f.
LEMMA BlockBelow ==
  ASSUME NEW i \in Nat, NEW f \in Nat \ {0}, NEW c \in Nat
  PROVE  i < c * f <=> i \div f < c
<1> DEFINE d == i \div f
           x == d * f
           y == c * f
<1>1. d \in Nat /\ x <= i /\ i < x + f
  BY BlockOf
<1> HIDE DEF d
<1>2. x \in Nat /\ y \in Nat
  BY <1>1, SMTT(30)
<1>3. d < c => x + f <= y
  BY <1>1, BlocksApart
<1>4. c < d => y + f <= x
  BY <1>1, BlocksApart
<1>5. c = d => y = x
  OBVIOUS
<1> HIDE DEF x, y
<1>6. i < y <=> d < c
  BY <1>1, <1>2, <1>3, <1>4, <1>5
<1>7. QED
  BY <1>6 DEF d, y

\* Places behind n whole blocks are n blocks further on.
LEMMA BlockShift ==
  ASSUME NEW i \in Nat, NEW f \in Nat \ {0}, NEW n \in Nat
  PROVE  n * f \in Nat /\ (n * f + i) \div f = n + i \div f
<1> DEFINE d == i \div f
           k == n + d
           x == n * f
           y == d * f
<1>1. d \in Nat /\ y <= i /\ i < y + f
  BY BlockOf
<1> HIDE DEF d
<1>2. x \in Nat /\ y \in Nat
  BY <1>1, SMTT(30)
<1>3. k \in Nat /\ k * f = x + y
  BY <1>1, SMTT(30)
<1> HIDE DEF x, y, k
<1>4. x + i \in Nat /\ k * f <= x + i /\ x + i < k * f + f
  BY <1>1, <1>2, <1>3
<1>5. (x + i) \div f = k
  BY <1>3, <1>4, BlockOf
<1>6. QED
  BY <1>2, <1>5 DEF x, k, d

------------------------------------------------------------------------------
(* Sums over a finite set, defined by taking away one element at a time.     *)

One(T) == CHOOSE x \in T : TRUE

\* F sums up f over every set of Ts.
SumsUp(F, f, Ts) ==
  F = [T \in Ts |-> IF T = {} THEN 0 ELSE f[One(T)] + F[T \ {One(T)}]]

\* The parts of a finite set by their size.
PartsUpTo(S, n) == {T \in SUBSET S : Cardinality(T) <= n}

\* Taking away one element leaves a smaller part.
LEMMA SmallerPart ==
  ASSUME NEW S, IsFiniteSet(S), NEW T \in SUBSET S, T # {}
  PROVE  /\ IsFiniteSet(T) /\ One(T) \in T /\ T \ {One(T)} \in SUBSET S
         /\ Cardinality(T) \in Nat
         /\ Cardinality(T \ {One(T)}) = Cardinality(T) - 1
<1>1. IsFiniteSet(T)
  BY FS_Subset
<1>2. One(T) \in T
  BY DEF One
<1>3. Cardinality(T) \in Nat
  BY <1>1, FS_CardinalityType
<1> DEFINE x == One(T)
<1>4. Cardinality(T \ {x}) = Cardinality(T) - 1
  <2>1. x \in T
    BY <1>2
  <2> HIDE DEF x
  <2>2. QED
    BY <1>1, <2>1, FS_RemoveElement
<1>5. QED
  BY <1>1, <1>2, <1>3, <1>4

\* There is a function that sums up f over the parts of a finite set.
LEMMA SumsExist ==
  ASSUME NEW S, IsFiniteSet(S), NEW f
  PROVE  \E F : SumsUp(F, f, SUBSET S)
<1> DEFINE Has(n) == \E F : SumsUp(F, f, PartsUpTo(S, n))
           Lacks == {n \in Nat : ~ Has(n)}
<1>1. Has(0)
  <2> DEFINE F == [T \in PartsUpTo(S, 0) |-> 0]
  <2>1. \A T \in PartsUpTo(S, 0) : T = {}
    <3> SUFFICES ASSUME NEW T \in PartsUpTo(S, 0), T # {} PROVE FALSE
      OBVIOUS
    <3>1. T \in SUBSET S /\ Cardinality(T) <= 0
      BY DEF PartsUpTo
    <3>2. Cardinality(T) \in Nat /\ Cardinality(T \ {One(T)}) = Cardinality(T) - 1
      BY <3>1, SmallerPart
    <3>3. Cardinality(T \ {One(T)}) \in Nat
      <4>1. IsFiniteSet(T \ {One(T)})
        BY <3>1, FS_Subset
      <4>2. QED
        BY <4>1, FS_CardinalityType
    <3>4. QED
      BY <3>1, <3>2, <3>3
  <2>2. SumsUp(F, f, PartsUpTo(S, 0))
    BY <2>1 DEF SumsUp
  <2>3. QED
    BY <2>2
<1>2. ASSUME NEW n \in Nat, Has(n) PROVE Has(n + 1)
  <2>1. PICK F : SumsUp(F, f, PartsUpTo(S, n))
    BY <1>2
  <2> DEFINE G == [T \in PartsUpTo(S, n + 1) |->
                     IF T = {} THEN 0 ELSE f[One(T)] + F[T \ {One(T)}]]
  <2>2. \A T \in PartsUpTo(S, n) : F[T] = IF T = {} THEN 0 ELSE f[One(T)] + F[T \ {One(T)}]
    BY <2>1 DEF SumsUp
  <2>3. \A T \in PartsUpTo(S, n) : T \in PartsUpTo(S, n + 1)
    <3> SUFFICES ASSUME NEW T \in PartsUpTo(S, n) PROVE Cardinality(T) <= n + 1
      BY DEF PartsUpTo
    <3>1. T \in SUBSET S /\ Cardinality(T) <= n
      BY DEF PartsUpTo
    <3>2. Cardinality(T) \in Nat
      <4>1. IsFiniteSet(T)
        BY <3>1, FS_Subset
      <4>2. QED
        BY <4>1, FS_CardinalityType
    <3>3. QED
      BY <3>1, <3>2
  <2>4. \A T \in PartsUpTo(S, n) : G[T] = F[T]
    BY <2>2, <2>3
  <2>5. \A T \in PartsUpTo(S, n + 1) : T # {} => T \ {One(T)} \in PartsUpTo(S, n)
    <3> SUFFICES ASSUME NEW T \in PartsUpTo(S, n + 1), T # {}
                 PROVE  T \ {One(T)} \in PartsUpTo(S, n)
      OBVIOUS
    <3>1. T \in SUBSET S /\ Cardinality(T) <= n + 1
      BY DEF PartsUpTo
    <3>2. /\ Cardinality(T) \in Nat /\ T \ {One(T)} \in SUBSET S
          /\ Cardinality(T \ {One(T)}) = Cardinality(T) - 1
      BY <3>1, SmallerPart
    <3>3. Cardinality(T \ {One(T)}) <= n
      BY <3>1, <3>2
    <3>4. QED
      BY <3>2, <3>3 DEF PartsUpTo
  <2>6. \A T \in PartsUpTo(S, n + 1) :
          G[T] = IF T = {} THEN 0 ELSE f[One(T)] + G[T \ {One(T)}]
    BY <2>4, <2>5
  <2>7. G = [T \in PartsUpTo(S, n + 1) |->
               IF T = {} THEN 0 ELSE f[One(T)] + G[T \ {One(T)}]]
    <3>1. G = [T \in PartsUpTo(S, n + 1) |-> G[T]]
      OBVIOUS
    <3> HIDE DEF G
    <3>2. QED
      BY <2>6, <3>1
  <2> HIDE DEF G
  <2>8. SumsUp(G, f, PartsUpTo(S, n + 1))
    BY <2>7 DEF SumsUp
  <2>9. QED
    BY <2>8
<1> HIDE DEF Has
<1>3. Lacks = {}
  <2> SUFFICES ASSUME Lacks # {} PROVE FALSE
    OBVIOUS
  <2>1. PICK n \in Lacks : \A m \in Lacks : n <= m
    BY LeastNumber
  <2>2. n # 0
    BY <1>1, <2>1
  <2>3. n - 1 \in Nat /\ n - 1 \notin Lacks /\ (n - 1) + 1 = n
    BY <2>1, <2>2
  <2>4. Has((n - 1) + 1)
    BY <1>2, <2>3
  <2>5. QED
    BY <2>1, <2>3, <2>4
<1>4. Cardinality(S) \in Nat /\ PartsUpTo(S, Cardinality(S)) = SUBSET S
  <2>1. Cardinality(S) \in Nat
    BY FS_CardinalityType
  <2>2. \A T \in SUBSET S : Cardinality(T) <= Cardinality(S)
    BY FS_Subset
  <2>3. QED
    BY <2>1, <2>2 DEF PartsUpTo
<1>5. Has(Cardinality(S))
  BY <1>3, <1>4
<1>6. QED
  BY <1>4, <1>5 DEF Has

\* Sums of integers are integers; and if each of n summands is at most one more
\* than its counterpart, the sum is at most n more.
LEMMA SumsClose ==
  ASSUME NEW S, IsFiniteSet(S), NEW f \in [S -> Int], NEW g \in [S -> Int],
         \A x \in S : f[x] <= g[x] + 1,
         NEW F, SumsUp(F, f, SUBSET S), NEW G, SumsUp(G, g, SUBSET S)
  PROVE  F[S] \in Int /\ G[S] \in Int /\ F[S] <= G[S] + Cardinality(S)
<1> DEFINE Close(T) == /\ F[T] \in Int /\ G[T] \in Int
                       /\ F[T] <= G[T] + Cardinality(T)
           Far == {n \in Nat : \E T \in SUBSET S : Cardinality(T) = n /\ ~ Close(T)}
<1>1. /\ \A T \in SUBSET S : F[T] = IF T = {} THEN 0 ELSE f[One(T)] + F[T \ {One(T)}]
      /\ \A T \in SUBSET S : G[T] = IF T = {} THEN 0 ELSE g[One(T)] + G[T \ {One(T)}]
  BY DEF SumsUp
<1>2. Far = {}
  <2> SUFFICES ASSUME Far # {} PROVE FALSE
    OBVIOUS
  <2>1. PICK n \in Far : \A m \in Far : n <= m
    BY LeastNumber
  <2>2. PICK T \in SUBSET S : Cardinality(T) = n /\ ~ Close(T)
    BY <2>1
  <2>3. CASE T = {}
    <3>1. F[T] = 0 /\ G[T] = 0 /\ Cardinality(T) = 0
      BY <1>1, <2>3, FS_EmptySet
    <3>2. QED
      BY <2>2, <3>1
  <2>4. CASE T # {}
    <3> DEFINE x == One(T)
               U == T \ {One(T)}
    <3>1. /\ x \in S /\ U \in SUBSET S /\ Cardinality(T) \in Nat
          /\ Cardinality(U) = Cardinality(T) - 1
      BY <2>4, SmallerPart
    <3>2. F[T] = f[x] + F[U] /\ G[T] = g[x] + G[U]
      BY <1>1, <2>4
    <3> HIDE DEF x, U
    <3>3. Cardinality(U) \in Nat
      <4>1. IsFiniteSet(U)
        BY <3>1, FS_Subset
      <4>2. QED
        BY <4>1, FS_CardinalityType
    <3>4. Close(U)
      <4>1. Cardinality(U) \notin Far
        BY <2>1, <2>2, <3>1, <3>3
      <4>2. QED
        BY <3>1, <3>3, <4>1
    <3>5. f[x] \in Int /\ g[x] \in Int /\ f[x] <= g[x] + 1
      BY <3>1
    <3>6. Close(T)
      BY <3>1, <3>2, <3>3, <3>4, <3>5
    <3>7. QED
      BY <2>2, <3>6
  <2>5. QED
    BY <2>3, <2>4
<1>3. Close(S)
  <2>1. Cardinality(S) \in Nat /\ S \in SUBSET S
    BY FS_CardinalityType
  <2> HIDE DEF Close
  <2>2. QED
    BY <1>2, <2>1
<1>4. QED
  BY <1>3

------------------------------------------------------------------------------
(* Counting the elements of a set of numbers from the first on.              *)

\* How many elements of W there are up to i.
CountTo(W, i) == Cardinality({j \in W : j <= i})

\* Counting goes up by one at every element.
LEMMA CountUp ==
  ASSUME NEW n \in Nat, NEW W \in SUBSET (1 .. n)
  PROVE  /\ IsFiniteSet(W) /\ Cardinality(W) \in Nat
         /\ \A i \in 0 .. n : CountTo(W, i) \in Nat
         /\ CountTo(W, 0) = 0 /\ CountTo(W, n) = Cardinality(W)
         /\ \A i \in 1 .. n :
              CountTo(W, i) = CountTo(W, i - 1) + (IF i \in W THEN 1 ELSE 0)
<1>1. IsFiniteSet(W)
  <2>1. IsFiniteSet(1 .. n)
    BY FirstNumbers
  <2>2. QED
    BY <2>1, FS_Subset
<1>2. \A i : IsFiniteSet({j \in W : j <= i})
  <2>1. \A i : {j \in W : j <= i} \in SUBSET W
    OBVIOUS
  <2>2. QED
    BY <1>1, <2>1, FS_Subset
<1>3. Cardinality(W) \in Nat /\ \A i \in 0 .. n : CountTo(W, i) \in Nat
  <2>1. Cardinality(W) \in Nat
    BY <1>1, FS_CardinalityType
  <2>2. \A i : Cardinality({j \in W : j <= i}) \in Nat
    BY <1>2, FS_CardinalityType
  <2>3. QED
    BY <2>1, <2>2 DEF CountTo
<1>4. \A j \in W : j \in Int /\ 1 <= j /\ j <= n
  OBVIOUS
<1>5. CountTo(W, 0) = 0
  <2>1. \A j \in W : ~ (j <= 0)
    BY <1>4
  <2>2. {j \in W : j <= 0} = {}
    BY <2>1
  <2>3. QED
    BY <2>2, FS_EmptySet DEF CountTo
<1>6. CountTo(W, n) = Cardinality(W)
  <2>1. {j \in W : j <= n} = W
    BY <1>4
  <2>2. QED
    BY <2>1 DEF CountTo
<1>7. ASSUME NEW i \in 1 .. n
      PROVE  CountTo(W, i) = CountTo(W, i - 1) + (IF i \in W THEN 1 ELSE 0)
  <2>1. \A j \in W : j <= i <=> j <= i - 1 \/ j = i
    BY <1>4
  <2>2. ~ (i <= i - 1) /\ i - 1 \in 0 .. n
    OBVIOUS
  <2> DEFINE below == {j \in W : j <= i - 1}
  <2>3. CASE i \in W
    <3>1. {j \in W : j <= i} = below \cup {i} /\ i \notin below
      BY <2>1, <2>2, <2>3
    <3>2. IsFiniteSet(below)
      BY <1>2
    <3>3. CountTo(W, i - 1) = Cardinality(below)
      BY DEF CountTo
    <3> HIDE DEF below
    <3>4. Cardinality(below \cup {i}) = Cardinality(below) + 1
      BY <3>1, <3>2, FS_AddElement
    <3>5. QED
      BY <2>3, <3>1, <3>3, <3>4 DEF CountTo
  <2>4. CASE i \notin W
    <3>1. {j \in W : j <= i} = below
      BY <2>1, <2>4
    <3>2. CountTo(W, i - 1) \in Nat
      BY <1>3, <2>2
    <3>3. CountTo(W, i) = CountTo(W, i - 1)
      BY <3>1 DEF CountTo
    <3>4. QED
      BY <2>4, <3>2, <3>3
  <2>5. QED
    BY <2>3, <2>4
<1>8. QED
  BY <1>1, <1>3, <1>5, <1>6, <1>7

\* There is an element at every count, and only one.
LEMMA CountFinds ==
  ASSUME NEW n \in Nat, NEW W \in SUBSET (1 .. n)
  PROVE  /\ \A k \in 1 .. Cardinality(W) : \E i \in W : CountTo(W, i) = k
         /\ \A i, j \in W : CountTo(W, i) = CountTo(W, j) => i = j
<1>0. \A j \in W : j \in Int /\ j \in 0 .. n
  OBVIOUS
<1>1. ASSUME NEW k \in 1 .. Cardinality(W)
      PROVE  \E i \in W : CountTo(W, i) = k
  <2> DEFINE Up == {i \in 0 .. n : CountTo(W, i) >= k}
  <2>1. Cardinality(W) \in Nat /\ k \in Nat /\ 1 <= k /\ k <= Cardinality(W)
    BY CountUp
  <2>2. n \in Up /\ 0 \notin Up /\ Up \in SUBSET Nat
    <3>1. CountTo(W, n) = Cardinality(W) /\ CountTo(W, 0) = 0
      BY CountUp
    <3>2. QED
      BY <2>1, <3>1
  <2>3. PICK i \in Up : \A j \in Up : i <= j
    <3> HIDE DEF Up
    <3>1. QED
      BY <2>2, LeastNumber
  <2>4. i \in 1 .. n /\ i - 1 \in 0 .. n /\ ~ (i <= i - 1)
    BY <2>2, <2>3
  <2>5. i - 1 \notin Up
    BY <2>3, <2>4
  <2>6. CountTo(W, i - 1) \in Nat /\ CountTo(W, i) \in Nat
    BY <2>3, <2>4, CountUp
  <2>7. CountTo(W, i) = CountTo(W, i - 1) + (IF i \in W THEN 1 ELSE 0)
    BY <2>4, CountUp
  <2>8. CountTo(W, i) >= k /\ ~ (CountTo(W, i - 1) >= k)
    BY <2>3, <2>4, <2>5
  <2>9. QED
    BY <2>1, <2>6, <2>7, <2>8
<1>2. ASSUME NEW i \in W, NEW j \in W, i < j
      PROVE  CountTo(W, i) < CountTo(W, j)
  <2>1. \A x \in W : x <= i => x <= j
    BY <1>0, <1>2
  <2>2. j <= j /\ ~ (j <= i)
    BY <1>0, <1>2
  <2> DEFINE a == {x \in W : x <= i}
             b == {x \in W : x <= j}
  <2>3. a \in SUBSET b /\ j \in b /\ j \notin a /\ b \in SUBSET W
    BY <2>1, <2>2
  <2> HIDE DEF a, b
  <2>4. IsFiniteSet(W)
    BY CountUp
  <2>5. IsFiniteSet(b)
    BY <2>3, <2>4, FS_Subset
  <2>6. Cardinality(a) < Cardinality(b)
    BY <2>3, <2>5, SmallerSet
  <2>7. QED
    BY <2>6 DEF CountTo, a, b
<1>3. ASSUME NEW i \in W, NEW j \in W, CountTo(W, i) = CountTo(W, j) PROVE i = j
  <2>1. CountTo(W, i) \in Nat /\ CountTo(W, j) \in Nat
    BY <1>0, CountUp
  <2>2. ~ (i < j) /\ ~ (j < i)
    BY <1>2, <1>3, <2>1
  <2>3. QED
    BY <1>0, <2>2
<1>4. QED
  BY <1>1, <1>3

------------------------------------------------------------------------------
(* Recursive sums from the last summand on.                                  *)

\* F adds up the summands e of places up to n from the last on, each discounted
\* by c against the one before.
AddsBackwards(F, n, e, c) ==
  F = [k \in Nat |-> IF k > n THEN 0 ELSE e[k] + c * F[k + 1]]

\* There is such a function.
LEMMA BackwardsExists ==
  ASSUME NEW n \in Nat, NEW e, NEW c
  PROVE  \E F : AddsBackwards(F, n, e, c)
<1> DEFINE From(F, m) == \A k \in Nat : k >= m => F[k] = IF k > n THEN 0 ELSE e[k] + c * F[k + 1]
           Starts == {m \in Nat : \E G : G = [k \in Nat |-> G[k]] /\ From(G, m)}
<1>1. n + 1 \in Starts
  <2> DEFINE G == [k \in Nat |-> 0]
  <2>1. G = [k \in Nat |-> G[k]] /\ From(G, n + 1)
    OBVIOUS
  <2> HIDE DEF G, From
  <2>2. QED
    BY <2>1
<1>2. ASSUME NEW m \in Nat, m + 1 \in Starts PROVE m \in Starts
  <2>1. PICK F : F = [k \in Nat |-> F[k]] /\ From(F, m + 1)
    BY <1>2
  <2> DEFINE G == [k \in Nat |-> IF k = m THEN IF m > n THEN 0 ELSE e[m] + c * F[m + 1] ELSE F[k]]
  <2>2. \A k \in Nat : k # m => G[k] = F[k]
    OBVIOUS
  <2>3. G[m] = IF m > n THEN 0 ELSE e[m] + c * F[m + 1]
    OBVIOUS
  <2>4. G = [k \in Nat |-> G[k]]
    OBVIOUS
  <2> HIDE DEF G
  <2>5. ASSUME NEW k \in Nat, k >= m
        PROVE  G[k] = IF k > n THEN 0 ELSE e[k] + c * G[k + 1]
    <3>1. G[k + 1] = F[k + 1]
      BY <2>2, <2>5
    <3>2. CASE k = m
      BY <2>3, <3>1, <3>2
    <3>3. CASE k # m
      <4>1. k >= m + 1
        BY <2>5, <3>3
      <4>2. F[k] = IF k > n THEN 0 ELSE e[k] + c * F[k + 1]
        BY <2>1, <4>1
      <4>3. G[k] = F[k]
        BY <2>2, <3>3
      <4>4. QED
        BY <3>1, <4>2, <4>3
    <3>4. QED
      BY <3>2, <3>3
  <2>6. QED
    BY <2>4, <2>5
<1>3. 0 \in Starts
  <2>1. Starts \in SUBSET Nat
    OBVIOUS
  <2> HIDE DEF Starts
  <2>2. PICK m \in Starts : \A j \in Starts : m <= j
    BY <1>1, <2>1, LeastNumber
  <2>3. ASSUME m # 0 PROVE FALSE
    <3>1. m - 1 \in Nat /\ (m - 1) + 1 = m /\ ~ (m <= m - 1)
      BY <2>1, <2>2, <2>3
    <3>2. m - 1 \in Starts
      BY <1>2, <2>2, <3>1
    <3>3. QED
      BY <2>2, <3>1, <3>2
  <2>4. QED
    BY <2>2, <2>3
<1>4. PICK G : G = [k \in Nat |-> G[k]] /\ From(G, 0)
  BY <1>3
<1>5. \A k \in Nat : G[k] = IF k > n THEN 0 ELSE e[k] + c * G[k + 1]
  BY <1>4
<1>6. G = [k \in Nat |-> IF k > n THEN 0 ELSE e[k] + c * G[k + 1]]
  BY <1>4, <1>5
<1>7. QED
  BY <1>6 DEF AddsBackwards

------------------------------------------------------------------------------
(* Comparing sums.                                                           *)

\* The sum of f over S.
SumOf(f, S) == LET F == CHOOSE F : SumsUp(F, f, SUBSET S) IN F[S]

\* Sums of integers are integers, of naturals natural; a sum of no greater
\* summands is no greater, and less if one of them is.
LEMMA SumsOrdered ==
  ASSUME NEW S, IsFiniteSet(S), NEW f, NEW g,
         \A x \in S : f[x] \in Int /\ g[x] \in Int /\ f[x] <= g[x]
  PROVE  /\ SumOf(f, S) \in Int /\ SumOf(g, S) \in Int
         /\ SumOf(f, S) <= SumOf(g, S)
         /\ (\E x \in S : f[x] < g[x]) => SumOf(f, S) < SumOf(g, S)
         /\ (\A x \in S : f[x] \in Nat) => SumOf(f, S) \in Nat
<1> DEFINE F == CHOOSE F : SumsUp(F, f, SUBSET S)
           G == CHOOSE G : SumsUp(G, g, SUBSET S)
           Lower(T) == /\ F[T] \in Int /\ G[T] \in Int /\ F[T] <= G[T]
                       /\ (\E x \in T : f[x] < g[x]) => F[T] < G[T]
                       /\ (\A x \in S : f[x] \in Nat) => F[T] \in Nat
           Not == {n \in Nat : \E T \in SUBSET S : Cardinality(T) = n /\ ~ Lower(T)}
<1>1. /\ \A T \in SUBSET S : F[T] = IF T = {} THEN 0 ELSE f[One(T)] + F[T \ {One(T)}]
      /\ \A T \in SUBSET S : G[T] = IF T = {} THEN 0 ELSE g[One(T)] + G[T \ {One(T)}]
  <2>1. SumsUp(F, f, SUBSET S) /\ SumsUp(G, g, SUBSET S)
    <3>1. (\E H : SumsUp(H, f, SUBSET S)) /\ (\E H : SumsUp(H, g, SUBSET S))
      BY SumsExist
    <3>2. QED
      BY <3>1, Zenon
  <2> HIDE DEF F, G
  <2>2. QED
    BY <2>1 DEF SumsUp
<1>2. SumOf(f, S) = F[S] /\ SumOf(g, S) = G[S]
  BY DEF SumOf
<1> HIDE DEF F, G
<1>3. Not = {}
  <2> SUFFICES ASSUME Not # {} PROVE FALSE
    OBVIOUS
  <2>1. PICK n \in Not : \A m \in Not : n <= m
    BY LeastNumber
  <2>2. PICK T \in SUBSET S : Cardinality(T) = n /\ ~ Lower(T)
    BY <2>1
  <2>3. CASE T = {}
    <3>1. F[T] = 0 /\ G[T] = 0
      BY <1>1, <2>3
    <3>2. QED
      BY <2>2, <2>3, <3>1
  <2>4. CASE T # {}
    <3> DEFINE x == One(T)
               U == T \ {One(T)}
    <3>1. /\ x \in T /\ U \in SUBSET S /\ Cardinality(T) \in Nat
          /\ Cardinality(U) = Cardinality(T) - 1
      BY <2>4, SmallerPart
    <3>0. T = U \cup {x}
      BY <3>1
    <3>2. F[T] = f[x] + F[U] /\ G[T] = g[x] + G[U]
      BY <1>1, <2>4
    <3> HIDE DEF x, U
    <3>3. Cardinality(U) \in Nat
      <4>1. IsFiniteSet(U)
        BY <3>1, FS_Subset
      <4>2. QED
        BY <4>1, FS_CardinalityType
    <3>4. Lower(U)
      <4>1. Cardinality(U) \notin Not
        BY <2>1, <2>2, <3>1, <3>3
      <4>2. QED
        BY <3>1, <3>3, <4>1
    <3>5. x \in S /\ f[x] \in Int /\ g[x] \in Int /\ f[x] <= g[x]
      BY <3>1
    <3>6. /\ F[T] \in Int /\ G[T] \in Int /\ F[T] <= G[T]
          /\ F[U] < G[U] \/ f[x] < g[x] => F[T] < G[T]
      BY <3>2, <3>4, <3>5
    <3>7. ASSUME NEW y \in T, f[y] < g[y] PROVE F[T] < G[T]
      <4>1. y \in U \/ y = x
        BY <3>0
      <4>2. QED
        BY <3>4, <3>6, <3>7, <4>1
    <3>8. ASSUME \A y \in S : f[y] \in Nat PROVE F[T] \in Nat
      <4>1. F[U] \in Nat /\ f[x] \in Nat
        BY <3>4, <3>5, <3>8
      <4>2. QED
        BY <3>2, <4>1
    <3>9. Lower(T)
      BY <3>6, <3>7, <3>8
    <3>10. QED
      BY <2>2, <3>9
  <2>5. QED
    BY <2>3, <2>4
<1>4. Lower(S)
  <2>1. Cardinality(S) \in Nat /\ S \in SUBSET S
    BY FS_CardinalityType
  <2> HIDE DEF Lower
  <2>2. QED
    BY <1>3, <2>1
<1>5. QED
  BY <1>2, <1>4

\* F is an integer on every part of U, and comes apart at any element.
ComesApart(F, f, U) ==
  /\ F[{}] = 0
  /\ \A T \in SUBSET U : F[T] \in Int
  /\ \A T \in SUBSET U : \A x \in T : F[T] = f[x] + F[T \ {x}]

\* A sum can be taken apart at any element.
LEMMA SumParts ==
  ASSUME NEW U, IsFiniteSet(U), NEW f, \A x \in U : f[x] \in Int,
         NEW F, SumsUp(F, f, SUBSET U)
  PROVE  ComesApart(F, f, U)
<1> DEFINE Right(T) == F[T] \in Int /\ \A x \in T : F[T] = f[x] + F[T \ {x}]
           Wrong == {n \in Nat : \E T \in SUBSET U : Cardinality(T) = n /\ ~ Right(T)}
<1>1. \A T \in SUBSET U : F[T] = IF T = {} THEN 0 ELSE f[One(T)] + F[T \ {One(T)}]
  BY DEF SumsUp
<1>2. \A T \in SUBSET U : IsFiniteSet(T) /\ Cardinality(T) \in Nat
  BY FS_Subset, FS_CardinalityType
<1>3. ASSUME NEW T \in SUBSET U, NEW x \in T
      PROVE  T \ {x} \in SUBSET U /\ Cardinality(T \ {x}) = Cardinality(T) - 1
  BY <1>2, FS_RemoveElement
<1>4. Wrong = {}
  <2> SUFFICES ASSUME Wrong # {} PROVE FALSE
    OBVIOUS
  <2>1. PICK n \in Wrong : \A m \in Wrong : n <= m
    BY LeastNumber
  <2>2. PICK T \in SUBSET U : Cardinality(T) = n /\ ~ Right(T)
    BY <2>1
  <2>3. \A V \in SUBSET U : Cardinality(V) < n => Right(V)
    <3>1. ASSUME NEW V \in SUBSET U, Cardinality(V) < n, ~ Right(V) PROVE FALSE
      <4>1. Cardinality(V) \in Wrong
        BY <1>2, <3>1
      <4>2. QED
        BY <1>2, <2>1, <3>1, <4>1
    <3>2. QED
      BY <3>1
  <2>4. CASE T = {}
    BY <1>1, <2>2, <2>4
  <2>5. CASE T # {}
    <3> DEFINE y == One(T)
               V == T \ {y}
    <3>1. y \in T
      BY <2>5 DEF One
    <3>2. F[T] = f[y] + F[V]
      BY <1>1, <2>5
    <3> HIDE DEF y
    <3>a. \A W \in SUBSET U :
            Cardinality(W) < n => F[W] \in Int /\ \A x \in W : F[W] = f[x] + F[W \ {x}]
      BY <2>3
    <3>b. n \in Nat
      BY <1>2, <2>2
    <3> HIDE DEF Right, Wrong
    <3>c. V \in SUBSET U /\ Cardinality(V) = n - 1
      BY <1>3, <2>2, <3>1
    <3>3. /\ V \in SUBSET U /\ f[y] \in Int /\ F[V] \in Int
          /\ \A x \in V : F[V] = f[x] + F[V \ {x}]
      <4>1. Cardinality(V) < n
        BY <3>b, <3>c
      <4>2. QED
        BY <3>1, <3>a, <3>c, <4>1
    <3>4. F[T] \in Int
      BY <3>2, <3>3
    <3>5. ASSUME NEW x \in T PROVE F[T] = f[x] + F[T \ {x}]
      <4>1. CASE x = y
        BY <3>2, <4>1
      <4>2. CASE x # y
        <5> DEFINE W == T \ {x}
                   Z == V \ {x}
        <5>1. x \in V /\ y \in W /\ W \ {y} = Z
          BY <3>1, <4>2
        <5>2. W \in SUBSET U /\ Cardinality(W) < n
          <6>1. W \in SUBSET U /\ Cardinality(W) = n - 1
            BY <1>3, <2>2
          <6>2. QED
            BY <3>b, <6>1
        <5>3. Z \in SUBSET U /\ Cardinality(Z) < n
          <6>1. Z \in SUBSET U /\ Cardinality(Z) = Cardinality(V) - 1
            BY <1>3, <3>3, <5>1
          <6>2. QED
            BY <3>b, <3>c, <6>1
        <5> HIDE DEF V, W, Z
        <5>4. F[Z] \in Int /\ f[x] \in Int
          BY <3>a, <5>3
        <5>5. F[W] = f[y] + F[Z]
          BY <3>a, <5>1, <5>2
        <5>6. F[V] = f[x] + F[Z]
          BY <3>3, <5>1 DEF Z
        <5>7. F[T] = f[x] + F[W]
          BY <3>2, <3>3, <5>4, <5>5, <5>6
        <5>8. QED
          BY <5>7 DEF W
      <4>3. QED
        BY <4>1, <4>2
    <3>6. QED
      BY <2>2, <3>4, <3>5 DEF Right
  <2>6. QED
    BY <2>4, <2>5
<1>5. \A T \in SUBSET U : Right(T)
  <2> HIDE DEF Right
  <2>1. QED
    BY <1>2, <1>4
<1>6. F[{}] = 0
  BY <1>1
<1>7. QED
  BY <1>5, <1>6 DEF ComesApart

\* The sum over two sets that are apart.
LEMMA SumOfBoth ==
  ASSUME NEW U, IsFiniteSet(U), NEW f, \A x \in U : f[x] \in Int,
         NEW F, SumsUp(F, f, SUBSET U), NEW S \in SUBSET U, NEW R \in SUBSET U, S \cap R = {}
  PROVE  F[S \cup R] = F[S] + F[R]
<1> DEFINE Right(T) == F[S \cup T] = F[S] + F[T]
           Wrong == {n \in Nat : \E T \in SUBSET R : Cardinality(T) = n /\ ~ Right(T)}
<1>0. ComesApart(F, f, U)
  BY SumParts
<1>1. /\ F[{}] = 0
      /\ \A T \in SUBSET U : F[T] \in Int
      /\ \A T \in SUBSET U : \A x \in T : F[T] = f[x] + F[T \ {x}]
  BY <1>0 DEF ComesApart
<1>2. \A T \in SUBSET U : IsFiniteSet(T) /\ Cardinality(T) \in Nat
  BY FS_Subset, FS_CardinalityType
<1>3. Wrong = {}
  <2> SUFFICES ASSUME Wrong # {} PROVE FALSE
    OBVIOUS
  <2>1. PICK n \in Wrong : \A m \in Wrong : n <= m
    BY LeastNumber
  <2>2. PICK T \in SUBSET R : Cardinality(T) = n /\ ~ Right(T)
    BY <2>1
  <2>3. CASE T = {}
    <3>1. S \cup T = S
      BY <2>3
    <3>2. QED
      BY <1>1, <2>2, <2>3, <3>1
  <2>4. CASE T # {}
    <3>1. PICK x : x \in T
      BY <2>4
    <3> DEFINE V == T \ {x}
    <3>2. V \in SUBSET R /\ Cardinality(V) = n - 1 /\ n - 1 \in Nat
      <4>1. IsFiniteSet(T) /\ T \in SUBSET U /\ V \in SUBSET U
        BY <1>2
      <4>2. Cardinality(V) = n - 1
        BY <2>2, <3>1, <4>1, FS_RemoveElement
      <4>3. Cardinality(V) \in Nat
        BY <1>2, <4>1
      <4>4. QED
        BY <4>2, <4>3
    <3>3. Right(V)
      <4>1. n - 1 \notin Wrong
        <5>1. n \in Nat
          OBVIOUS
        <5> HIDE DEF Wrong
        <5>2. QED
          BY <2>1, <3>2, <5>1
      <4>2. QED
        BY <3>2, <4>1
    <3>4. F[S \cup T] = f[x] + F[S \cup V]
      <4>1. (S \cup T) \ {x} = S \cup V /\ S \cup T \in SUBSET U /\ x \in S \cup T
        BY <3>1
      <4> DEFINE Y == S \cup T
      <4>2. F[Y] = f[x] + F[Y \ {x}]
        <5> HIDE DEF Y
        <5>1. QED
          BY <1>1, <4>1 DEF Y
      <4>3. QED
        BY <4>1, <4>2
    <3>5. F[T] = f[x] + F[V] /\ T \in SUBSET U
      BY <1>1, <3>1
    <3>6. f[x] \in Int /\ F[S] \in Int /\ F[V] \in Int
      BY <1>1, <3>1
    <3>7. QED
      BY <2>2, <3>3, <3>4, <3>5, <3>6
  <2>5. QED
    BY <2>3, <2>4
<1>4. Right(R)
  <2> HIDE DEF Right
  <2>1. QED
    BY <1>2, <1>3
<1>5. QED
  BY <1>4

\* h takes g on U to f on V, every element to another one.
Carries(h, U, g, V, f) ==
  /\ h \in [U -> V] /\ \A x, y \in U : h[x] = h[y] => x = y
  /\ \A y \in V : f[y] \in Int
  /\ \A x \in U : g[x] = f[h[x]]

\* The sum is of what is added up, wherever it is.
LEMMA SumMoved ==
  ASSUME NEW U, IsFiniteSet(U), NEW V, IsFiniteSet(V),
         NEW h, NEW g, NEW f, Carries(h, U, g, V, f),
         NEW F, SumsUp(F, f, SUBSET V), NEW G, SumsUp(G, g, SUBSET U), NEW R \in SUBSET U
  PROVE  G[R] = F[{h[x] : x \in R}]
<1> DEFINE Of(T) == {h[x] : x \in T}
           Right(T) == G[T] = F[Of(T)]
           Wrong == {n \in Nat : \E T \in SUBSET U : Cardinality(T) = n /\ ~ Right(T)}
<1>c. /\ h \in [U -> V] /\ \A x, y \in U : h[x] = h[y] => x = y
      /\ \A y \in V : f[y] \in Int
      /\ \A x \in U : g[x] = f[h[x]]
  BY DEF Carries
<1>0. \A x \in U : g[x] \in Int
  BY <1>c
<1>a. ComesApart(F, f, V)
  BY <1>c, SumParts
<1>b. ComesApart(G, g, U)
  BY <1>0, SumParts
<1>1. /\ F[{}] = 0
      /\ \A T \in SUBSET V : \A x \in T : F[T] = f[x] + F[T \ {x}]
  BY <1>a DEF ComesApart
<1>2. /\ G[{}] = 0
      /\ \A T \in SUBSET U : \A x \in T : G[T] = g[x] + G[T \ {x}]
  BY <1>b DEF ComesApart
<1>3. \A T \in SUBSET U : IsFiniteSet(T) /\ Cardinality(T) \in Nat
  BY FS_Subset, FS_CardinalityType
<1>4. Wrong = {}
  <2> SUFFICES ASSUME Wrong # {} PROVE FALSE
    OBVIOUS
  <2>1. PICK n \in Wrong : \A m \in Wrong : n <= m
    BY LeastNumber
  <2>2. PICK T \in SUBSET U : Cardinality(T) = n /\ ~ Right(T)
    BY <2>1
  <2>3. CASE T = {}
    <3>1. Of(T) = {}
      BY <2>3
    <3>2. QED
      BY <1>1, <1>2, <2>2, <2>3, <3>1
  <2>4. CASE T # {}
    <3>1. PICK x : x \in T
      BY <2>4
    <3> DEFINE W == T \ {x}
    <3>2. W \in SUBSET U /\ Cardinality(W) = n - 1 /\ n - 1 \in Nat
      <4>1. IsFiniteSet(T) /\ W \in SUBSET U
        BY <1>3
      <4>2. Cardinality(W) = n - 1
        BY <2>2, <3>1, <4>1, FS_RemoveElement
      <4>3. Cardinality(W) \in Nat
        BY <1>3, <4>1
      <4>4. QED
        BY <4>1, <4>2, <4>3
    <3>3. Right(W)
      <4>1. n - 1 \notin Wrong
        <5>1. n \in Nat
          OBVIOUS
        <5> HIDE DEF Wrong
        <5>2. QED
          BY <2>1, <3>2, <5>1
      <4>2. QED
        BY <3>2, <4>1
    <3>4. Of(T) \ {h[x]} = Of(W) /\ Of(T) \in SUBSET V /\ h[x] \in Of(T)
      BY <1>c, <3>1
    <3>5. F[Of(T)] = f[h[x]] + F[Of(W)]
      <4> DEFINE Y == Of(T)
                 z == h[x]
      <4>1. Y \in SUBSET V /\ z \in Y /\ Y \ {z} = Of(W)
        BY <3>4
      <4> HIDE DEF Y, z, Of
      <4>2. F[Y] = f[z] + F[Y \ {z}]
        BY <1>1, <4>1
      <4>3. F[Y] = f[z] + F[Of(W)]
        BY <4>1, <4>2
      <4>4. QED
        BY <4>3 DEF Y, z
    <3>6. G[T] = g[x] + G[W]
      BY <1>2, <3>1
    <3>7. g[x] = f[h[x]]
      BY <1>c, <3>1
    <3>8. QED
      BY <2>2, <3>3, <3>5, <3>6, <3>7
  <2>5. QED
    BY <2>3, <2>4
<1>5. Right(R)
  <2> HIDE DEF Right
  <2>1. QED
    BY <1>3, <1>4
<1>6. QED
  BY <1>5

\* Sets that correspond one to one have as many elements as each other.
LEMMA SameCount ==
  ASSUME NEW S, IsFiniteSet(S), NEW T, NEW f, f \in [S -> T],
         \A x, y \in S : f[x] = f[y] => x = y, \A z \in T : \E x \in S : f[x] = z
  PROVE  IsFiniteSet(T) /\ Cardinality(T) = Cardinality(S)
<1>1. f \in Injection(S, T) /\ f \in Surjection(S, T)
  BY Zenon DEF Injection, IsInjective, Surjection
<1>2. f \in Bijection(S, T)
  BY <1>1, Zenon DEF Bijection
<1>3. ExistsBijection(S, T)
  BY <1>2, Zenon DEF ExistsBijection
<1>4. QED
  BY <1>3, FS_Bijection

===============================================================================

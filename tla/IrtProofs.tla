------------------------------- MODULE IrtProofs -------------------------------
(***************************************************************************)
(* Theorems about IrtLoader for every batch size, pool factor, data set    *)
(* and scoring, and every history of saves, crashes and launches.  Rows of *)
(* the pool are told apart by their place; what a selection takes out of   *)
(* the pool and what it leaves there are counted by their ranks.           *)
(***************************************************************************)
EXTENDS IrtLoader, Lemmas, SequenceTheorems

Row == Nat \ {0}

\* No row twice.
Distinct(s) == \A i, j \in 1 .. Len(s) : s[i] = s[j] => i = j

\* The sizes the loader computes are numbers, and its pool holds a batch.
LEMMA Sizes ==
  ASSUME IrtAssumption
  PROVE  /\ PassRows \in Nat \ {0}
         /\ PoolTarget \in Nat /\ BatchSize <= PoolTarget /\ PoolMax = 2 * PoolTarget
<1>1. PassRows \in Nat \ {0}
  <2>1. LoaderLen \in Nat \ {0} /\ InnerBsz \in Nat \ {0}
    BY DEF IrtAssumption
  <2>2. LoaderLen * InnerBsz \in Nat \ {0}
    BY <2>1, SMTT(30)
  <2>3. QED
    BY <2>2 DEF PassRows
<1>2. PoolTarget \in Nat /\ BatchSize <= PoolTarget
  <2>1. PoolFactor \in Nat \ {0} /\ BatchSize \in Nat \ {0}
    BY DEF IrtAssumption
  <2> DEFINE f == PoolFactor - 1
  <2>2. f \in Nat /\ PoolFactor = f + 1
    BY <2>1
  <2> HIDE DEF f
  <2>3. f * BatchSize \in Nat
    BY <2>1, <2>2, SMTT(30)
  <2>4. (f + 1) * BatchSize = f * BatchSize + BatchSize
    BY <2>1, <2>2, SMTT(30)
  <2> DEFINE x == f * BatchSize
  <2>5. x \in Nat /\ PoolTarget = x + BatchSize
    BY <2>2, <2>3, <2>4 DEF PoolTarget
  <2> HIDE DEF x
  <2>6. QED
    BY <2>1, <2>5
<1>3. QED
  BY <1>1, <1>2 DEF PoolMax

------------------------------------------------------------------------------
(* Rows taken from a sequence.                                             *)

\* Rows at different places are different, so there are as many as places.
LEMMA DistinctCount ==
  ASSUME NEW s \in Seq(Row), Distinct(s), NEW I \in SUBSET (1 .. Len(s))
  PROVE  /\ IsFiniteSet({s[i] : i \in I})
         /\ Cardinality({s[i] : i \in I}) = Cardinality(I)
<1> DEFINE T == {s[i] : i \in I}
           f == [i \in I |-> s[i]]
<1>1. IsFiniteSet(I)
  <2>1. Len(s) \in Nat
    BY LenProperties
  <2>2. QED
    BY <2>1, FirstNumbers, FS_Subset
<1>2. f \in [I -> T] /\ (\A x \in T : \E i \in I : f[i] = x)
  OBVIOUS
<1>3. \A i, j \in I : f[i] = f[j] => i = j
  BY DEF Distinct
<1> HIDE DEF T, f
<1>4. f \in Surjection(I, T) /\ f \in Injection(I, T)
  BY <1>2, <1>3, Zenon DEF Surjection, Injection, IsInjective
<1>5. QED
  BY <1>1, <1>4, FS_Surjection DEF T

\* The k-th of the n elements of t is the one of s with rank k - 1 in I.
Takes(t, s, I, r, n) ==
  /\ r \in [I -> Nat] /\ \A i, j \in I : r[i] = r[j] => i = j
  /\ t = [k \in 1 .. n |-> t[k]]
  /\ \A k \in 1 .. n : \E i \in I : t[k] = s[i] /\ r[i] = k - 1

\* Such a sequence has the rows of the first n ranks, each once.
LEMMA TakenByRank ==
  ASSUME NEW s \in Seq(Row), NEW I \in SUBSET (1 .. Len(s)), NEW r, NEW n \in Nat,
         NEW t, Takes(t, s, I, r, n)
  PROVE  /\ t \in Seq(Row) /\ Len(t) = n
         /\ Contents(t) = {s[i] : i \in FirstOf(I, r, n)}
         /\ Distinct(s) => Distinct(t)
<1> USE DEF Takes
<1>1. \A k \in 1 .. n : t[k] \in Row
  <2>1. \A i \in 1 .. Len(s) : s[i] \in Row
    BY ElementOfSeq
  <2>2. QED
    BY <2>1
<1>2. t \in Seq(Row) /\ Len(t) = n
  <2>1. t \in [1 .. n -> Row]
    BY <1>1
  <2>2. QED
    BY <2>1, AsSequence
<1>3. Contents(t) = {s[i] : i \in FirstOf(I, r, n)}
  <2> DEFINE L == {j \in I : r[j] < n}
  <2>1. ASSUME NEW k \in 1 .. n
        PROVE  \E i \in L : t[k] = s[i]
    <3>1. PICK i \in I : t[k] = s[i] /\ r[i] = k - 1
      OBVIOUS
    <3>2. r[i] < n
      BY <3>1
    <3>3. QED
      BY <3>1, <3>2
  <2>2. ASSUME NEW i \in L
        PROVE  \E k \in 1 .. n : t[k] = s[i]
    <3> DEFINE k == r[i] + 1
    <3>1. k \in 1 .. n /\ k - 1 = r[i]
      BY <2>2
    <3>2. PICK j \in I : t[k] = s[j] /\ r[j] = k - 1
      BY <3>1
    <3>3. j = i
      BY <3>1, <3>2
    <3>4. QED
      BY <3>1, <3>2, <3>3
  <2>3. Contents(t) = {t[k] : k \in 1 .. n}
    BY <1>2 DEF Contents
  <2> HIDE DEF L, Takes
  <2> DEFINE A == {t[k] : k \in 1 .. n}
             B == {s[i] : i \in L}
  <2>a. \A x \in A : x \in B
    BY <2>1
  <2>b. \A x \in B : x \in A
    BY <2>2
  <2>4. A = B
    <3> HIDE DEF A, B
    <3>1. QED
      BY <2>a, <2>b
  <2>5. QED
    BY <2>3, <2>4 DEF L, FirstOf
<1>4. ASSUME Distinct(s) PROVE Distinct(t)
  <2>1. SUFFICES ASSUME NEW k \in 1 .. n, NEW l \in 1 .. n, t[k] = t[l] PROVE k = l
    BY <1>2 DEF Distinct
  <2>2. PICK i \in I : t[k] = s[i] /\ r[i] = k - 1
    OBVIOUS
  <2>3. PICK j \in I : t[l] = s[j] /\ r[j] = l - 1
    OBVIOUS
  <2>4. i = j
    BY <1>4, <2>1, <2>2, <2>3 DEF Distinct
  <2>5. QED
    BY <2>2, <2>3, <2>4
<1>5. QED
  BY <1>2, <1>3, <1>4

\* ElementsAt takes what it says.
LEMMA ElementsTaken ==
  ASSUME NEW s \in Seq(Row), NEW I \in SUBSET (1 .. Len(s))
  PROVE  /\ ElementsAt(s, I) \in Seq(Row) /\ Len(ElementsAt(s, I)) = Cardinality(I)
         /\ Contents(ElementsAt(s, I)) = {s[i] : i \in I}
         /\ Distinct(s) => Distinct(ElementsAt(s, I))
<1> DEFINE n == Cardinality(I)
           t == ElementsAt(s, I)
           Has(i, k) == Cardinality({j \in I : j < i}) = k - 1
           r == RankBy(Ascending(I), I)
<1>1. IsFiniteSet(I) /\ n \in Nat
  <2>1. Len(s) \in Nat
    BY LenProperties
  <2>2. IsFiniteSet(I)
    BY <2>1, FirstNumbers, FS_Subset
  <2>3. QED
    BY <2>2, FS_CardinalityType
<1>2. I \in SUBSET Nat
  OBVIOUS
<1>a. StrictlyOrders(Ascending(I), I)
  BY <1>2, AscendingOrders
<1>3. r = [i \in I |-> Cardinality({j \in I : j < i})]
  BY <1>2, AscendingOrders
<1>4. /\ r \in [I -> 0 .. n - 1]
      /\ \A i, j \in I : r[i] = r[j] => i = j
      /\ \A k \in 0 .. n - 1 : \E i \in I : r[i] = k
  BY <1>1, <1>a, StrictRanking
<1>5. \A i \in I : \A k \in 1 .. n : Has(i, k) <=> r[i] = k - 1
  BY <1>3
<1>6. t = [k \in 1 .. n |-> s[CHOOSE i \in I : Has(i, k)]]
  BY DEF ElementsAt
<1> HIDE DEF t, n, r, Has
<1>7. \A k \in 1 .. n : \E i \in I : t[k] = s[i] /\ r[i] = k - 1
  <2> SUFFICES ASSUME NEW k \in 1 .. n PROVE \E i \in I : t[k] = s[i] /\ r[i] = k - 1
    OBVIOUS
  <2>1. k - 1 \in 0 .. n - 1
    BY <1>1
  <2>2. \E i \in I : Has(i, k)
    BY <1>4, <1>5, <2>1
  <2> DEFINE c == CHOOSE i \in I : Has(i, k)
  <2>3. c \in I /\ Has(c, k)
    BY <2>2
  <2>4. t[k] = s[c]
    BY <1>6
  <2>5. QED
    BY <1>5, <2>3, <2>4
<1>8. t = [k \in 1 .. n |-> t[k]] /\ r \in [I -> Nat]
  BY <1>4, <1>6
<1>b. Takes(t, s, I, r, n)
  BY <1>4, <1>7, <1>8 DEF Takes
<1>9. /\ t \in Seq(Row) /\ Len(t) = n
      /\ Contents(t) = {s[i] : i \in FirstOf(I, r, n)}
      /\ Distinct(s) => Distinct(t)
  BY <1>1, <1>b, TakenByRank
<1>10. {j \in I : r[j] < n} = I
  <2>1. \A j \in I : r[j] \in 0 .. n - 1
    BY <1>4
  <2>2. \A j \in I : r[j] < n
    BY <1>1, <2>1
  <2>3. QED
    BY <2>2
<1>11. QED
  BY <1>9, <1>10 DEF t, n, FirstOf

------------------------------------------------------------------------------
(* Selection.                                                              *)

\* The places of I by the scores of their prompts.
ByScore(score, s, I) == {p \in I \X I : Precedes(score, s, p[1], p[2])}

\* The order by score is strict, and its ranks are what Precedes counts.
LEMMA PrecedesOrders ==
  ASSUME IrtAssumption, NEW score \in [Prompts -> Scores],
         NEW s \in Seq(Row), NEW I \in SUBSET (1 .. Len(s))
  PROVE  /\ StrictlyOrders(ByScore(score, s, I), I)
         /\ \A i \in I : RankBy(ByScore(score, s, I), I)[i]
                           = Cardinality({j \in I : Precedes(score, s, j, i)})
<1> DEFINE v(i) == score[Prompt(s[i])]
           R == ByScore(score, s, I)
<1>1. \A i \in I : v(i) \in Nat /\ i \in Nat
  <2> SUFFICES ASSUME NEW i \in I PROVE v(i) \in Nat /\ i \in Nat
    OBVIOUS
  <2>1. i \in 1 .. Len(s) /\ s[i] \in Row /\ i \in Nat
    BY ElementOfSeq
  <2> DEFINE row == s[i]
  <2>2. row - 1 \in Nat /\ PassRows \in Nat \ {0}
    BY <2>1, Sizes DEF Row
  <2> HIDE DEF row
  <2>3. (row - 1) % PassRows \in 0 .. PassRows - 1
    BY <2>2, SMTT(30)
  <2>4. Prompt(row) \in Prompts
    BY <2>3, Zenon DEF Prompt, Prompts
  <2>5. score[Prompt(row)] \in Scores /\ Scores \subseteq Nat
    BY <2>4 DEF IrtAssumption
  <2>6. QED
    BY <2>1, <2>5 DEF row
<1>2. \A i, j \in I : <<i, j>> \in R <=> (v(i) > v(j) \/ (v(i) = v(j) /\ i < j))
  <2>1. \A i, j \in I : <<i, j>> \in R <=> Precedes(score, s, i, j)
    BY DEF ByScore
  <2>2. QED
    BY <2>1, Zenon DEF Precedes
<1>3. \A i \in I : {j \in I : <<j, i>> \in R} = {j \in I : Precedes(score, s, j, i)}
  BY DEF ByScore
<1>4. \A i \in I : RankBy(R, I)[i] = Cardinality({j \in I : Precedes(score, s, j, i)})
  BY <1>3 DEF RankBy
<1> HIDE DEF v, R
<1>5. \A i \in I : <<i, i>> \notin R
  BY <1>1, <1>2
<1>6. \A i, j \in I : i # j => <<i, j>> \in R \/ <<j, i>> \in R
  BY <1>1, <1>2
<1>7. \A i, j, k \in I : <<i, j>> \in R /\ <<j, k>> \in R => <<i, k>> \in R
  BY <1>1, <1>2
<1>8. StrictlyOrders(R, I)
  BY <1>5, <1>6, <1>7 DEF StrictlyOrders
<1>9. QED
  BY <1>4, <1>8 DEF R

\* Parts of the pool are finite.
LEMMA PlacesFinite ==
  ASSUME NEW s \in Seq(Row), NEW I \in SUBSET (1 .. Len(s))
  PROVE  /\ IsFiniteSet(I) /\ Cardinality(I) \in 0 .. Len(s)
         /\ Cardinality((1 .. Len(s)) \ I) = Len(s) - Cardinality(I)
<1>1. Len(s) \in Nat /\ IsFiniteSet(1 .. Len(s)) /\ Cardinality(1 .. Len(s)) = Len(s)
  BY LenProperties, FirstNumbers
<1>2. IsFiniteSet(I) /\ Cardinality(I) <= Len(s)
  BY <1>1, FS_Subset
<1>3. Cardinality(I) \in Nat
  BY <1>2, FS_CardinalityType
<1>4. Cardinality((1 .. Len(s)) \ I) = Cardinality(1 .. Len(s)) - Cardinality((1 .. Len(s)) \cap I)
  BY <1>1, FS_Difference
<1>5. (1 .. Len(s)) \cap I = I
  OBVIOUS
<1> DEFINE a == Cardinality(I)
           b == Cardinality((1 .. Len(s)) \ I)
           m == Len(s)
<1>6. a \in Nat /\ m \in Nat /\ a <= m /\ b = m - a
  BY <1>1, <1>2, <1>3, <1>4, <1>5
<1> HIDE DEF a, b, m
<1>7. a \in 0 .. m /\ b = m - a
  BY <1>6
<1>8. QED
  BY <1>2, <1>7 DEF a, b, m

\* The best rows and the explored ones are no more than a batch.
LEMMA TopFits ==
  ASSUME IrtAssumption, pool \in Seq(Row), NEW score \in [Prompts -> Scores]
  PROVE  /\ Top(score) \in SUBSET Indices
         /\ Cardinality(Top(score)) \in 0 .. BatchSize - NExplore
<1> DEFINE first == {i \in Indices : \A j \in Indices :
                       j # i /\ Prompt(pool[j]) = Prompt(pool[i]) => i < j}
           R == ByScore(score, pool, first)
           r == RankBy(R, first)
           n == BatchSize - NExplore
<1>1. first \in SUBSET Indices /\ Indices = 1 .. Len(pool) /\ n \in Nat
  BY DEF Indices, IrtAssumption
<1>2. Top(score) = {i \in first : Cardinality({j \in first : Precedes(score, pool, j, i)}) < n}
  BY Zenon DEF Top
<1> HIDE DEF first, n
<1>3. /\ StrictlyOrders(R, first)
      /\ \A i \in first : r[i] = Cardinality({j \in first : Precedes(score, pool, j, i)})
  BY <1>1, PrecedesOrders
<1>4. IsFiniteSet(first)
  BY <1>1, PlacesFinite
<1> HIDE DEF R
<1>5. /\ Cardinality(first) \in Nat /\ r \in [first -> 0 .. Cardinality(first) - 1]
      /\ \A i, j \in first : r[i] = r[j] => i = j
  BY <1>3, <1>4, StrictRanking
<1> HIDE DEF r
<1>6. r \in [first -> Nat]
  BY <1>5
<1>7. Cardinality(FirstOf(first, r, n)) \in 0 .. n
  BY <1>1, <1>4, <1>5, <1>6, FirstOfRank
<1>8. Top(score) = FirstOf(first, r, n)
  BY <1>2, <1>3 DEF FirstOf
<1>9. QED
  BY <1>1, <1>7, <1>8 DEF n, FirstOf

\* However few rows the selection picks, it picks no more than a batch.
LEMMA PickedFits ==
  ASSUME IrtAssumption, pool \in Seq(Row), NEW score \in [Prompts -> Scores],
         NEW E \in Explored(Top(score))
  PROVE  /\ Top(score) \cup E \in SUBSET Indices
         /\ Cardinality(Top(score) \cup E) \in 0 .. BatchSize
<1> DEFINE top == Top(score)
           need == BatchSize - Cardinality(top)
           AtMost(m) == IF need < m THEN need ELSE m
           rest == Indices \ top
           fresh == PromptsOf(rest) \ PromptsOf(top)
<1>1. /\ top \in SUBSET Indices /\ Cardinality(top) \in 0 .. BatchSize - NExplore
      /\ BatchSize \in Nat /\ NExplore \in 0 .. BatchSize
  BY TopFits DEF IrtAssumption
<1>2. /\ E \in SUBSET rest
      /\ Cardinality(E) = AtMost(Cardinality(rest)) \/ Cardinality(E) = AtMost(Cardinality(fresh))
  BY DEF Explored
<1>3. top \cup E \in SUBSET Indices /\ Indices = 1 .. Len(pool)
  BY <1>1, <1>2 DEF Indices
<1> HIDE DEF top
<1>4. /\ IsFiniteSet(top) /\ IsFiniteSet(E) /\ IsFiniteSet(rest)
      /\ Cardinality(rest) \in Nat /\ Cardinality(E) \in Nat /\ Cardinality(top) \in Nat
  <2>1. E \in SUBSET (1 .. Len(pool)) /\ top \in SUBSET (1 .. Len(pool))
        /\ rest \in SUBSET (1 .. Len(pool))
    BY <1>1, <1>2, <1>3
  <2> HIDE DEF rest
  <2>2. IsFiniteSet(top) /\ IsFiniteSet(E) /\ IsFiniteSet(rest)
    BY <2>1, PlacesFinite
  <2>3. QED
    BY <2>2, FS_CardinalityType
<1>5. \A a, b : (a = IF need < b THEN need ELSE b) => a = need \/ (a = b /\ ~ (need < b))
  BY Zenon
<1>6. Cardinality(E) <= need
  <2>1. CASE Cardinality(E) = AtMost(Cardinality(rest))
    <3> DEFINE b == Cardinality(rest)
               a == Cardinality(E)
    <3>1. a \in Nat /\ b \in Nat /\ need \in Nat /\ a = (IF need < b THEN need ELSE b)
      BY <1>1, <1>4, <2>1
    <3> HIDE DEF a, b, need
    <3>2. QED
      BY <3>1 DEF a
  <2>2. CASE Cardinality(E) = AtMost(Cardinality(fresh))
    <3> DEFINE b == Cardinality(fresh)
               a == Cardinality(E)
    <3>1. b \in Nat
      <4>1. IsFiniteSet(PromptsOf(rest))
        <5> DEFINE f == [i \in rest |-> Prompt(pool[i])]
        <5>1. f \in [rest -> PromptsOf(rest)] /\ \A x \in PromptsOf(rest) : \E i \in rest : f[i] = x
          BY DEF PromptsOf
        <5> HIDE DEF f, rest
        <5>2. f \in Surjection(rest, PromptsOf(rest))
          BY <5>1, Zenon DEF Surjection
        <5>3. QED
          BY <1>4, <5>2, FS_Surjection
      <4>2. fresh \in SUBSET PromptsOf(rest)
        OBVIOUS
      <4> HIDE DEF fresh, rest
      <4>3. QED
        BY <4>1, <4>2, FS_Subset, FS_CardinalityType
    <3>2. a \in Nat /\ need \in Nat /\ a = (IF need < b THEN need ELSE b)
      BY <1>1, <1>4, <2>2
    <3> HIDE DEF a, b, need
    <3>3. QED
      BY <3>1, <3>2 DEF a
  <2>3. QED
    BY <1>2, <2>1, <2>2
<1>7. top \cap E = {}
  BY <1>2
<1>8. Cardinality(top \cup E) = Cardinality(top) + Cardinality(E)
  <2>1. Cardinality(top \cup E) = Cardinality(top) + Cardinality(E) - Cardinality(top \cap E)
    BY <1>4, FS_Union
  <2>2. Cardinality(top \cap E) = 0
    BY <1>7, FS_EmptySet
  <2>3. QED
    BY <1>4, <2>1, <2>2
<1>9. QED
  BY <1>1, <1>3, <1>4, <1>6, <1>8 DEF top

\* What Filled adds makes a whole batch of any part of a pool that is as large.
LEMMA FilledIsWhole ==
  ASSUME IrtAssumption, pool \in Seq(Row), Len(pool) >= BatchSize,
         NEW picked \in SUBSET Indices, Cardinality(picked) \in 0 .. BatchSize
  PROVE  /\ Filled(picked) \in SUBSET Indices
         /\ Cardinality(Filled(picked)) = BatchSize
<1> DEFINE left == Indices \ picked
           n == BatchSize - Cardinality(picked)
           r == RankBy(Ascending(left), left)
           more == {i \in left : Cardinality({j \in left : j < i}) < n}
<1>1. /\ BatchSize \in Nat /\ n \in Nat /\ Indices = 1 .. Len(pool) /\ Len(pool) \in Nat
      /\ Cardinality(picked) \in Nat
  BY LenProperties DEF IrtAssumption, Indices
<1>2. /\ IsFiniteSet(picked) /\ IsFiniteSet(left)
      /\ Cardinality(left) = Len(pool) - Cardinality(picked)
  <2>1. IsFiniteSet(picked) /\ Cardinality(left) = Len(pool) - Cardinality(picked)
    BY <1>1, PlacesFinite
  <2>2. left \in SUBSET (1 .. Len(pool))
    BY <1>1
  <2> HIDE DEF left
  <2>3. QED
    BY <2>1, <2>2, PlacesFinite
<1>3. Filled(picked) = picked \cup more
  BY Zenon DEF Filled
<1>4. left \in SUBSET Nat
  BY <1>1
<1> HIDE DEF left
<1>5. StrictlyOrders(Ascending(left), left)
  BY <1>4, AscendingOrders
<1>6. r = [i \in left |-> Cardinality({j \in left : j < i})]
  BY <1>4, AscendingOrders
<1>7. /\ Cardinality(left) \in Nat
      /\ r \in [left -> 0 .. Cardinality(left) - 1]
      /\ \A i, j \in left : r[i] = r[j] => i = j
      /\ \A k \in 0 .. Cardinality(left) - 1 : \E i \in left : r[i] = k
  BY <1>2, <1>5, StrictRanking
<1> HIDE DEF r
<1>8. more = {i \in left : r[i] < n}
  BY <1>6
<1>9. r \in [left -> Nat]
  BY <1>7
<1>10. \A k \in 0 .. n - 1 : \E i \in left : r[i] = k
  <2>1. n <= Cardinality(left)
    BY <1>1, <1>2
  <2>2. \A k \in 0 .. n - 1 : k \in 0 .. Cardinality(left) - 1
    BY <1>1, <1>7, <2>1
  <2> HIDE DEF n
  <2>3. QED
    BY <1>7, <2>2
<1> HIDE DEF n
<1>11. IsFiniteSet(more) /\ Cardinality(more) = n
  <2>1. IsFiniteSet(FirstOf(left, r, n)) /\ Cardinality(FirstOf(left, r, n)) = n
    <3>1. n \in Nat /\ IsFiniteSet(left) /\ r \in [left -> Nat]
      BY <1>1, <1>2, <1>9
    <3>2. \A i, j \in left : r[i] = r[j] => i = j
      BY <1>7
    <3>3. QED
      BY <1>10, <3>1, <3>2, AllOfRank
  <2>2. QED
    BY <1>8, <2>1 DEF FirstOf
<1>12. more \in SUBSET left /\ picked \cap more = {}
  BY DEF left
<1> HIDE DEF more
<1>13. Cardinality(picked \cup more) = Cardinality(picked) + n
  <2>1. Cardinality(picked \cup more)
          = Cardinality(picked) + Cardinality(more) - Cardinality(picked \cap more)
    BY <1>2, <1>11, FS_Union
  <2>2. Cardinality(picked \cap more) = 0
    BY <1>12, FS_EmptySet
  <2>3. QED
    BY <1>1, <1>11, <2>1, <2>2
<1>14. QED
  BY <1>1, <1>3, <1>12, <1>13 DEF n, left

\* A pool is cut to rows of its own.
LEMMA Trims ==
  ASSUME IrtAssumption, NEW score \in [Prompts -> Scores], NEW s \in Seq(Row)
  PROVE  /\ Trimmed(score, s) \in Seq(Row)
         /\ Contents(Trimmed(score, s)) \subseteq Contents(s)
         /\ Distinct(s) => Distinct(Trimmed(score, s))
         /\ Len(s) <= PoolMax => Trimmed(score, s) = s
<1>1. Len(s) \in Nat /\ PoolMax = 2 * PoolTarget /\ PoolTarget \in Nat
  BY Sizes, LenProperties
<1>2. CASE ~ (Len(s) > PoolMax)
  BY <1>2 DEF Trimmed
<1>3. CASE Len(s) > PoolMax
  <2> DEFINE I == 1 .. Len(s)
             n == PoolTarget
             t == Trimmed(score, s)
             Has(i, k) == Cardinality({j \in I : Precedes(score, s, j, i)}) = k - 1
             R == ByScore(score, s, I)
             r == RankBy(R, I)
  <2>1. /\ StrictlyOrders(R, I)
        /\ \A i \in I : r[i] = Cardinality({j \in I : Precedes(score, s, j, i)})
    BY PrecedesOrders
  <2>2. IsFiniteSet(I) /\ Cardinality(I) = Len(s)
    BY <1>1, FirstNumbers
  <2> HIDE DEF R
  <2>3. /\ r \in [I -> 0 .. Cardinality(I) - 1]
        /\ \A i, j \in I : r[i] = r[j] => i = j
        /\ \A k \in 0 .. Cardinality(I) - 1 : \E i \in I : r[i] = k
    BY <2>1, <2>2, StrictRanking
  <2>4. \A i \in I : \A k \in 1 .. n : Has(i, k) <=> r[i] = k - 1
    BY <2>1
  <2>5. t = [k \in 1 .. n |-> s[CHOOSE i \in I : Has(i, k)]]
    BY <1>3, Zenon DEF Trimmed
  <2> HIDE DEF r, t, I, Has, n
  <2>6. \A k \in 1 .. n : \E i \in I : t[k] = s[i] /\ r[i] = k - 1
    <3> SUFFICES ASSUME NEW k \in 1 .. n PROVE \E i \in I : t[k] = s[i] /\ r[i] = k - 1
      OBVIOUS
    <3>1. k - 1 \in 0 .. Cardinality(I) - 1
      BY <1>1, <1>3, <2>2 DEF n
    <3>2. \E i \in I : Has(i, k)
      BY <2>3, <2>4, <3>1
    <3> DEFINE c == CHOOSE i \in I : Has(i, k)
    <3>3. c \in I /\ Has(c, k)
      BY <3>2
    <3>4. t[k] = s[c]
      BY <2>5
    <3>5. QED
      BY <2>4, <3>3, <3>4
  <2>7. n \in Nat
    BY <1>1 DEF n
  <2>8. Takes(t, s, I, r, n)
    BY <2>3, <2>5, <2>6 DEF Takes
  <2>9. /\ t \in Seq(Row)
        /\ Contents(t) = {s[i] : i \in FirstOf(I, r, n)}
        /\ Distinct(s) => Distinct(t)
    <3>1. I \in SUBSET (1 .. Len(s))
      BY DEF I
    <3>2. QED
      BY <2>7, <2>8, <3>1, TakenByRank, SMTT(60)
  <2>10. {s[i] : i \in FirstOf(I, r, n)} \subseteq Contents(s)
    BY DEF Contents, I, FirstOf
  <2>11. QED
    BY <1>1, <1>3, <2>9, <2>10 DEF t
<1>4. QED
  BY <1>2, <1>3

\* A batch of the pool and the rest of it share no row and are the pool.
LEMMA PoolSplits ==
  ASSUME IrtAssumption, pool \in Seq(Row), Distinct(pool),
         NEW picked \in SUBSET Indices, Cardinality(picked) = BatchSize
  PROVE  /\ Cardinality({pool[i] : i \in picked}) = BatchSize
         /\ Remaining(picked) \in Seq(Row) /\ Distinct(Remaining(picked))
         /\ Len(Remaining(picked)) = Len(pool) - BatchSize
         /\ Contents(Remaining(picked)) \cap {pool[i] : i \in picked} = {}
         /\ Contents(Remaining(picked)) \cup {pool[i] : i \in picked} = Contents(pool)
<1> DEFINE I == Indices \ picked
           batch == {pool[i] : i \in picked}
<1>1. Indices = 1 .. Len(pool) /\ I \in SUBSET (1 .. Len(pool))
  BY DEF Indices
<1>2. Cardinality(batch) = BatchSize
  BY <1>1, DistinctCount
<1>3. Cardinality(I) = Len(pool) - BatchSize
  BY <1>1, PlacesFinite
<1>4. Remaining(picked) = ElementsAt(pool, I)
  BY DEF Remaining
<1>5. /\ ElementsAt(pool, I) \in Seq(Row) /\ Len(ElementsAt(pool, I)) = Cardinality(I)
      /\ Contents(ElementsAt(pool, I)) = {pool[i] : i \in I}
      /\ Distinct(ElementsAt(pool, I))
  <2> HIDE DEF I
  <2>1. QED
    BY <1>1, ElementsTaken
<1>6. {pool[i] : i \in I} \cap batch = {}
  BY <1>1 DEF Distinct
<1>7. {pool[i] : i \in I} \cup batch = Contents(pool)
  BY <1>1 DEF Contents
<1>8. QED
  BY <1>2, <1>3, <1>4, <1>5, <1>6, <1>7

------------------------------------------------------------------------------
(* The invariant.                                                          *)

IrtTyped ==
  /\ pc \in {"down", "fill", "train", "over"}
  /\ drawn \in Nat /\ launches \in Nat /\ ckpt.drawn \in Nat
  /\ pool \in Seq(Row) /\ Contents(pool) \subseteq DrawnRows
  /\ current \subseteq DrawnRows /\ served \subseteq DrawnRows
  /\ ckpt.served \subseteq 1 .. ckpt.drawn * InnerBsz

IrtOnce ==
  /\ Distinct(pool)
  /\ current \cap served = {}
  /\ Contents(pool) \cap (served \cup current) = {}

IrtWhole ==
  /\ pc = "fill" => current = {}
  /\ pc = "train" => Cardinality(current) = BatchSize
  /\ pc = "over" => Len(pool) < BatchSize

\* What one inner batch more than the pool asks for leaves behind a batch.
Postponed == PoolTarget + InnerBsz - 1 - BatchSize

\* Rows a relaunch from the checkpoint would have drawn and not trained on.
Forgotten == (1 .. ckpt.drawn * InnerBsz) \ ckpt.served

IrtMissing ==
  /\ pc # "down" => launches > 0
  /\ InnerBsz <= PoolTarget + BatchSize =>
       /\ pc = "fill" => Len(pool) <= Postponed + BatchSize
       /\ pc = "train" => Len(pool) <= Postponed
       /\ pc # "down" => Cardinality(Missing) <= (launches - 1) * Postponed
       /\ Cardinality(Forgotten) <= launches * Postponed

IrtInv == IrtTyped /\ IrtOnce /\ IrtWhole

\* How many rows may stay behind a batch is a number.
LEMMA PostponedType == ASSUME IrtAssumption PROVE Postponed \in Nat
<1>1. PoolTarget \in Nat /\ BatchSize \in Nat /\ InnerBsz \in Nat \ {0} /\ BatchSize <= PoolTarget
  BY Sizes DEF IrtAssumption
<1>2. QED
  BY <1>1 DEF Postponed

\* The pool a launch starts with.
LEMMA NoPool == <<>> \in Seq(Row) /\ Len(<<>>) = 0 /\ Contents(<<>>) = {} /\ Distinct(<<>>)
<1>1. <<>> \in Seq(Row) /\ Len(<<>>) = 0
  BY EmptySeq
<1>2. QED
  BY <1>1 DEF Contents, Distinct

\* The rows an inner batch adds are new to the pool and to what was drawn.
LEMMA Ingested ==
  ASSUME IrtAssumption, IrtTyped, IrtOnce, Ingest
  PROVE  /\ pool' \in Seq(Row) /\ Distinct(pool') /\ Len(pool') = Len(pool) + InnerBsz
         /\ DrawnRows \subseteq DrawnRows'
         /\ Contents(pool') = Contents(pool) \cup (DrawnRows' \ DrawnRows)
         /\ drawn' \in Nat
<1> DEFINE d == drawn * InnerBsz
           new == [k \in 1 .. InnerBsz |-> d + k]
           n == Len(pool)
<1>1. /\ d \in Nat /\ InnerBsz \in Nat /\ n \in Nat /\ drawn \in Nat
      /\ drawn' = drawn + 1 /\ (drawn + 1) * InnerBsz = d + InnerBsz
  <2>1. drawn \in Nat /\ InnerBsz \in Nat /\ drawn' = drawn + 1
    BY DEF IrtTyped, Ingest, IrtAssumption
  <2>2. d \in Nat /\ (drawn + 1) * InnerBsz = d + InnerBsz
    BY <2>1, SMTT(30)
  <2>3. QED
    BY <2>1, <2>2, LenProperties DEF IrtTyped
<1>2. DrawnRows = 1 .. d /\ DrawnRows' = 1 .. d + InnerBsz
  BY <1>1 DEF DrawnRows
<1>3. pool' = pool \o new /\ pool \in Seq(Row)
  BY DEF Ingest, IrtTyped
<1> HIDE DEF d
<1>4. new \in Seq(Row) /\ Len(new) = InnerBsz /\ \A k \in 1 .. InnerBsz : new[k] = d + k
  <2>1. new \in [1 .. InnerBsz -> Row]
    BY <1>1 DEF Row
  <2> HIDE DEF new
  <2>2. new \in Seq(Row) /\ Len(new) = InnerBsz
    BY <1>1, <2>1, AsSequence
  <2>3. QED
    BY <2>2 DEF new
<1> HIDE DEF new
<1>5. /\ pool' \in Seq(Row) /\ Len(pool') = n + InnerBsz
      /\ \A i \in 1 .. n : pool'[i] = pool[i]
      /\ \A i \in n + 1 .. n + InnerBsz : pool'[i] = d + (i - n)
  <2>1. pool' \in Seq(Row) /\ Len(pool') = n + InnerBsz
    BY <1>3, <1>4, ConcatProperties
  <2>2. \A i \in 1 .. n + InnerBsz : pool'[i] = IF i <= n THEN pool[i] ELSE new[i - n]
    BY <1>3, <1>4, ConcatProperties
  <2>3. \A i \in n + 1 .. n + InnerBsz : i - n \in 1 .. InnerBsz /\ ~ (i <= n)
                                         /\ i \in 1 .. n + InnerBsz
    BY <1>1
  <2>4. \A i \in 1 .. n : i <= n /\ i \in 1 .. n + InnerBsz
    BY <1>1
  <2>5. QED
    BY <1>4, <2>1, <2>2, <2>3, <2>4
<1>6. \A i \in 1 .. n : pool[i] \in 1 .. d
  BY <1>2 DEF IrtTyped, Contents
<1> DEFINE q == pool'
<1>7. Distinct(q)
  <2>1. SUFFICES ASSUME NEW i \in 1 .. n + InnerBsz, NEW j \in 1 .. n + InnerBsz,
                        q[i] = q[j]
                 PROVE  i = j
    BY <1>5 DEF Distinct
  <2>2. \A k \in 1 .. n + InnerBsz :
          \/ k \in 1 .. n /\ q[k] = pool[k] /\ q[k] \in 1 .. d
          \/ k \in n + 1 .. n + InnerBsz /\ q[k] = d + (k - n)
    <3>1. \A k \in 1 .. n + InnerBsz : k \in 1 .. n \/ k \in n + 1 .. n + InnerBsz
      BY <1>1
    <3>2. QED
      BY <1>5, <1>6, <3>1
  <2>3. \A k, l \in 1 .. n : pool[k] = pool[l] => k = l
    BY DEF IrtOnce, Distinct
  <2> HIDE DEF q, n
  <2>4. CASE q[i] \in 1 .. d
    <3>1. \A k \in n + 1 .. n + InnerBsz : ~ (d + (k - n) \in 1 .. d)
      BY <1>1
    <3>2. i \in 1 .. n /\ j \in 1 .. n /\ pool[i] = pool[j]
      BY <2>1, <2>2, <2>4, <3>1
    <3>3. QED
      BY <2>3, <3>2
  <2>5. CASE q[i] \notin 1 .. d
    <3>1. /\ i \in n + 1 .. n + InnerBsz /\ j \in n + 1 .. n + InnerBsz
          /\ d + (i - n) = d + (j - n)
      BY <2>1, <2>2, <2>5
    <3>2. QED
      BY <1>1, <3>1
  <2>6. QED
    BY <2>4, <2>5
<1>8. Contents(q) = Contents(pool) \cup ((1 .. d + InnerBsz) \ (1 .. d))
  <2>1. \A x \in Contents(q) : x \in Contents(pool) \/ x \in (1 .. d + InnerBsz) \ (1 .. d)
    <3> SUFFICES ASSUME NEW i \in 1 .. n + InnerBsz
                 PROVE  q[i] \in Contents(pool) \/ q[i] \in (1 .. d + InnerBsz) \ (1 .. d)
      BY <1>5 DEF Contents
    <3>1. CASE i \in 1 .. n
      BY <1>5, <3>1 DEF Contents
    <3>2. CASE i \in n + 1 .. n + InnerBsz
      <4>1. q[i] = d + (i - n)
        BY <1>5, <3>2
      <4> HIDE DEF q, n
      <4>2. QED
        BY <1>1, <3>2, <4>1
    <3>3. QED
      BY <1>1, <3>1, <3>2
  <2>2. Contents(pool) \subseteq Contents(q)
    <3>1. \A i \in 1 .. n : i \in 1 .. Len(q) /\ q[i] = pool[i]
      BY <1>1, <1>5
    <3>2. QED
      BY <3>1 DEF Contents
  <2>3. ASSUME NEW x \in (1 .. d + InnerBsz) \ (1 .. d) PROVE x \in Contents(q)
    <3> DEFINE i == n + (x - d)
    <3>1. i \in n + 1 .. n + InnerBsz /\ i - n = x - d /\ d + (x - d) = x
      BY <1>1
    <3> HIDE DEF i
    <3>2. q[i] = x
      BY <1>5, <3>1
    <3>3. i \in 1 .. Len(q)
      BY <1>1, <1>5, <3>1
    <3>4. QED
      BY <3>2, <3>3 DEF Contents
  <2>4. QED
    BY <2>1, <2>2, <2>3
<1>9. 1 .. d \subseteq 1 .. d + InnerBsz
  BY <1>1
<1>10. QED
  BY <1>1, <1>2, <1>5, <1>7, <1>8, <1>9

\* A selection serves a whole batch of rows and takes them out of the pool.
LEMMA Selected ==
  ASSUME IrtAssumption, IrtTyped, IrtOnce, Select
  PROVE  /\ Cardinality(current') = BatchSize
         /\ pool' \in Seq(Row) /\ Distinct(pool')
         /\ Contents(pool') \cap current' = {}
         /\ Contents(pool') \cup current' \subseteq Contents(pool)
         /\ Len(pool) <= PoolMax + BatchSize =>
              /\ Len(pool') = Len(pool) - BatchSize
              /\ Contents(pool') \cup current' = Contents(pool)
<1>a. PICK score \in [Prompts -> Scores] :
        \E E \in Explored(Top(score)) :
          LET picked == Filled(Top(score) \cup E)
          IN  /\ current' = {pool[i] : i \in picked}
              /\ pool' = Trimmed(score, Remaining(picked))
  BY DEF Select
<1>1. PICK E \in Explored(Top(score)) :
        LET picked == Filled(Top(score) \cup E)
        IN  /\ current' = {pool[i] : i \in picked}
            /\ pool' = Trimmed(score, Remaining(picked))
  BY <1>a
<1> DEFINE picked == Filled(Top(score) \cup E)
           rest == Remaining(picked)
<1>2. /\ current' = {pool[i] : i \in picked}
      /\ pool' = Trimmed(score, rest)
  BY <1>1
<1>3. pool \in Seq(Row) /\ Distinct(pool) /\ Len(pool) >= BatchSize
  BY DEF IrtTyped, IrtOnce, Select
<1>4. /\ Top(score) \cup E \in SUBSET Indices
      /\ Cardinality(Top(score) \cup E) \in 0 .. BatchSize
  BY <1>3, PickedFits
<1>5. picked \in SUBSET Indices /\ Cardinality(picked) = BatchSize
  BY <1>3, <1>4, FilledIsWhole
<1> HIDE DEF picked
<1>6. /\ Cardinality({pool[i] : i \in picked}) = BatchSize
      /\ rest \in Seq(Row) /\ Distinct(rest)
      /\ Len(rest) = Len(pool) - BatchSize
      /\ Contents(rest) \cap {pool[i] : i \in picked} = {}
      /\ Contents(rest) \cup {pool[i] : i \in picked} = Contents(pool)
  BY <1>3, <1>5, PoolSplits
<1> HIDE DEF rest
<1>7. /\ Trimmed(score, rest) \in Seq(Row)
      /\ Contents(Trimmed(score, rest)) \subseteq Contents(rest)
      /\ Distinct(Trimmed(score, rest))
      /\ Len(rest) <= PoolMax => Trimmed(score, rest) = rest
  BY <1>6, Trims
<1>8. Len(pool) <= PoolMax + BatchSize => Len(rest) <= PoolMax
  <2>1. Len(pool) \in Nat /\ PoolMax \in Nat /\ BatchSize \in Nat
    BY <1>3, LenProperties, Sizes DEF IrtAssumption
  <2>2. QED
    BY <1>6, <2>1
<1>9. QED
  BY <1>2, <1>6, <1>7, <1>8

\* The invariant holds at first ...
LEMMA IrtInvInit == ASSUME IrtAssumption PROVE Init => IrtInv
<1>1. SUFFICES ASSUME Init PROVE IrtInv
  OBVIOUS
<1>2. IrtTyped
  BY <1>1, NoPool DEF Init, IrtTyped
<1>3. IrtOnce
  BY <1>1, NoPool DEF Init, IrtOnce
<1>4. IrtWhole
  BY <1>1 DEF Init, IrtWhole
<1>5. QED
  BY <1>2, <1>3, <1>4 DEF IrtInv

\* ... every step preserves it ...
LEMMA IrtInvNext == ASSUME IrtAssumption, IrtInv, [Next]_vars PROVE IrtInv'
<1> USE DEF IrtInv
<1>1. CASE Launch
  <2>1. IrtTyped'
    BY <1>1, NoPool DEF Launch, IrtTyped, DrawnRows
  <2>2. IrtOnce' /\ IrtWhole'
    BY <1>1, NoPool DEF Launch, IrtOnce, IrtWhole
  <2>3. QED
    BY <2>1, <2>2
<1>2. CASE Ingest
  <2>1. /\ pool' \in Seq(Row) /\ Distinct(pool')
        /\ DrawnRows \subseteq DrawnRows'
        /\ Contents(pool') = Contents(pool) \cup (DrawnRows' \ DrawnRows)
        /\ drawn' \in Nat
    BY <1>2, Ingested
  <2>2. IrtTyped'
    BY <1>2, <2>1 DEF Ingest, IrtTyped
  <2>3. IrtOnce'
    BY <1>2, <2>1 DEF Ingest, IrtOnce, IrtTyped
  <2>4. IrtWhole'
    BY <1>2 DEF Ingest, Filling, IrtWhole
  <2>5. QED
    BY <2>2, <2>3, <2>4
<1>3. CASE StopIteration
  BY <1>3 DEF StopIteration, Filling, IrtTyped, IrtOnce, IrtWhole, DrawnRows
<1>4. CASE EndOfPass
  BY <1>4 DEF EndOfPass, IrtTyped, IrtOnce, IrtWhole, DrawnRows
<1>5. CASE Select
  <2>1. /\ Cardinality(current') = BatchSize
        /\ pool' \in Seq(Row) /\ Distinct(pool')
        /\ Contents(pool') \cap current' = {}
        /\ Contents(pool') \cup current' \subseteq Contents(pool)
    BY <1>5, Selected
  <2>2. IrtTyped'
    BY <1>5, <2>1 DEF Select, IrtTyped, DrawnRows
  <2>3. IrtOnce'
    BY <1>5, <2>1 DEF Select, IrtOnce
  <2>4. IrtWhole'
    BY <1>5, <2>1 DEF Select, IrtWhole
  <2>5. QED
    BY <2>2, <2>3, <2>4
<1>6. CASE Train
  <2>1. served' = served \cup current /\ current' = {} /\ pool' = pool
        /\ drawn' = drawn /\ launches' = launches /\ pc' = "fill"
    BY <1>6 DEF Train
  <2>2. \/ ckpt' = ckpt
        \/ ckpt'.drawn = drawn /\ ckpt'.served = served'
    BY <1>6 DEF Train
  <2>3. IrtTyped'
    BY <2>1, <2>2 DEF IrtTyped, DrawnRows
  <2>4. IrtOnce' /\ IrtWhole'
    BY <2>1 DEF IrtOnce, IrtWhole
  <2>5. QED
    BY <2>3, <2>4
<1>7. CASE Crash
  BY <1>7 DEF Crash, IrtTyped, IrtOnce, IrtWhole, DrawnRows
<1>8. CASE UNCHANGED vars
  BY <1>8 DEF vars, IrtTyped, IrtOnce, IrtWhole, DrawnRows
<1>9. QED
  BY <1>1, <1>2, <1>3, <1>4, <1>5, <1>6, <1>7, <1>8 DEF Next, Over

\* ... and so it always holds.
LEMMA IrtInvAlways == ASSUME IrtAssumption PROVE Spec => []IrtInv
BY IrtInvInit, IrtInvNext, PTL DEF Spec

------------------------------------------------------------------------------
(* Counting what is missing.                                               *)

\* At first nothing is missing ...
LEMMA MissingInit == ASSUME IrtAssumption PROVE Init => IrtMissing
<1>1. SUFFICES ASSUME Init PROVE IrtMissing
  OBVIOUS
<1>2. pc = "down" /\ launches = 0 /\ ckpt.drawn = 0
  BY <1>1 DEF Init
<1>3. Forgotten = {}
  <2>1. ckpt.drawn * InnerBsz = 0
    BY <1>2, SMTT(30) DEF IrtAssumption
  <2>2. QED
    BY <2>1 DEF Forgotten
<1>4. Cardinality(Forgotten) = 0
  BY <1>3, FS_EmptySet
<1>5. launches * Postponed = 0
  BY <1>2, PostponedType, SMTT(30)
<1>6. QED
  BY <1>2, <1>4, <1>5 DEF IrtMissing

\* Each launch postpones at most one more pool.
LEMMA OneMore ==
  ASSUME IrtAssumption, NEW l \in Nat
  PROVE  /\ (l + 1 - 1) * Postponed = l * Postponed
         /\ l * Postponed \in Nat /\ (l + 1) * Postponed = l * Postponed + Postponed
         /\ l > 0 => l * Postponed = (l - 1) * Postponed + Postponed
<1> DEFINE p == Postponed
<1>1. p \in Nat
  BY PostponedType
<1> HIDE DEF p
<1>2. l + 1 - 1 = l
  OBVIOUS
<1>3. l * p \in Nat /\ (l + 1) * p = l * p + p
  BY <1>1, SMTT(30)
<1>4. l > 0 => l * p = (l - 1) * p + p
  BY <1>1, SMTT(30)
<1>5. QED
  BY <1>2, <1>3, <1>4 DEF p

\* What is missing is a part of what was drawn, so it is finite.
LEMMA MissingFinite ==
  ASSUME IrtAssumption, IrtTyped
  PROVE  /\ IsFiniteSet(Missing) /\ Cardinality(Missing) \in Nat
         /\ IsFiniteSet(Forgotten) /\ Cardinality(Forgotten) \in Nat
<1> DEFINE d == drawn * InnerBsz
           c == ckpt.drawn * InnerBsz
<1>1. d \in Nat /\ c \in Nat
  <2>1. drawn \in Nat /\ ckpt.drawn \in Nat /\ InnerBsz \in Nat
    BY DEF IrtTyped, IrtAssumption
  <2>2. QED
    BY <2>1, SMTT(30)
<1>2. Missing \in SUBSET (1 .. d) /\ Forgotten \in SUBSET (1 .. c)
  BY DEF Missing, DrawnRows, Forgotten
<1> HIDE DEF d, c
<1>3. IsFiniteSet(1 .. d) /\ IsFiniteSet(1 .. c)
  BY <1>1, FirstNumbers
<1>4. IsFiniteSet(Missing) /\ IsFiniteSet(Forgotten)
  BY <1>2, <1>3, FS_Subset
<1>5. QED
  BY <1>4, FS_CardinalityType

\* ... and a launch loses no more rows than it postpones.
LEMMA MissingNext ==
  ASSUME IrtAssumption, IrtInv, IrtMissing, [Next]_vars
  PROVE  IrtMissing'
<1> DEFINE Small == InnerBsz <= PoolTarget + BatchSize
<1>0. IrtTyped /\ IrtOnce /\ IrtTyped' /\ launches \in Nat
  <2>1. IrtInv'
    BY IrtInvNext
  <2>2. QED
    BY <2>1 DEF IrtInv, IrtTyped
<1>s. /\ PoolTarget \in Nat /\ BatchSize \in Nat \ {0} /\ InnerBsz \in Nat \ {0}
      /\ PoolMax = 2 * PoolTarget /\ BatchSize <= PoolTarget /\ Len(pool) \in Nat
      /\ Postponed \in Nat /\ Postponed = PoolTarget + InnerBsz - 1 - BatchSize
  BY <1>0, Sizes, PostponedType, LenProperties DEF IrtAssumption, Postponed, IrtTyped
<1>1. CASE Launch
  <2>1. /\ launches' = launches + 1 /\ Len(pool') = 0 /\ pc' = "fill"
        /\ ckpt' = ckpt /\ drawn' = ckpt.drawn /\ served' = ckpt.served
        /\ current' = {} /\ Contents(pool') = {}
    BY <1>1, NoPool DEF Launch
  <2>2. Missing' = Forgotten /\ Forgotten' = Forgotten
    BY <2>1 DEF Missing, Forgotten, DrawnRows
  <2>3. /\ (launches' - 1) * Postponed = launches * Postponed
        /\ launches' * Postponed = launches * Postponed + Postponed
        /\ launches * Postponed \in Nat
    BY <1>0, <2>1, OneMore
  <2>4. Small => Cardinality(Forgotten) <= launches * Postponed
    BY DEF IrtMissing
  <2>5. Cardinality(Forgotten) \in Nat
    BY <1>0, MissingFinite
  <2> DEFINE x == launches * Postponed
             f == Cardinality(Forgotten)
  <2>6. Small => f <= x /\ f <= x + Postponed
    <3>1. x \in Nat /\ f \in Nat /\ (Small => f <= x)
      BY <2>3, <2>4, <2>5
    <3> HIDE DEF x, f, Small
    <3>2. QED
      BY <1>s, <3>1
  <2>7. Small => /\ Cardinality(Missing') <= (launches' - 1) * Postponed
                 /\ Cardinality(Forgotten') <= launches' * Postponed
    BY <2>2, <2>3, <2>6
  <2>8. launches' > 0 /\ Len(pool') <= Postponed + BatchSize
    BY <1>0, <1>s, <2>1
  <2>9. QED
    BY <2>1, <2>7, <2>8 DEF IrtMissing
<1>2. CASE Ingest
  <2>1. /\ Len(pool') = Len(pool) + InnerBsz
        /\ DrawnRows \subseteq DrawnRows'
        /\ Contents(pool') = Contents(pool) \cup (DrawnRows' \ DrawnRows)
    BY <1>0, <1>2, Ingested
  <2>2. pc = "fill" /\ Len(pool) < PoolTarget
        /\ UNCHANGED <<pc, current, served, ckpt, launches>>
    BY <1>2 DEF Ingest, Filling
  <2>3. Missing' = Missing
    BY <2>1, <2>2 DEF Missing
  <2>4. Forgotten' = Forgotten
    BY <2>2 DEF Forgotten
  <2>5. Len(pool') <= Postponed + BatchSize
    BY <1>s, <2>1, <2>2
  <2>6. QED
    BY <2>2, <2>3, <2>4, <2>5 DEF IrtMissing
<1>3. CASE StopIteration \/ EndOfPass
  <2>1. /\ pc = "fill" /\ pc' \in {"fill", "over"}
        /\ UNCHANGED <<drawn, pool, current, served, ckpt, launches>>
    BY <1>3 DEF StopIteration, EndOfPass, Filling
  <2>2. Missing' = Missing /\ Forgotten' = Forgotten
    BY <2>1 DEF Missing, Forgotten, DrawnRows
  <2>3. QED
    BY <2>1, <2>2 DEF IrtMissing
<1>4. CASE Select
  <2>1. Len(pool) <= PoolMax + BatchSize =>
          /\ Len(pool') = Len(pool) - BatchSize
          /\ Contents(pool') \cup current' = Contents(pool)
    BY <1>0, <1>4, Selected
  <2>2. /\ pc = "fill" /\ pc' = "train"
        /\ UNCHANGED <<drawn, served, ckpt, launches>>
    BY <1>4 DEF Select
  <2>3. Small => Len(pool) <= Postponed + BatchSize
    BY <2>2 DEF IrtMissing
  <2>4. Small => Len(pool) <= PoolMax + BatchSize
    BY <1>s, <2>3
  <2>5. Small => Len(pool') <= Postponed
    <3> HIDE DEF Small
    <3>1. QED
      BY <1>s, <2>1, <2>3, <2>4
  <2>6. Forgotten' = Forgotten
    BY <2>2 DEF Forgotten
  <2>7. Small => Missing' = Missing
    <3>1. SUFFICES ASSUME Small PROVE Missing' = Missing
      OBVIOUS
    <3>2. Contents(pool') \cup current' = Contents(pool)
      BY <2>1, <2>4, <3>1
    <3>3. current = {}
      BY <2>2 DEF IrtInv, IrtWhole
    <3>4. QED
      BY <2>2, <3>2, <3>3 DEF Missing, DrawnRows
  <2>8. QED
    BY <2>2, <2>5, <2>6, <2>7 DEF IrtMissing
<1>5. CASE Train
  <2>1. /\ served' = served \cup current /\ current' = {} /\ pool' = pool
        /\ drawn' = drawn /\ launches' = launches /\ pc = "train" /\ pc' = "fill"
    BY <1>5 DEF Train
  <2>2. \/ ckpt' = ckpt
        \/ ckpt'.drawn = drawn /\ ckpt'.served = served'
    BY <1>5 DEF Train
  <2>3. Missing' = Missing
    BY <2>1 DEF Missing, DrawnRows
  <2>4. Small => Len(pool') <= Postponed + BatchSize
    <3>1. Small => Len(pool) <= Postponed
      BY <2>1 DEF IrtMissing
    <3> HIDE DEF Small
    <3>2. QED
      BY <1>s, <2>1, <3>1
  <2>5. Small => Cardinality(Forgotten') <= launches' * Postponed
    <3>1. CASE ckpt' = ckpt
      <4>1. Forgotten' = Forgotten
        BY <3>1 DEF Forgotten
      <4>2. QED
        BY <2>1, <4>1 DEF IrtMissing
    <3>2. CASE ckpt'.drawn = drawn /\ ckpt'.served = served'
      <4>1. Forgotten' \subseteq Missing \cup Contents(pool)
        BY <2>1, <3>2 DEF Forgotten, Missing, DrawnRows
      <4> DEFINE a == Missing
                 b == Contents(pool)
                 f == Forgotten'
      <4>2. IsFiniteSet(a) /\ Cardinality(a) \in Nat
        BY <1>0, MissingFinite
      <4>3. IsFiniteSet(b) /\ Cardinality(b) = Len(pool)
        <5>1. Contents(pool) = {pool[i] : i \in 1 .. Len(pool)} /\ pool \in Seq(Row) /\ Distinct(pool)
          BY <1>0 DEF Contents, IrtTyped, IrtOnce
        <5>2. IsFiniteSet(b) /\ Cardinality(b) = Cardinality(1 .. Len(pool))
          BY <5>1, DistinctCount
        <5>3. Cardinality(1 .. Len(pool)) = Len(pool)
          BY <1>s, FirstNumbers
        <5>4. QED
          BY <5>2, <5>3
      <4> HIDE DEF a, b, f
      <4>4. IsFiniteSet(a \cup b) /\ IsFiniteSet(a \cap b)
            /\ Cardinality(a \cup b) = Cardinality(a) + Cardinality(b) - Cardinality(a \cap b)
        BY <4>2, <4>3, FS_Union, FS_Intersection
      <4>5. Cardinality(a \cap b) \in Nat /\ Cardinality(a \cup b) \in Nat
        BY <4>4, FS_CardinalityType
      <4>6. f \in SUBSET (a \cup b)
        BY <4>1 DEF a, b, f
      <4>7. Cardinality(f) \in Nat /\ Cardinality(f) <= Cardinality(a \cup b)
        BY <4>4, <4>6, FS_Subset, FS_CardinalityType
      <4>8. Cardinality(f) <= Cardinality(a) + Len(pool)
        BY <1>s, <4>2, <4>3, <4>4, <4>5, <4>7
      <4>9. Small => Cardinality(a) <= (launches - 1) * Postponed /\ Len(pool) <= Postponed
        BY <2>1 DEF IrtMissing, a
      <4>10. launches * Postponed = (launches - 1) * Postponed + Postponed
        <5>1. launches > 0
          BY <2>1 DEF IrtMissing
        <5>2. QED
          BY <1>0, <5>1, OneMore
      <4>11. (launches - 1) * Postponed \in Int
        <5>1. launches - 1 \in Int /\ Postponed \in Int
          BY <1>0, <1>s
        <5>2. QED
          BY <5>1, SMTT(30)
      <4> DEFINE x == (launches - 1) * Postponed
                 y == launches * Postponed
                 m == Cardinality(f)
                 k == Cardinality(a)
      <4>12. /\ x \in Int /\ y = x + Postponed /\ m \in Nat /\ k \in Nat
             /\ m <= k + Len(pool) /\ (Small => k <= x /\ Len(pool) <= Postponed)
        BY <4>2, <4>7, <4>8, <4>9, <4>10, <4>11
      <4> HIDE DEF x, y, m, k, Small
      <4>13. Small => m <= y
        BY <1>s, <4>12
      <4>14. QED
        BY <2>1, <4>13 DEF m, y, f
    <3>3. QED
      BY <2>2, <3>1, <3>2
  <2>6. QED
    BY <2>1, <2>3, <2>4, <2>5 DEF IrtMissing
<1>6. CASE Crash
  <2>1. pc' = "down" /\ ckpt' = ckpt /\ launches' = launches
    BY <1>6 DEF Crash
  <2>2. Forgotten' = Forgotten
    BY <2>1 DEF Forgotten
  <2>3. QED
    BY <2>1, <2>2 DEF IrtMissing
<1>7. CASE UNCHANGED vars
  <2>1. UNCHANGED <<pc, pool, drawn, served, current, ckpt, launches>>
    BY <1>7 DEF vars
  <2>2. Missing' = Missing /\ Forgotten' = Forgotten
    BY <2>1 DEF Missing, Forgotten, DrawnRows
  <2>3. QED
    BY <2>1, <2>2 DEF IrtMissing
<1>8. QED
  BY <1>1, <1>2, <1>3, <1>4, <1>5, <1>6, <1>7 DEF Next, Over

------------------------------------------------------------------------------
(* The theorems.                                                           *)

\* Every batch is full, whatever the scores and however many duplicates.
THEOREM BatchesAreFull == ASSUME IrtAssumption PROVE Spec => []FullBatches
<1>1. IrtInv => FullBatches
  BY DEF IrtInv, IrtWhole, FullBatches
<1>2. QED
  BY <1>1, IrtInvAlways, PTL

\* No row is in two places, whatever was saved and forgotten before.
THEOREM RowsAreOnce == ASSUME IrtAssumption PROVE Spec => []RowsOnce
<1>1. IrtInv => RowsOnce
  <2>1. SUFFICES ASSUME IrtInv PROVE Cardinality(Contents(pool)) = Len(pool)
    BY DEF IrtInv, IrtOnce, RowsOnce
  <2>2. /\ Contents(pool) = {pool[i] : i \in 1 .. Len(pool)}
        /\ pool \in Seq(Row) /\ Distinct(pool)
    BY <2>1 DEF Contents, IrtInv, IrtTyped, IrtOnce
  <2>3. Cardinality(Contents(pool)) = Cardinality(1 .. Len(pool))
    BY <2>2, DistinctCount
  <2>4. Cardinality(1 .. Len(pool)) = Len(pool)
    BY <2>2, LenProperties, FirstNumbers
  <2>5. QED
    BY <2>3, <2>4
<1>2. QED
  BY <1>1, IrtInvAlways, PTL

\* Rows are only missing because a relaunch forgets the pool, one pool each.
THEOREM SkipsAreBounded == ASSUME IrtAssumption PROVE Spec => []SkippedBounded
<1>1. IrtMissing => SkippedBounded
  <2>1. PoolTarget + InnerBsz - 1 - BatchSize = Postponed
    BY DEF Postponed
  <2>2. QED
    BY <2>1 DEF IrtMissing, SkippedBounded
<1>2. Init => IrtMissing
  BY MissingInit
<1>3. IrtInv /\ IrtMissing /\ [Next]_vars => IrtMissing'
  BY MissingNext
<1>4. QED
  BY <1>1, <1>2, <1>3, IrtInvAlways, PTL DEF Spec

\* A job that is over has less than a batch left in its pool.
THEOREM NothingIsLeft == ASSUME IrtAssumption PROVE Spec => []EverythingServed
<1>1. IrtInv => EverythingServed
  BY DEF IrtInv, IrtWhole, EverythingServed
<1>2. QED
  BY <1>1, IrtInvAlways, PTL

===============================================================================

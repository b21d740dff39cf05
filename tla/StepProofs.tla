------------------------------- MODULE StepProofs -------------------------------
(***************************************************************************)
(* Proofs about the parts of a step of training (MCStep): the controller   *)
(* of the learning rate, the advantages, the scoring of a batch, the       *)
(* activations that leave the GPU and come back, and the rows of the batch *)
(* with the tokens each rank gets of them.                                 *)
(*                                                                         *)
(* First the controller (KtscController).  The invariant says of it and    *)
(* of the sidecar alike that they hold the last measurements of their      *)
(* evidence.  What the median of a window is worth follows by counting:    *)
(* more than half of the window and the half that is not above the median  *)
(* have an element in common.                                              *)
(*                                                                         *)
(* The moving average is a recursive function of the evidence.  That there *)
(* is such a function, and that it gives the same averages to the same     *)
(* measurements, follows by the least length for which it would not.       *)
(***************************************************************************)
EXTENDS MCStep, Lemmas, SequenceTheorems, FiniteSetTheorems, TLAPS

------------------------------------------------------------------------------
(* The last n of a sequence.                                               *)

\* The last n of a sequence, one by one.
LEMMA LastOfType ==
  ASSUME NEW s \in Seq(Nat), NEW n \in Nat \ {0}
  PROVE  /\ LastOf(s, n) \in Seq(Nat)
         /\ Len(LastOf(s, n)) = IF Len(s) > n THEN n ELSE Len(s)
         /\ \A i \in 1 .. Len(LastOf(s, n)) :
              LastOf(s, n)[i] = s[i + Len(s) - Len(LastOf(s, n))]
<1>1. CASE Len(s) > n
  <2>1. LastOf(s, n) = SubSeq(s, Len(s) - n + 1, Len(s))
    BY <1>1 DEF LastOf
  <2>2. QED
    BY <1>1, <2>1, SubSeqProperties
<1>2. CASE ~ (Len(s) > n)
  BY <1>2 DEF LastOf
<1>3. QED
  BY <1>1, <1>2

\* What falls out of the window once is never missed again.
LEMMA LastOfAppend ==
  ASSUME NEW s \in Seq(Nat), NEW n \in Nat \ {0}, NEW x \in Nat
  PROVE  LastOf(Append(LastOf(s, n), x), n) = LastOf(Append(s, x), n)
<1> DEFINE t == LastOf(s, n)
           a == Append(t, x)
           b == Append(s, x)
<1>1. /\ t \in Seq(Nat) /\ Len(t) = IF Len(s) > n THEN n ELSE Len(s)
      /\ \A i \in 1 .. Len(t) : t[i] = s[i + Len(s) - Len(t)]
  BY LastOfType
<1> HIDE DEF t
<1>2. /\ a \in Seq(Nat) /\ Len(a) = Len(t) + 1
      /\ \A i \in 1 .. Len(t) : a[i] = t[i]
      /\ a[Len(t) + 1] = x
  BY <1>1, AppendProperties
<1>3. /\ b \in Seq(Nat) /\ Len(b) = Len(s) + 1
      /\ \A i \in 1 .. Len(s) : b[i] = s[i]
      /\ b[Len(s) + 1] = x
  BY AppendProperties
<1> HIDE DEF a, b
<1> DEFINE k == Len(t)
           m == Len(s)
<1> k \in Nat /\ m \in Nat /\ k = (IF m > n THEN n ELSE m)
  BY <1>1
<1>a. /\ Len(a) = k + 1 /\ Len(b) = m + 1
      /\ \A i \in 1 .. k : t[i] = s[i + m - k]
      /\ \A i \in 1 .. k : a[i] = t[i]
      /\ \A i \in 1 .. m : b[i] = s[i]
      /\ a[k + 1] = x /\ b[m + 1] = x
  BY <1>1, <1>2, <1>3
<1> HIDE DEF k, m
<1>4. \A i \in 1 .. k + 1 : a[i] = b[i + m - k]
  <2>1. SUFFICES ASSUME NEW i \in 1 .. k + 1 PROVE a[i] = b[i + m - k]
    OBVIOUS
  <2>2. CASE i = k + 1
    <3>1. i + m - k = m + 1
      BY <2>2
    <3>2. QED
      BY <1>a, <2>2, <3>1
  <2>3. CASE i # k + 1
    <3>1. i \in 1 .. k /\ i + m - k \in 1 .. m
      BY <2>3
    <3>2. QED
      BY <1>a, <3>1
  <2>4. QED
    BY <2>2, <2>3
<1>5. /\ LastOf(a, n) \in Seq(Nat) /\ LastOf(b, n) \in Seq(Nat)
      /\ Len(LastOf(a, n)) = IF Len(a) > n THEN n ELSE Len(a)
      /\ Len(LastOf(b, n)) = IF Len(b) > n THEN n ELSE Len(b)
      /\ \A i \in 1 .. Len(LastOf(a, n)) :
           LastOf(a, n)[i] = a[i + Len(a) - Len(LastOf(a, n))]
      /\ \A i \in 1 .. Len(LastOf(b, n)) :
           LastOf(b, n)[i] = b[i + Len(b) - Len(LastOf(b, n))]
  BY <1>2, <1>3, LastOfType
<1> DEFINE p == LastOf(a, n)
           q == LastOf(b, n)
           j == Len(p)
<1>6. /\ j \in Nat /\ j = (IF k + 1 > n THEN n ELSE k + 1) /\ Len(q) = j
      /\ \A i \in 1 .. j : p[i] = a[i + (k + 1) - j]
      /\ \A i \in 1 .. j : q[i] = b[i + (m + 1) - j]
  <2>1. Len(LastOf(a, n)) = (IF k + 1 > n THEN n ELSE k + 1)
    BY <1>5, <1>a
  <2>2. Len(LastOf(b, n)) = (IF m + 1 > n THEN n ELSE m + 1)
    BY <1>5, <1>a
  <2>3. j = (IF k + 1 > n THEN n ELSE k + 1) /\ Len(q) = (IF m + 1 > n THEN n ELSE m + 1)
    BY <2>1, <2>2
  <2>4. \A i \in 1 .. j : p[i] = a[i + (k + 1) - j]
    BY <1>5, <1>a
  <2>5. j \in Nat /\ Len(q) = j
    BY <2>3
  <2>6. \A i \in 1 .. j : q[i] = b[i + (m + 1) - j]
    BY <1>5, <1>a, <2>5
  <2>7. QED
    BY <2>3, <2>4, <2>5, <2>6
<1> HIDE DEF p, q, j
<1>7. \A i \in 1 .. j : p[i] = q[i]
  <2>1. SUFFICES ASSUME NEW i \in 1 .. j PROVE p[i] = q[i]
    OBVIOUS
  <2>2. i + (k + 1) - j \in 1 .. k + 1 /\ (i + (k + 1) - j) + m - k = i + (m + 1) - j
    BY <1>6
  <2>3. QED
    BY <1>4, <1>6, <2>2, ZenonT(30)
<1>8. p = q
  BY <1>5, <1>6, <1>7, SeqEqual DEF p, q, j
<1>9. QED
  BY <1>8 DEF a, b, t, p, q

\* Taking the last n again takes nothing away.
LEMMA LastOfTwice ==
  ASSUME NEW s \in Seq(Nat), NEW n \in Nat \ {0}
  PROVE  LastOf(LastOf(s, n), n) = LastOf(s, n)
<1>1. LastOf(s, n) \in Seq(Nat) /\ ~ (Len(LastOf(s, n)) > n)
  BY LastOfType
<1>2. QED
  BY <1>1 DEF LastOf

------------------------------------------------------------------------------
(* The k-th smallest of a history, and its median.                         *)

\* The places of a history with a value up to v, or below it.
UpTo(h, v)  == {i \in 1 .. Len(h) : h[i] <= v}
Below(h, v) == {i \in 1 .. Len(h) : h[i] < v}

\* Positions of a window can be counted.
LEMMA CountTypes ==
  ASSUME NEW h \in Seq(Nat), NEW S \in SUBSET (1 .. Len(h))
  PROVE  IsFiniteSet(S) /\ Cardinality(S) \in Nat /\ Cardinality(S) <= Len(h)
<1>1. IsFiniteSet(1 .. Len(h)) /\ Cardinality(1 .. Len(h)) = Len(h)
  BY FirstNumbers
<1>2. IsFiniteSet(S) /\ Cardinality(S) <= Len(h)
  BY <1>1, FS_Subset
<1>3. QED
  BY <1>2, FS_CardinalityType

\* Some place of a set of places has the greatest value.
LEMMA GreatestValue ==
  ASSUME NEW h \in Seq(Nat), NEW P \in SUBSET (1 .. Len(h)), P # {}
  PROVE  \E i \in P : \A j \in P : h[j] <= h[i]
<1> DEFINE V == {h[i] : i \in P}
<1>1. V \in SUBSET Nat /\ V # {}
  <2>1. \A i \in P : h[i] \in Nat
    OBVIOUS
  <2>2. QED
    BY <2>1
<1>2. IsFiniteSet(V)
  <2>1. [i \in P |-> h[i]] \in Surjection(P, V)
    BY Zenon DEF Surjection
  <2>2. QED
    BY <2>1, CountTypes, FS_Surjection
<1> HIDE DEF V
<1>3. PICK v \in V : \A w \in V : w <= v
  BY <1>1, <1>2, GreatestNumber
<1>4. QED
  BY <1>3 DEF V

\* Kth is the value it says: fewer than k are below it, and k are up to it.
LEMMA KthValue ==
  ASSUME NEW h \in Seq(Nat), NEW k \in 1 .. Len(h)
  PROVE  /\ Kth(h, k) \in Nat
         /\ Cardinality(Below(h, Kth(h, k))) < k
         /\ Cardinality(UpTo(h, Kth(h, k))) >= k
<1> DEFINE V == {h[i] : i \in 1 .. Len(h)}
           T == {v \in V : Cardinality(UpTo(h, v)) >= k}
<1>1. V \in SUBSET Nat
  OBVIOUS
<1>2. T # {}
  <2>1. PICK i \in 1 .. Len(h) : \A j \in 1 .. Len(h) : h[j] <= h[i]
    BY GreatestValue
  <2>2. UpTo(h, h[i]) = 1 .. Len(h)
    BY <2>1 DEF UpTo
  <2>3. Cardinality(1 .. Len(h)) = Len(h)
    BY FirstNumbers
  <2>4. h[i] \in T
    BY <2>2, <2>3
  <2>5. QED
    BY <2>4
<1>3. PICK v \in T : \A w \in T : v <= w
  BY <1>1, <1>2, LeastNumber
<1>4. v \in Nat /\ v \in V /\ Cardinality(UpTo(h, v)) >= k
  BY <1>1, <1>3
<1>5. Cardinality(Below(h, v)) < k
  <2>1. Below(h, v) \in SUBSET (1 .. Len(h))
    BY DEF Below
  <2>2. Cardinality(Below(h, v)) \in Nat
    BY <2>1, CountTypes
  <2>3. ASSUME Cardinality(Below(h, v)) >= k PROVE FALSE
    <3>1. Below(h, v) # {}
      <4>1. Cardinality({}) = 0
        BY FS_EmptySet
      <4>2. Below(h, v) = {} => Cardinality(Below(h, v)) = 0
        BY <4>1
      <4>3. QED
        BY <2>3, <4>2
    <3>2. PICK i \in Below(h, v) : \A j \in Below(h, v) : h[j] <= h[i]
      BY <2>1, <3>1, GreatestValue
    <3>3. i \in 1 .. Len(h) /\ h[i] < v /\ h[i] \in Nat
      BY <3>2 DEF Below
    <3>4. UpTo(h, h[i]) = Below(h, v)
      BY <1>4, <3>2, <3>3, SMTT(30) DEF UpTo, Below
    <3>5. h[i] \in T
      BY <2>3, <3>3, <3>4
    <3>6. QED
      BY <1>3, <1>4, <3>3, <3>5, SMTT(30)
  <2>4. QED
    BY <2>2, <2>3
<1>6. \E u \in V : Cardinality(Below(h, u)) < k /\ Cardinality(UpTo(h, u)) >= k
  BY <1>4, <1>5
<1>7. Kth(h, k) = CHOOSE u \in V : Cardinality(Below(h, u)) < k /\ Cardinality(UpTo(h, u)) >= k
  BY DEF Kth, Below, UpTo
<1> HIDE DEF V
<1>8. /\ Kth(h, k) \in V
      /\ Cardinality(Below(h, Kth(h, k))) < k
      /\ Cardinality(UpTo(h, Kth(h, k))) >= k
  BY <1>6, <1>7
<1>9. QED
  BY <1>1, <1>8

\* The doubled median is a number.
LEMMA MedianType ==
  ASSUME NEW h \in Seq(Nat), Len(h) > 0
  PROVE  Median2(h) \in Nat
<1>1. (Len(h) + 1) \div 2 \in 1 .. Len(h) /\ Len(h) \div 2 + 1 \in 1 .. Len(h)
  BY SMTT(30)
<1>2. Kth(h, (Len(h) + 1) \div 2) \in Nat /\ Kth(h, Len(h) \div 2 + 1) \in Nat
  BY <1>1, KthValue
<1>3. QED
  BY <1>2 DEF Median2

\* Most of the places of a history.
MostOf(S, h) == 2 * Cardinality(S) > Len(h)

\* With most values at least t both middle values are: the places up to a
\* smaller one and the places with at least t would not fit into the history.
LEMMA MedianAtLeast ==
  ASSUME NEW h \in Seq(Nat), Len(h) > 0, NEW t \in Nat,
         MostOf({i \in 1 .. Len(h) : h[i] >= t}, h)
  PROVE  Median2(h) >= 2 * t
<1> DEFINE S == {i \in 1 .. Len(h) : h[i] >= t}
<1>1. IsFiniteSet(S) /\ Cardinality(S) \in Nat /\ 2 * Cardinality(S) > Len(h)
  <2>1. S \in SUBSET (1 .. Len(h))
    OBVIOUS
  <2>2. QED
    BY <2>1, CountTypes DEF MostOf
<1>2. ASSUME NEW k \in 1 .. Len(h), 2 * k >= Len(h) PROVE Kth(h, k) >= t
  <2> DEFINE v == Kth(h, k)
             U == UpTo(h, v)
  <2>1. v \in Nat /\ Cardinality(U) >= k
    BY KthValue
  <2>2. ASSUME v < t PROVE FALSE
    <3>1. U \cap S = {}
      <4>1. \A i \in 1 .. Len(h) : h[i] \in Nat
        OBVIOUS
      <4>2. \A i \in 1 .. Len(h) : ~ (h[i] <= v /\ h[i] >= t)
        BY <2>1, <2>2, <4>1
      <4>3. QED
        BY <4>2 DEF UpTo
    <3>2. U \in SUBSET (1 .. Len(h)) /\ U \cup S \in SUBSET (1 .. Len(h))
      BY DEF UpTo
    <3>3. IsFiniteSet(U) /\ Cardinality(U) \in Nat /\ Cardinality(U \cup S) <= Len(h)
          /\ Cardinality(U \cup S) \in Nat
      BY <3>2, CountTypes
    <3> HIDE DEF U, S
    <3>4. Cardinality(U \cup S) = Cardinality(U) + Cardinality(S) - Cardinality(U \cap S)
      BY <1>1, <3>3, FS_Union
    <3>5. Cardinality(U \cap S) = 0
      BY <3>1, FS_EmptySet
    <3>6. QED
      BY <1>1, <1>2, <2>1, <3>3, <3>4, <3>5
  <2>3. QED
    BY <2>1, <2>2
<1> HIDE DEF S
<1>3. /\ (Len(h) + 1) \div 2 \in 1 .. Len(h) /\ 2 * ((Len(h) + 1) \div 2) >= Len(h)
      /\ Len(h) \div 2 + 1 \in 1 .. Len(h) /\ 2 * (Len(h) \div 2 + 1) >= Len(h)
  BY SMTT(30)
<1>4. Kth(h, (Len(h) + 1) \div 2) >= t /\ Kth(h, Len(h) \div 2 + 1) >= t
  BY <1>2, <1>3
<1>5. Kth(h, (Len(h) + 1) \div 2) \in Nat /\ Kth(h, Len(h) \div 2 + 1) \in Nat
  BY <1>3, KthValue
<1>6. QED
  BY <1>4, <1>5 DEF Median2

\* With most values at most t both middle values are: fewer than half of the
\* places are below a middle value.
LEMMA MedianAtMost ==
  ASSUME NEW h \in Seq(Nat), Len(h) > 0, NEW t \in Nat,
         MostOf({i \in 1 .. Len(h) : h[i] <= t}, h)
  PROVE  Median2(h) <= 2 * t
<1> DEFINE S == {i \in 1 .. Len(h) : h[i] <= t}
<1>1. S \in SUBSET (1 .. Len(h)) /\ Cardinality(S) \in Nat /\ 2 * Cardinality(S) > Len(h)
  <2>1. S \in SUBSET (1 .. Len(h))
    OBVIOUS
  <2>2. QED
    BY <2>1, CountTypes DEF MostOf
<1>2. ASSUME NEW k \in 1 .. Len(h), 2 * (k - 1) <= Len(h) PROVE Kth(h, k) <= t
  <2> DEFINE v == Kth(h, k)
             B == Below(h, v)
  <2>1. v \in Nat /\ Cardinality(B) < k
    BY KthValue
  <2>2. ASSUME v > t PROVE FALSE
    <3>1. S \in SUBSET B
      <4>1. \A i \in 1 .. Len(h) : h[i] \in Nat
        OBVIOUS
      <4>2. \A i \in 1 .. Len(h) : h[i] <= t => h[i] < v
        BY <2>1, <2>2, <4>1
      <4>3. QED
        BY <4>2 DEF Below
    <3>2. B \in SUBSET (1 .. Len(h))
      BY DEF Below
    <3>3. IsFiniteSet(B) /\ Cardinality(B) \in Nat
      BY <3>2, CountTypes
    <3> HIDE DEF B, S
    <3>4. Cardinality(S) <= Cardinality(B)
      BY <3>1, <3>3, FS_Subset
    <3>5. QED
      BY <1>1, <1>2, <2>1, <3>3, <3>4
  <2>3. QED
    BY <2>1, <2>2
<1> HIDE DEF S
<1>3. /\ (Len(h) + 1) \div 2 \in 1 .. Len(h) /\ 2 * ((Len(h) + 1) \div 2 - 1) <= Len(h)
      /\ Len(h) \div 2 + 1 \in 1 .. Len(h) /\ 2 * (Len(h) \div 2 + 1 - 1) <= Len(h)
  BY SMTT(30)
<1>4. Kth(h, (Len(h) + 1) \div 2) <= t /\ Kth(h, Len(h) \div 2 + 1) <= t
  BY <1>2, <1>3
<1>5. Kth(h, (Len(h) + 1) \div 2) \in Nat /\ Kth(h, Len(h) \div 2 + 1) \in Nat
  BY <1>3, KthValue
<1>6. QED
  BY <1>4, <1>5 DEF Median2

------------------------------------------------------------------------------
(* The moving average of a sequence.                                       *)

\* A holds the averages of the first 0 to n measurements of s.
Averages(A, s, n) ==
  A = [k \in 0 .. n |->
         IF k = 0 THEN NoValue ELSE Mixed(A[k - 1], s[k].kl, s[k].beta)]

\* There are averages of any number of measurements.
LEMMA AveragesExist == ASSUME NEW s, NEW n \in Nat PROVE \E A : Averages(A, s, n)
<1> DEFINE Has(m) == \E A : Averages(A, s, m)
           Lacks == {m \in Nat : ~ Has(m)}
<1>1. Has(0)
  <2> DEFINE A == [k \in 0 .. 0 |-> NoValue]
  <2>1. \A k \in 0 .. 0 : k = 0
    OBVIOUS
  <2>2. Averages(A, s, 0)
    BY <2>1 DEF Averages
  <2>3. QED
    BY <2>2
<1>2. ASSUME NEW m \in Nat, Has(m) PROVE Has(m + 1)
  <2>1. PICK A : Averages(A, s, m)
    BY <1>2
  <2> DEFINE B == [k \in 0 .. m + 1 |->
                     IF k = 0 THEN NoValue ELSE Mixed(A[k - 1], s[k].kl, s[k].beta)]
  <2>2. \A k \in 0 .. m : A[k] = IF k = 0 THEN NoValue ELSE Mixed(A[k - 1], s[k].kl, s[k].beta)
    BY <2>1 DEF Averages
  <2>3. \A k \in 0 .. m : B[k] = A[k]
    BY <2>2
  <2>4. \A k \in 0 .. m + 1 : k = 0 \/ k - 1 \in 0 .. m
    OBVIOUS
  <2>5. \A k \in 0 .. m + 1 : B[k] = IF k = 0 THEN NoValue ELSE Mixed(B[k - 1], s[k].kl, s[k].beta)
    BY <2>3, <2>4
  <2>6. B = [k \in 0 .. m + 1 |-> B[k]]
    OBVIOUS
  <2> HIDE DEF B
  <2>7. Averages(B, s, m + 1)
    BY <2>5, <2>6 DEF Averages
  <2>8. QED
    BY <2>7
<1> HIDE DEF Has
<1>3. Lacks = {}
  <2> SUFFICES ASSUME Lacks # {} PROVE FALSE
    OBVIOUS
  <2>1. PICK m \in Lacks : \A k \in Lacks : m <= k
    BY LeastNumber
  <2>2. m # 0
    BY <1>1, <2>1
  <2>3. m - 1 \in Nat /\ m - 1 \notin Lacks /\ (m - 1) + 1 = m
    BY <2>1, <2>2
  <2>4. Has((m - 1) + 1)
    BY <1>2, <2>3
  <2>5. QED
    BY <2>1, <2>3, <2>4
<1>4. QED
  BY <1>3 DEF Has

SameUpTo(s, t, n) == \A k \in 1 .. n : s[k] = t[k]

\* Sequences that begin with the same n measurements have the same averages
\* of them.
LEMMA AveragesAgree ==
  ASSUME NEW s, NEW t, NEW A, NEW B, NEW n \in Nat, NEW m \in Nat,
         n <= m, SameUpTo(s, t, n),
         Averages(A, s, n), Averages(B, t, m)
  PROVE  A[n] = B[n]
<1> DEFINE Differ == {k \in 0 .. n : A[k] # B[k]}
<1>1. /\ \A k \in 0 .. n : A[k] = IF k = 0 THEN NoValue ELSE Mixed(A[k - 1], s[k].kl, s[k].beta)
      /\ \A k \in 0 .. m : B[k] = IF k = 0 THEN NoValue ELSE Mixed(B[k - 1], t[k].kl, t[k].beta)
  BY DEF Averages
<1>2. Differ = {}
  <2> SUFFICES ASSUME Differ # {} PROVE FALSE
    OBVIOUS
  <2>0. Differ \in SUBSET Nat
    OBVIOUS
  <2>1. PICK k \in Differ : \A j \in Differ : k <= j
    BY <2>0, LeastNumber
  <2>2. k \in 0 .. n /\ k \in 0 .. m /\ A[k] # B[k]
    BY <2>1
  <2>3. k # 0
    BY <1>1, <2>2
  <2>4. k - 1 \in 0 .. n /\ k - 1 \notin Differ /\ k \in 1 .. n
    BY <2>1, <2>2, <2>3
  <2>5. A[k - 1] = B[k - 1] /\ s[k] = t[k]
    BY <2>4 DEF SameUpTo
  <2>6. /\ A[k] = Mixed(A[k - 1], s[k].kl, s[k].beta)
        /\ B[k] = Mixed(B[k - 1], t[k].kl, t[k].beta)
    BY <1>1, <2>2, <2>3
  <2>7. QED
    BY <2>2, <2>5, <2>6
<1>3. QED
  BY <1>2

\* The average as the recursive function computes it.
LEMMA AverageIs ==
  ASSUME NEW s \in Seq(Measurements)
  PROVE  \E A : Averages(A, s, Len(s)) /\ Average(s) = A[Len(s)]
<1> DEFINE A == CHOOSE F : Averages(F, s, Len(s))
<1>1. \E F : Averages(F, s, Len(s))
  BY AveragesExist, LenProperties
<1>2. Averages(A, s, Len(s))
  BY <1>1
<1>3. Average(s) = A[Len(s)]
  BY DEF Average, Averages
<1>4. QED
  BY <1>2, <1>3

\* Without evidence there is no average.
LEMMA AverageOfNone == Average(<<>>) = NoValue
<1>1. <<>> \in Seq(Measurements) /\ Len(<<>>) = 0
  BY EmptySeq
<1>2. PICK A : Averages(A, <<>>, 0) /\ Average(<<>>) = A[0]
  BY <1>1, AverageIs
<1>3. QED
  BY <1>2 DEF Averages

\* One more measurement is mixed into the average of those before.
LEMMA AverageOfMore ==
  ASSUME NEW s \in Seq(Measurements), NEW x \in Measurements
  PROVE  Average(Append(s, x)) = Mixed(Average(s), x.kl, x.beta)
<1> DEFINE t == Append(s, x)
           n == Len(s)
<1>1. /\ n \in Nat /\ t \in Seq(Measurements) /\ Len(t) = n + 1
      /\ \A k \in 1 .. n : s[k] = t[k]
      /\ t[n + 1] = x
  BY AppendProperties, LenProperties
<1>2. PICK A : Averages(A, s, n) /\ Average(s) = A[n]
  BY AverageIs
<1> HIDE DEF t
<1>3. PICK B : Averages(B, t, n + 1) /\ Average(t) = B[n + 1]
  BY <1>1, AverageIs
<1> HIDE DEF n
<1>4. A[n] = B[n]
  <2> DEFINE m == n + 1
  <2>1. n \in Nat /\ m \in Nat /\ n <= m
    BY <1>1
  <2>2. SameUpTo(s, t, n)
    BY <1>1 DEF SameUpTo
  <2>3. Averages(A, s, n) /\ Averages(B, t, m)
    BY <1>2, <1>3
  <2> HIDE DEF m
  <2>4. QED
    BY <2>1, <2>2, <2>3, AveragesAgree
<1>5. B[n + 1] = Mixed(B[n], t[n + 1].kl, t[n + 1].beta)
  <2>1. n + 1 \in 0 .. n + 1 /\ n + 1 # 0 /\ (n + 1) - 1 = n
    BY <1>1
  <2>2. B[n + 1] = IF n + 1 = 0 THEN NoValue
                   ELSE Mixed(B[(n + 1) - 1], t[n + 1].kl, t[n + 1].beta)
    BY <1>3, <2>1 DEF Averages
  <2>3. QED
    BY <2>1, <2>2
<1>6. QED
  BY <1>1, <1>2, <1>3, <1>4, <1>5 DEF t

\* An average of numbers is one, whatever the share of the new one.
LEMMA MixedType ==
  ASSUME NEW e \in Nat \cup {NoValue}, NEW x \in Nat, NEW b \in Quarters
  PROVE  Mixed(e, x, b) \in Nat
<1>1. CASE e = NoValue
  BY <1>1 DEF Mixed
<1>2. CASE e \in Nat /\ e # NoValue
  <2>1. Mixed(e, x, b) = (b * e + (4 - b) * 2 * x) \div 4
    BY <1>2 DEF Mixed
  <2>2. b * e + (4 - b) * 2 * x \in Nat
    <3>1. b = 0 \/ b = 1 \/ b = 2 \/ b = 3 \/ b = 4
      BY DEF Quarters
    <3>2. QED
      BY <1>2, <3>1
  <2>3. \A n \in Nat : n \div 4 \in Nat
    BY SMTT(30)
  <2>4. QED
    BY <2>1, <2>2, <2>3
<1>3. QED
  BY <1>1, <1>2

------------------------------------------------------------------------------
(* The KLs of a list of measurements.                                      *)

\* They are numbers, as many as the measurements.
LEMMA KLsOfType ==
  ASSUME NEW s \in Seq(Measurements)
  PROVE  KLsOf(s) \in Seq(Nat) /\ Len(KLsOf(s)) = Len(s)
<1> DEFINE n == Len(s)
<1>1. n \in Nat
  BY LenProperties
<1>2. \A i \in 1 .. n : s[i].kl \in Nat
  <2>1. SUFFICES ASSUME NEW i \in 1 .. n PROVE s[i].kl \in Nat
    OBVIOUS
  <2>2. s[i] \in Measurements
    BY ElementOfSeq
  <2>3. QED
    BY <2>2 DEF Measurements
<1>3. KLsOf(s) = [i \in 1 .. n |-> s[i].kl]
  BY DEF KLsOf
<1> HIDE DEF n
<1>4. KLsOf(s) \in [1 .. n -> Nat]
  BY <1>2, <1>3
<1>5. KLsOf(s) \in Seq(Nat)
  BY <1>1, <1>4, SeqDef
<1>6. DOMAIN KLsOf(s) = 1 .. n /\ DOMAIN KLsOf(s) = 1 .. Len(KLsOf(s))
  BY <1>4, <1>5, LenProperties
<1>7. QED
  BY <1>1, <1>5, <1>6, LenProperties DEF n

\* One more measurement adds its KL to them.
LEMMA KLsOfAppend ==
  ASSUME NEW s \in Seq(Measurements), NEW x \in Measurements
  PROVE  KLsOf(Append(s, x)) = Append(KLsOf(s), x.kl)
<1> DEFINE t == Append(s, x)
           p == KLsOf(t)
           q == Append(KLsOf(s), x.kl)
<1>1. x.kl \in Nat
  BY DEF Measurements
<1>2. /\ t \in Seq(Measurements) /\ Len(t) = Len(s) + 1
      /\ \A i \in 1 .. Len(s) : t[i] = s[i]
      /\ t[Len(s) + 1] = x
  BY AppendProperties
<1>3. /\ q \in Seq(Nat) /\ Len(q) = Len(s) + 1
      /\ \A i \in 1 .. Len(s) : q[i] = KLsOf(s)[i]
      /\ q[Len(s) + 1] = x.kl
  BY <1>1, KLsOfType, AppendProperties
<1> HIDE DEF t, q
<1>4. p \in Seq(Nat) /\ Len(p) = Len(q)
  BY <1>2, <1>3, KLsOfType
<1>5. \A i \in 1 .. Len(s) + 1 : p[i] = t[i].kl
  BY <1>2 DEF KLsOf
<1>6. \A i \in 1 .. Len(s) : KLsOf(s)[i] = s[i].kl
  BY DEF KLsOf
<1>7. \A i \in 1 .. Len(p) : p[i] = q[i]
  <2>1. Len(s) \in Nat
    BY LenProperties
  <2>2. \A i \in 1 .. Len(s) + 1 : i = Len(s) + 1 \/ i \in 1 .. Len(s)
    BY <2>1
  <2>3. QED
    BY <1>2, <1>3, <1>4, <1>5, <1>6, <2>2
<1>8. p = q
  BY <1>3, <1>4, <1>7, SeqEqual
<1>9. QED
  BY <1>8 DEF t, q

\* No measurements have none.
LEMMA KLsOfNone == KLsOf(<<>>) = <<>>
BY DEF KLsOf

------------------------------------------------------------------------------
(* The invariant.                                                          *)

Holds(h, e, n, w) == n = Len(e) /\ h = LastOf(KLsOf(e), w)

Typed ==
  /\ cfg \in Configs /\ mult \in Int /\ hist \in Seq(Nat)
  /\ evidence \in Seq(Measurements)
  /\ seen \in Nat /\ ema \in Nat \cup {NoValue} /\ launches \in Nat

SidecarTyped ==
  LET s == ckpt.sidecar
  IN  /\ s.mult \in Int /\ s.hist \in Seq(Nat) /\ s.evidence \in Seq(Measurements)
      /\ s.seen \in Nat /\ s.ema \in Nat \cup {NoValue}

\* A sidecar holds measurements for the window its key names.
SidecarHolds ==
  LET s == ckpt.sidecar
  IN  s # NoSidecar => \E c \in Configs :
        s.key = KeyOf(c) /\ Holds(s.hist, s.evidence, s.seen, c.window)

KInv ==
  /\ Typed /\ Holds(hist, evidence, seen, cfg.window)
  /\ SidecarTyped /\ SidecarHolds

\* What the assumption says of one configuration.
LEMMA ConfigType ==
  ASSUME KtscAssumption, NEW c \in Configs
  PROVE  /\ c.window \in Nat \ {0} /\ c.target \in Nat \ {0}
         /\ c.floor \in Quarters /\ c.beta \in Quarters
         /\ c.seed \in Nat /\ c.clampLo \in Nat /\ c.clampHi \in Nat
         /\ c.min \in Int /\ c.max \in Int /\ c.min <= c.max
         /\ c.stat \in {"median", "ema"}
BY DEF KtscAssumption

\* What an update may aim at.
LEMMA TargetsType == ASSUME KtscAssumption, cfg \in Configs PROVE Targets \subseteq Nat
BY ConfigType DEF Targets

\* Clamping stays within the bounds.
LEMMA WithinBounds ==
  ASSUME NEW x \in Int, NEW lo \in Int, NEW hi \in Int, lo <= hi
  PROVE  Within(x, lo, hi) \in lo .. hi
BY DEF Within

\* What a measurement makes of the controller, when it is taken at all.
LEMMA MeasuredHolds ==
  ASSUME KtscAssumption, KInv, NEW kl \in KLs, Measured(kl)
  PROVE  \/ UNCHANGED controller
         \/ /\ Holds(hist', evidence', seen', cfg.window)
            /\ hist' \in Seq(Nat) /\ evidence' \in Seq(Measurements) /\ seen' \in Nat
            /\ Len(hist') > 0 /\ seen' = seen + 1
            /\ ema' \in Nat
            /\ delta' \in Nat
            /\ mult' = IF seen' <= cfg.seed THEN mult
                       ELSE Within(mult + Ratio(Statistic(hist', ema'), delta'),
                                   cfg.min, cfg.max)
<1> DEFINE x == Bigger(kl, 0)
           y == [kl |-> x, beta |-> cfg.beta]
           t == Append(hist, x)
           h == LastOf(t, cfg.window)
           e == Mixed(ema, x, cfg.beta)
<1>1. \/ UNCHANGED controller
      \/ /\ hist' = h /\ ema' = e /\ seen' = seen + 1 /\ evidence' = Append(evidence, y)
         /\ delta' \in Targets
         /\ mult' = IF seen + 1 <= cfg.seed THEN mult
                    ELSE Within(mult + Ratio(Statistic(h, e), delta'), cfg.min, cfg.max)
  BY DEF Measured
<1>2. x \in Nat
  <2>1. kl \in Int
    BY DEF KtscAssumption
  <2>2. QED
    BY <2>1 DEF Bigger
<1> HIDE DEF x
<1>3. /\ cfg \in Configs /\ hist \in Seq(Nat) /\ evidence \in Seq(Measurements)
      /\ seen \in Nat /\ ema \in Nat \cup {NoValue} /\ seen = Len(evidence)
      /\ hist = LastOf(KLsOf(evidence), cfg.window)
  BY DEF KInv, Typed, Holds
<1>4. cfg.window \in Nat \ {0} /\ cfg.beta \in Quarters
  BY <1>3, ConfigType
<1>a. y \in Measurements /\ y.kl = x
  BY <1>2, <1>4 DEF Measurements
<1> HIDE DEF y
<1>b. KLsOf(evidence) \in Seq(Nat)
  BY <1>3, KLsOfType
<1>c. KLsOf(Append(evidence, y)) = Append(KLsOf(evidence), x)
  BY <1>3, <1>a, KLsOfAppend, ZenonT(30)
<1>5. t \in Seq(Nat) /\ Len(t) = Len(hist) + 1
  BY <1>2, <1>3
<1>6. h \in Seq(Nat) /\ Len(h) > 0
  <2>1. h \in Seq(Nat) /\ Len(h) = IF Len(t) > cfg.window THEN cfg.window ELSE Len(t)
    BY <1>4, <1>5, LastOfType
  <2>2. Len(t) > 0
    BY <1>3, <1>5
  <2>3. QED
    BY <1>4, <2>1, <2>2
<1>7. h = LastOf(KLsOf(Append(evidence, y)), cfg.window)
  <2> DEFINE p == KLsOf(evidence)
             w == cfg.window
  <2>1. p \in Seq(Nat) /\ w \in Nat \ {0} /\ hist = LastOf(p, w)
    BY <1>3, <1>4, <1>b
  <2> HIDE DEF p, w
  <2>2. LastOf(Append(LastOf(p, w), x), w) = LastOf(Append(p, x), w)
    BY <1>2, <2>1, LastOfAppend
  <2>3. QED
    BY <1>c, <2>1, <2>2 DEF p, w
<1>8. Append(evidence, y) \in Seq(Measurements) /\ Len(Append(evidence, y)) = seen + 1
  BY <1>3, <1>a
<1>9. e \in Nat
  BY <1>2, <1>3, <1>4, MixedType
<1>10. Targets \subseteq Nat
  BY <1>3, TargetsType
<1> HIDE DEF h, e
<1>11. QED
  <2>1. CASE ~ (UNCHANGED controller)
    <3>1. /\ hist' = h /\ ema' = e /\ seen' = seen + 1 /\ evidence' = Append(evidence, y)
          /\ delta' \in Targets
          /\ mult' = IF seen + 1 <= cfg.seed THEN mult
                     ELSE Within(mult + Ratio(Statistic(h, e), delta'), cfg.min, cfg.max)
      BY <1>1, <2>1
    <3>2. Holds(hist', evidence', seen', cfg.window)
      BY <1>7, <1>8, <3>1 DEF Holds
    <3>3. /\ hist' \in Seq(Nat) /\ Len(hist') > 0 /\ ema' \in Nat /\ delta' \in Nat
          /\ evidence' \in Seq(Measurements) /\ seen' \in Nat /\ seen' = seen + 1
      BY <1>3, <1>6, <1>8, <1>9, <1>10, <3>1
    <3>4. QED
      BY <3>1, <3>2, <3>3
  <2>2. QED
    BY <2>1

\* The clamped ratio is a number within the clamps.
LEMMA RatioType ==
  ASSUME KtscAssumption, cfg \in Configs, NEW stat \in Int, NEW d \in Nat
  PROVE  /\ Ratio(stat, d) \in Int /\ Ratio(stat, d) \in -cfg.clampLo .. cfg.clampHi
         /\ stat >= 2 * d => Ratio(stat, d) <= 0
         /\ stat <= 2 * d => Ratio(stat, d) >= 0
<1> DEFINE f == (cfg.floor * d) \div 2
           lo == cfg.clampLo
           hi == cfg.clampHi
           r == Within(2 * d - Bigger(stat, f), -lo, hi)
<1>1. lo \in Nat /\ hi \in Nat
  BY ConfigType
<1>2. f \in Nat /\ f <= 2 * d
  <2>1. cfg.floor \in Quarters
    BY ConfigType
  <2>2. cfg.floor * d \in Nat /\ cfg.floor * d <= 4 * d
    <3>1. \/ cfg.floor = 0 \/ cfg.floor = 1 \/ cfg.floor = 2 \/ cfg.floor = 3
          \/ cfg.floor = 4
      BY <2>1 DEF Quarters
    <3>2. QED
      BY <3>1
  <2>3. \A n \in Nat : n <= 4 * d => n \div 2 \in Nat /\ n \div 2 <= 2 * d
    BY SMTT(30)
  <2>4. QED
    BY <2>2, <2>3
<1>3. Ratio(stat, d) = r
  BY DEF Ratio
<1> HIDE DEF f, lo, hi
<1>4. r \in -lo .. hi
  BY <1>1, <1>2 DEF Within, Bigger
<1>5. stat >= 2 * d => r <= 0
  BY <1>1, <1>2 DEF Within, Bigger
<1>6. stat <= 2 * d => r >= 0
  BY <1>1, <1>2 DEF Within, Bigger
<1> HIDE DEF r
<1>7. QED
  BY <1>1, <1>3, <1>4, <1>5, <1>6 DEF lo, hi

\* Either statistic is a number.
LEMMA StatisticType ==
  ASSUME cfg \in Configs, NEW h \in Seq(Nat), Len(h) > 0, NEW e \in Nat
  PROVE  Statistic(h, e) \in Int
BY MedianType DEF Statistic

\* The state that is loaded when there is no sidecar.
LEMMA NoSidecarTyped ==
  /\ NoSidecar.mult \in Int /\ NoSidecar.hist \in Seq(Nat)
  /\ NoSidecar.evidence \in Seq(Measurements) /\ NoSidecar.seen \in Nat
  /\ NoSidecar.ema \in Nat \cup {NoValue}
<1>1. <<>> \in Seq(Nat) /\ <<>> \in Seq(Measurements)
  BY EmptySeq
<1>2. QED
  BY <1>1 DEF NoSidecar

\* The invariant holds at first ...
LEMMA KInvInit == ASSUME KtscAssumption PROVE Init => KInv
<1>1. SUFFICES ASSUME Init PROVE KInv
  OBVIOUS
<1>2. LastOf(KLsOf(<<>>), cfg.window) = <<>>
  BY <1>1, ConfigType, KLsOfNone DEF Init, LastOf
<1>3. <<>> \in Seq(Nat) /\ <<>> \in Seq(Measurements) /\ Len(<<>>) = 0
  BY EmptySeq
<1>4. Typed /\ Holds(hist, evidence, seen, cfg.window)
  BY <1>1, <1>2, <1>3 DEF Init, Typed, Holds
<1>5. ckpt.sidecar = NoSidecar
  BY <1>1 DEF Init
<1>6. SidecarTyped /\ SidecarHolds
  BY <1>3, <1>5, NoSidecarTyped DEF SidecarHolds, SidecarTyped
<1>7. QED
  BY <1>4, <1>6 DEF KInv

\* A launch is counted.
LEMMA LaunchCounts == launches \in Nat /\ Launch => launches' # launches
BY DEF Launch

\* ... every step preserves it ...
LEMMA KInvNext == ASSUME KtscAssumption PROVE KInv /\ [Next]_vars => KInv'
<1>1. SUFFICES ASSUME KInv, [Next]_vars PROVE KInv'
  OBVIOUS
<1> USE DEF KInv
<1>2. CASE UpdateActor
  <2>1. SidecarTyped' /\ SidecarHolds' /\ cfg' = cfg /\ cfg \in Configs /\ launches' \in Nat
    BY <1>1, <1>2 DEF UpdateActor, SidecarTyped, SidecarHolds, Typed
  <2>2. CASE UNCHANGED controller
    BY <1>1, <2>1, <2>2 DEF controller, Typed, Holds
  <2>3. CASE ~ (UNCHANGED controller)
    <3>1. PICK kl \in KLs : Measured(kl)
      BY <1>2, <2>3 DEF UpdateActor
    <3>2. /\ Holds(hist', evidence', seen', cfg.window)
          /\ hist' \in Seq(Nat) /\ evidence' \in Seq(Measurements) /\ seen' \in Nat
          /\ Len(hist') > 0 /\ ema' \in Nat /\ delta' \in Nat
          /\ mult' = IF seen' <= cfg.seed THEN mult
                     ELSE Within(mult + Ratio(Statistic(hist', ema'), delta'),
                                 cfg.min, cfg.max)
      BY <1>1, <2>3, <3>1, MeasuredHolds
    <3>3. mult' \in Int
      <4> DEFINE r == Ratio(Statistic(hist', ema'), delta')
      <4>1. r \in Int
        BY <2>1, <3>2, StatisticType, RatioType
      <4> HIDE DEF r
      <4>2. mult \in Int /\ cfg.min \in Int /\ cfg.max \in Int
        BY <1>1, <2>1, ConfigType DEF Typed
      <4>3. Within(mult + r, cfg.min, cfg.max) \in Int
        BY <4>1, <4>2 DEF Within
      <4>4. QED
        BY <3>2, <4>2, <4>3 DEF r
    <3>4. QED
      BY <2>1, <3>2, <3>3 DEF Typed, Holds
  <2>4. QED
    BY <2>2, <2>3
<1>3. CASE EndStep
  <2>1. Typed' /\ Holds(hist, evidence, seen, cfg.window)'
    BY <1>1, <1>3 DEF EndStep, controller, Typed, Holds
  <2>2. CASE ckpt' = ckpt
    BY <1>1, <2>1, <2>2 DEF SidecarTyped, SidecarHolds
  <2>3. CASE ckpt' = [step |-> step, sidecar |-> Sidecar]
    <3>1. ckpt'.sidecar = Sidecar
      BY <2>3
    <3>2. SidecarTyped'
      BY <1>1, <3>1 DEF SidecarTyped, Sidecar, Typed
    <3>3. /\ Sidecar.key = KeyOf(cfg)
          /\ Holds(Sidecar.hist, Sidecar.evidence, Sidecar.seen, cfg.window)
      BY <1>1 DEF Sidecar, Holds
    <3>4. SidecarHolds'
      BY <1>1, <3>1, <3>3 DEF SidecarHolds, Typed
    <3>5. QED
      BY <2>1, <3>2, <3>4
  <2>4. QED
    BY <1>3, <2>2, <2>3 DEF EndStep
<1>4. CASE Crash
  BY <1>1, <1>4 DEF Crash, controller, Typed, Holds, SidecarTyped, SidecarHolds
<1>5. CASE CrashBeforeSidecar
  <2>1. Typed' /\ Holds(hist, evidence, seen, cfg.window)' /\ ckpt'.sidecar = NoSidecar
    BY <1>1, <1>5 DEF CrashBeforeSidecar, controller, Typed, Holds
  <2>2. QED
    BY <2>1, NoSidecarTyped DEF SidecarTyped, SidecarHolds
<1>6. CASE Launch
  <2>1. SidecarTyped' /\ SidecarHolds' /\ launches' \in Nat
    BY <1>1, <1>6 DEF Launch, SidecarTyped, SidecarHolds, Typed
  <2>2. PICK c \in Configs :
          cfg' = c /\ IF ckpt.sidecar = NoSidecar THEN Fresh ELSE Load(ckpt.sidecar, c)
    BY <1>6 DEF Launch
  <2>3. ASSUME mult' \in Int, hist' = <<>>, evidence' = <<>>, ema' = NoValue, seen' = 0
        PROVE  Typed' /\ Holds(hist, evidence, seen, cfg.window)'
    <3>1. /\ LastOf(KLsOf(<<>>), c.window) = <<>> /\ Len(<<>>) = 0
          /\ <<>> \in Seq(Nat) /\ <<>> \in Seq(Measurements)
      BY ConfigType, EmptySeq, KLsOfNone DEF LastOf
    <3>2. QED
      BY <2>1, <2>2, <2>3, <3>1 DEF Typed, Holds
  <2>4. CASE ckpt.sidecar = NoSidecar
    BY <2>1, <2>2, <2>3, <2>4 DEF Fresh
  <2>5. CASE ckpt.sidecar # NoSidecar
    <3> DEFINE s == ckpt.sidecar
    <3>1. s.mult \in Int /\ mult' = s.mult
      BY <1>1, <2>2, <2>5 DEF Load, SidecarTyped
    <3>2. CASE s.key # KeyOf(c)
      BY <2>1, <2>2, <2>3, <2>5, <3>1, <3>2 DEF Load
    <3>3. CASE s.key = KeyOf(c)
      <4>1. /\ hist' = LastOf(s.hist, c.window) /\ ema' = s.ema
            /\ seen' = s.seen /\ evidence' = s.evidence
        BY <2>2, <2>5, <3>3 DEF Load
      <4>2. PICK d \in Configs :
              s.key = KeyOf(d) /\ Holds(s.hist, s.evidence, s.seen, d.window)
        BY <1>1, <2>5 DEF SidecarHolds
      <4>3. d.window = c.window
        BY <3>3, <4>2 DEF KeyOf
      <4>4. /\ s.evidence \in Seq(Measurements) /\ s.seen \in Nat
            /\ s.ema \in Nat \cup {NoValue}
        BY <1>1 DEF SidecarTyped
      <4>5. s.seen = Len(s.evidence) /\ s.hist = LastOf(KLsOf(s.evidence), c.window)
        BY <4>2, <4>3 DEF Holds
      <4> HIDE DEF s
      <4>6. c.window \in Nat \ {0} /\ KLsOf(s.evidence) \in Seq(Nat)
        BY <4>4, ConfigType, KLsOfType
      <4>7. hist' = LastOf(KLsOf(s.evidence), c.window) /\ hist' \in Seq(Nat)
        BY <4>1, <4>5, <4>6, LastOfTwice, LastOfType
      <4>8. QED
        BY <2>1, <2>2, <3>1, <4>1, <4>4, <4>5, <4>7 DEF Typed, Holds
    <3>4. QED
      BY <3>2, <3>3
  <2>6. QED
    BY <2>4, <2>5
<1>7. CASE UNCHANGED vars
  BY <1>1, <1>7 DEF vars, Typed, Holds, SidecarTyped, SidecarHolds
<1>8. QED
  BY <1>1, <1>2, <1>3, <1>4, <1>5, <1>6, <1>7 DEF Next

\* ... and so it always holds.
LEMMA KInvAlways == ASSUME KtscAssumption PROVE Spec => []KInv
BY KInvInit, KInvNext, PTL DEF Spec

------------------------------------------------------------------------------
(* The theorems.                                                           *)

\* Over any number of crashes, lost sidecars and changed configurations the
\* controller holds the last measurements of its evidence.
THEOREM HoldsItsMeasurements == ASSUME KtscAssumption PROVE Spec => []SameMeasurements
<1>1. KInv => SameMeasurements
  BY DEF KInv, Holds, SameMeasurements
<1>2. QED
  BY <1>1, KInvAlways, PTL

\* The controller and the sidecar alike hold the average of their evidence.
Averaged ==
  /\ ema = Average(evidence)
  /\ ckpt.sidecar.ema = Average(ckpt.sidecar.evidence)

\* Observing and resuming keep the average that of the evidence.
LEMMA AveragedNext ==
  ASSUME KtscAssumption, KInv, Averaged, [Next]_vars
  PROVE  Averaged'
<1>1. evidence \in Seq(Measurements) /\ cfg \in Configs
  BY DEF KInv, Typed
<1>2. CASE UpdateActor
  <2>1. ckpt' = ckpt
    BY <1>2 DEF UpdateActor
  <2>2. CASE UNCHANGED controller
    BY <2>1, <2>2 DEF Averaged, controller
  <2>3. CASE ~ (UNCHANGED controller)
    <3>1. PICK kl \in KLs : Measured(kl)
      BY <1>2, <2>3 DEF UpdateActor
    <3> DEFINE x == [kl |-> Bigger(kl, 0), beta |-> cfg.beta]
    <3>2. x \in Measurements
      BY <1>1, ConfigType DEF KtscAssumption, Bigger, Measurements
    <3>3. ema' = Mixed(ema, x.kl, x.beta) /\ evidence' = Append(evidence, x)
      BY <2>3, <3>1 DEF Measured
    <3> HIDE DEF x
    <3>4. QED
      BY <1>1, <2>1, <3>2, <3>3, AverageOfMore DEF Averaged
  <2>4. QED
    BY <2>2, <2>3
<1>3. CASE EndStep
  BY <1>3 DEF EndStep, controller, Averaged, Sidecar
<1>4. CASE Crash
  BY <1>4 DEF Crash, controller, Averaged
<1>5. CASE CrashBeforeSidecar
  BY <1>5, AverageOfNone DEF CrashBeforeSidecar, controller, Averaged, NoSidecar
<1>6. CASE Launch
  BY <1>6, AverageOfNone DEF Launch, Averaged, Fresh, Load
<1>7. CASE UNCHANGED vars
  BY <1>7 DEF vars, Averaged
<1>8. QED
  BY <1>2, <1>3, <1>4, <1>5, <1>6, <1>7 DEF Next

\* The same with the moving average: whatever crashes, lost sidecars and changed
\* configurations there were, it is the average of the evidence.
THEOREM ResumesItsAverage == ASSUME KtscAssumption PROVE Spec => []SameEvidence
<1>1. Init => Averaged
  BY AverageOfNone DEF Init, Averaged, NoSidecar
<1>2. KInv /\ Averaged /\ [Next]_vars => Averaged'
  BY AveragedNext
<1>3. KInv /\ Averaged => SameEvidence
  BY DEF KInv, Holds, SameMeasurements, Averaged, SameEvidence
<1>4. QED
  BY <1>1, <1>2, <1>3, KInvAlways, PTL DEF Spec

\* The multiplier only moves on enough measurements, into the bounds and within
\* the clamps, for every configuration.
THEOREM MovesSafely == ASSUME KtscAssumption PROVE Spec => AdaptsSafely
<1> DEFINE Safe == mult' # mult /\ launches' = launches =>
                     /\ Len(evidence') > cfg.seed
                     /\ mult' \in cfg.min .. cfg.max
                     /\ mult \in cfg.min .. cfg.max =>
                          mult' - mult \in -cfg.clampLo .. cfg.clampHi
<1>1. KInv /\ [Next]_vars => [Safe]_vars
  <2>1. SUFFICES ASSUME KInv, Next, mult' # mult, launches' = launches PROVE Safe
    BY DEF vars
  <2>2. UpdateActor /\ ~ (UNCHANGED controller)
    <3>1. ~ Launch
      BY <2>1, LaunchCounts DEF KInv, Typed
    <3>2. QED
      BY <2>1, <3>1 DEF Next, EndStep, Crash, CrashBeforeSidecar, controller, vars
  <2>3. PICK kl \in KLs : Measured(kl)
    BY <2>2 DEF UpdateActor
  <2>4. /\ Holds(hist', evidence', seen', cfg.window)
        /\ hist' \in Seq(Nat) /\ Len(hist') > 0 /\ ema' \in Nat /\ seen' \in Nat
        /\ delta' \in Nat
        /\ mult' = IF seen' <= cfg.seed THEN mult
                   ELSE Within(mult + Ratio(Statistic(hist', ema'), delta'),
                               cfg.min, cfg.max)
    BY <2>1, <2>2, <2>3, MeasuredHolds
  <2>5. cfg \in Configs /\ mult \in Int
    BY <2>1 DEF KInv, Typed
  <2> DEFINE r == Ratio(Statistic(hist', ema'), delta')
             j == cfg.clampLo
             k == cfg.clampHi
             lo == cfg.min
             hi == cfg.max
  <2>6. r \in Int /\ r \in -j .. k
    BY <2>4, <2>5, StatisticType, RatioType
  <2>7. /\ j \in Nat /\ k \in Nat /\ lo \in Int /\ hi \in Int /\ lo <= hi
        /\ cfg.seed \in Nat
    BY <2>5, ConfigType
  <2>8. seen' > cfg.seed /\ mult' = Within(mult + r, lo, hi) /\ Len(evidence') = seen'
    BY <2>1, <2>4, <2>7 DEF Holds
  <2> HIDE DEF r, j, k, lo, hi
  <2>9. mult' \in lo .. hi /\ (mult \in lo .. hi => mult' - mult \in -j .. k)
    BY <2>5, <2>6, <2>7, <2>8 DEF Within
  <2>10. QED
    BY <2>7, <2>8, <2>9 DEF j, k, lo, hi
<1>2. QED
  BY <1>1, KInvAlways, PTL DEF Spec, AdaptsSafely

\* No outlier moves the multiplier against the majority of the window, for every
\* window, target and floor, also when the target follows the advantages.
THEOREM OutliersDoNotDecide == ASSUME KtscAssumption PROVE Spec => MajorityDecides
<1> DEFINE High == Most({i \in 1 .. Len(hist') : hist'[i] >= delta'})
           Low  == Most({i \in 1 .. Len(hist') : hist'[i] <= delta'})
           Decided == cfg.stat = "median" /\ mult \in cfg.min .. cfg.max
                        /\ evidence' # evidence /\ launches' = launches =>
                        (High => mult' <= mult) /\ (Low => mult' >= mult)
<1>1. KInv /\ [Next]_vars => [Decided]_vars
  <2>1. SUFFICES ASSUME KInv, Next, cfg.stat = "median", mult \in cfg.min .. cfg.max,
                        evidence' # evidence, launches' = launches
                 PROVE  (High => mult' <= mult) /\ (Low => mult' >= mult)
    BY DEF vars
  <2>2. UpdateActor /\ ~ (UNCHANGED controller)
    <3>1. ~ Launch
      BY <2>1, LaunchCounts DEF KInv, Typed
    <3>2. QED
      BY <2>1, <3>1 DEF Next, EndStep, Crash, CrashBeforeSidecar, controller, vars
  <2>3. PICK kl \in KLs : Measured(kl)
    BY <2>2 DEF UpdateActor
  <2>4. /\ hist' \in Seq(Nat) /\ Len(hist') > 0 /\ ema' \in Nat /\ seen' \in Nat
        /\ delta' \in Nat
        /\ mult' = IF seen' <= cfg.seed THEN mult
                   ELSE Within(mult + Ratio(Statistic(hist', ema'), delta'),
                               cfg.min, cfg.max)
    BY <2>1, <2>2, <2>3, MeasuredHolds
  <2>5. cfg \in Configs /\ mult \in Int
    BY <2>1 DEF KInv, Typed
  <2>6. Statistic(hist', ema') = Median2(hist')
    BY <2>1 DEF Statistic
  <2> DEFINE m == Median2(hist')
             t == delta'
             r == Ratio(m, t)
             lo == cfg.min
             hi == cfg.max
  <2>7. t \in Nat /\ lo \in Int /\ hi \in Int /\ lo <= hi
    BY <2>4, <2>5, ConfigType
  <2>8. (High => m >= 2 * t) /\ (Low => m <= 2 * t) /\ m \in Nat
    <3> DEFINE h == hist'
    <3> HIDE DEF h, t
    <3>1. h \in Seq(Nat) /\ Len(h) > 0
      BY <2>4 DEF h
    <3>2. MostOf({i \in 1 .. Len(h) : h[i] >= t}, h) => Median2(h) >= 2 * t
      BY <2>7, <3>1, MedianAtLeast
    <3>3. MostOf({i \in 1 .. Len(h) : h[i] <= t}, h) => Median2(h) <= 2 * t
      BY <2>7, <3>1, MedianAtMost
    <3>4. Median2(h) \in Nat
      BY <3>1, MedianType
    <3>5. QED
      BY <3>2, <3>3, <3>4 DEF Most, MostOf, h, t
  <2>9. r \in Int /\ (m >= 2 * t => r <= 0) /\ (m <= 2 * t => r >= 0)
    <3> HIDE DEF m, t
    <3>1. m \in Int /\ t \in Nat
      BY <2>7, <2>8
    <3>2. QED
      BY <2>5, <3>1, RatioType
  <2>10. mult' = mult \/ mult' = Within(mult + r, lo, hi)
    BY <2>4, <2>6
  <2>11. mult \in lo .. hi
    BY <2>1
  <2> HIDE DEF m, r, t, lo, hi, High, Low
  <2>12. (r <= 0 => mult' <= mult) /\ (r >= 0 => mult' >= mult)
    BY <2>5, <2>7, <2>9, <2>10, <2>11 DEF Within
  <2>13. QED
    BY <2>8, <2>9, <2>12
<1>2. QED
  BY <1>1, KInvAlways, PTL DEF Spec, MajorityDecides

------------------------------------------------------------------------------
(* The estimators (Advantages).  The loop is at token t; the tokens of the  *)
(* model behind t have been through, and the loop carries over what the     *)
(* textbook's sum is at the first of them.                                  *)

Wrote == Estimating!Written

EstimatingTyped ==
  /\ aEstimator \in {"gae", "reinforce_plus_plus"}
  /\ aGamma \in {0, 1} /\ aLam \in {0, 1}
  /\ aValues \in [1 .. GenLen -> Int] /\ aKld \in [1 .. GenLen -> Int]
  /\ aT \in 0 .. GenLen /\ aNext \in Int /\ aLast \in Int
  /\ aAdvantages \in [1 .. GenLen -> Int]

Errors == [k \in Nat |-> Estimating!Error(k)]

\* F is the textbook's sum, from any token of the model on.
IsTextbook(F) == AddsBackwards(F, Cardinality(Wrote), Errors, aGamma * aLam)

\* How many of the model's tokens the loop has still to come to.
Ahead == CountTo(Wrote, aT)

Carried ==
  aEstimator = "gae" => \A F : IsTextbook(F) =>
    /\ aLast = F[Ahead + 1]
    /\ aNext = (IF Ahead < Cardinality(Wrote) THEN aValues[Estimating!Token(Ahead + 1)] ELSE 0)
    /\ \A k \in Ahead + 1 .. Cardinality(Wrote) : aAdvantages[Estimating!Token(k)] = F[k]

EstimatingInv == EstimatingTyped /\ Carried

\* Sizes of sets in the instance are sizes of sets.
LEMMA Sized == \A S : Estimating!Cardinality(S) = Cardinality(S)
BY DEF Estimating!Cardinality, Cardinality, Estimating!IsFiniteSet, IsFiniteSet

\* Among the tokens of a response are the ones the model wrote.
LEMMA WroteSome == GenLen \in Nat \ {0} /\ Wrote \in SUBSET (1 .. GenLen)
  /\ TokenValues \in SUBSET Int /\ Estimating!NumWritten = Cardinality(Wrote)
BY StepAssumption, Sized DEF Estimating!AdvantagesAssumption, Wrote, Estimating!Written,
   Estimating!Tokens, Estimating!NumWritten

\* The k-th token the model wrote is one it wrote, and there are k up to it.
LEMMA TokenIs ==
  /\ \A k \in 1 .. Cardinality(Wrote) :
       /\ Estimating!Token(k) \in Wrote /\ CountTo(Wrote, Estimating!Token(k)) = k
  /\ \A i \in Wrote : Estimating!Token(CountTo(Wrote, i)) = i
<1>1. \A k : Estimating!Token(k) = CHOOSE i \in Wrote : CountTo(Wrote, i) = k
  BY Sized DEF Estimating!Token, Wrote, CountTo
<1>2. \A k \in 1 .. Cardinality(Wrote) : \E i \in Wrote : CountTo(Wrote, i) = k
  BY WroteSome, CountFinds
<1>3. \A i, j \in Wrote : CountTo(Wrote, i) = CountTo(Wrote, j) => i = j
  BY WroteSome, CountFinds
<1>4. QED
  BY <1>1, <1>2, <1>3

\* The input stays, and with it whatever is computed from it.
LEMMA InputKept ==
  ASSUME UNCHANGED <<aEstimator, aGamma, aLam, aResponse, aValues, aKld>>
  PROVE  /\ Wrote' = Wrote /\ Errors' = Errors
         /\ \A k : Estimating!Token(k)' = Estimating!Token(k)
         /\ \A i : Estimating!Reward(i)' = Estimating!Reward(i)
         /\ \A F : IsTextbook(F)' = IsTextbook(F)
<1>1. Wrote' = Wrote
  BY DEF Wrote, Estimating!Written
<1>2. \A k : Estimating!Token(k)' = Estimating!Token(k)
  BY <1>1 DEF Wrote, Estimating!Token
<1>3. \A i : Estimating!Mask(i)' = Estimating!Mask(i)
  BY DEF Estimating!Mask
<1>4. Estimating!ValidLength' = Estimating!ValidLength
  BY DEF Estimating!ValidLength
<1>5. \A i : Estimating!Reward(i)' = Estimating!Reward(i)
  BY <1>3, <1>4 DEF Estimating!Reward
<1>6. Estimating!NumWritten' = Estimating!NumWritten
  BY <1>1 DEF Wrote, Estimating!NumWritten
<1>7. \A k : Estimating!Error(k)' = Estimating!Error(k)
  BY <1>2, <1>5, <1>6 DEF Estimating!Error
<1>8. Errors' = Errors
  BY <1>7 DEF Errors
<1>9. \A F : IsTextbook(F)' = IsTextbook(F)
  BY <1>1, <1>8 DEF IsTextbook
<1>10. QED
  BY <1>1, <1>2, <1>5, <1>8, <1>9

\* The loop begins behind the last token.
LEMMA EstimatingInit == Estimating!Init => EstimatingInv
<1>1. SUFFICES ASSUME Estimating!Init PROVE EstimatingInv
  OBVIOUS
<1>2. EstimatingTyped
  <2>1. 0 \in Int /\ TokenValues \in SUBSET Int /\ 0 \in TokenValues /\ GenLen \in Nat
    BY StepAssumption, WroteSome
  <2>2. \A f \in [1 .. GenLen -> TokenValues] : f \in [1 .. GenLen -> Int]
    BY <2>1
  <2>3. aValues \in [1 .. GenLen -> Int] /\ aLam \in {0, 1}
    <3>1. CASE aEstimator = "gae"
      BY <1>1, <2>2, <3>1 DEF Estimating!Init, Estimating!Tokens, Estimating!Factor
    <3>2. CASE aEstimator # "gae"
      BY <1>1, <3>2 DEF Estimating!Init, Estimating!Tokens
    <3>3. QED
      BY <3>1, <3>2
  <2>4. aKld \in [1 .. GenLen -> Int]
    BY <1>1, <2>2 DEF Estimating!Init, Estimating!Tokens
  <2>5. QED
    BY <1>1, <2>1, <2>3, <2>4
    DEF Estimating!Init, EstimatingTyped, Estimating!Tokens, Estimating!Factor
<1>3. aT = GenLen /\ aLast = 0 /\ aNext = 0
  BY <1>1 DEF Estimating!Init
<1>4. Ahead = Cardinality(Wrote) /\ Cardinality(Wrote) \in Nat
  BY <1>3, WroteSome, CountUp DEF Ahead
<1>5. ASSUME NEW F, IsTextbook(F) PROVE F[Cardinality(Wrote) + 1] = 0
  <2>1. Cardinality(Wrote) + 1 \in Nat /\ Cardinality(Wrote) + 1 > Cardinality(Wrote)
    BY <1>4
  <2>2. QED
    BY <1>5, <2>1 DEF IsTextbook, AddsBackwards
<1>6. Carried
  BY <1>3, <1>4, <1>5 DEF Carried
<1>7. QED
  BY <1>2, <1>6 DEF EstimatingInv

\* What gae makes of one token: the next term of the sum, or nothing.
LEMMA GaeTerm ==
  ASSUME EstimatingTyped, Estimating!Gae
  PROVE  /\ aT \in 1 .. GenLen /\ aT' = aT - 1
         /\ UNCHANGED <<aEstimator, aGamma, aLam, aResponse, aValues, aKld>>
         /\ Estimating!Reward(aT) \in Int
         /\ aAdvantages' = [aAdvantages EXCEPT ![aT] = aLast']
         /\ aT \in Wrote =>
              /\ aLast' = Estimating!Reward(aT) + aGamma * aNext - aValues[aT]
                            + aGamma * aLam * aLast
              /\ aNext' = aValues[aT]
         /\ aT \notin Wrote => aLast' = aLast /\ aNext' = aNext
<1>1. /\ aT \in 1 .. GenLen /\ aT' = aT - 1
      /\ UNCHANGED <<aEstimator, aGamma, aLam, aResponse, aValues, aKld>>
  BY WroteSome DEF Estimating!Gae, EstimatingTyped, Estimating!input
<1>2. Estimating!Mask(aT) = IF aT \in Wrote THEN 1 ELSE 0
  BY <1>1 DEF Estimating!Mask, Wrote, Estimating!Written, Estimating!Tokens
<1>3. aValues[aT] \in Int /\ aKld[aT] \in Int
  BY <1>1 DEF EstimatingTyped
<1>4. Estimating!Reward(aT) \in Int
  BY <1>2, <1>3 DEF Estimating!Reward, Estimating!Score
<1> DEFINE new == Estimating!Reward(aT) + aGamma * aNext - aValues[aT] + aGamma * aLam * aLast
<1>5. new \in Int
  BY <1>3, <1>4 DEF EstimatingTyped
<1>6. /\ aLast' = Estimating!Kept(new, aLast) /\ aNext' = Estimating!Kept(aValues[aT], aNext)
      /\ aAdvantages' = [aAdvantages EXCEPT ![aT] = aLast']
  BY DEF Estimating!Gae
<1> HIDE DEF new
<1>7. \A x, y \in Int : Estimating!Kept(x, y) = IF aT \in Wrote THEN x ELSE y
  BY <1>2 DEF Estimating!Kept
<1>8. aNext \in Int /\ aLast \in Int
  BY DEF EstimatingTyped
<1>9. /\ aLast' = (IF aT \in Wrote THEN new ELSE aLast)
      /\ aNext' = (IF aT \in Wrote THEN aValues[aT] ELSE aNext)
  BY <1>3, <1>5, <1>6, <1>7, <1>8
<1>10. QED
  BY <1>1, <1>4, <1>6, <1>9 DEF new

\* A turn of a loop keeps the types.
LEMMA TypedKept ==
  ASSUME EstimatingTyped, aT \in 1 .. GenLen, aT' = aT - 1,
         UNCHANGED <<aEstimator, aGamma, aLam, aResponse, aValues, aKld>>,
         aLast' \in Int, aNext' \in Int,
         NEW x \in Int, aAdvantages' = [aAdvantages EXCEPT ![aT] = x]
  PROVE  EstimatingTyped'
<1>1. aT' \in 0 .. GenLen
  BY WroteSome
<1>2. aAdvantages' \in [1 .. GenLen -> Int]
  BY DEF EstimatingTyped
<1>3. QED
  BY <1>1, <1>2 DEF EstimatingTyped

\* A turn of gae's loop, at a token of the model or at another.
LEMMA GaeStep == EstimatingInv /\ Estimating!Gae => EstimatingInv'
<1>1. SUFFICES ASSUME EstimatingInv, Estimating!Gae PROVE EstimatingInv'
  OBVIOUS
<1>2. EstimatingTyped /\ aEstimator = "gae"
  BY <1>1 DEF EstimatingInv, Estimating!Gae
<1>3. /\ aT \in 1 .. GenLen /\ aT' = aT - 1
      /\ UNCHANGED <<aEstimator, aGamma, aLam, aResponse, aValues, aKld>>
      /\ Estimating!Reward(aT) \in Int
      /\ aAdvantages' = [aAdvantages EXCEPT ![aT] = aLast']
  BY <1>1, <1>2, GaeTerm
<1>4. /\ Wrote' = Wrote /\ \A k : Estimating!Token(k)' = Estimating!Token(k)
      /\ \A F : IsTextbook(F)' = IsTextbook(F)
  BY <1>3, InputKept
<1> DEFINE n == Cardinality(Wrote)
<1>5. /\ n \in Nat /\ Ahead \in Nat /\ CountTo(Wrote, aT - 1) \in Nat
      /\ Ahead = CountTo(Wrote, aT - 1) + (IF aT \in Wrote THEN 1 ELSE 0)
      /\ Ahead' = CountTo(Wrote, aT - 1)
  <2>1. aT - 1 \in 0 .. GenLen /\ aT \in 0 .. GenLen
    BY <1>3, WroteSome
  <2>2. QED
    BY <1>3, <1>4, <2>1, WroteSome, CountUp DEF Ahead
<1>6. CASE aT \in Wrote
  <2>1. /\ aLast' = Estimating!Reward(aT) + aGamma * aNext - aValues[aT] + aGamma * aLam * aLast
        /\ aNext' = aValues[aT]
    BY <1>1, <1>2, <1>6, GaeTerm
  <2>2. Estimating!Token(Ahead) = aT
    BY <1>6, TokenIs DEF Ahead
  <2>3. Ahead \in 1 .. n /\ Ahead' = Ahead - 1
    <3>1. Ahead' = Ahead - 1 /\ Ahead \in 1 .. Ahead
      BY <1>5, <1>6
    <3>2. Ahead <= n
      <4>1. {j \in Wrote : j <= aT} \in SUBSET Wrote /\ IsFiniteSet(Wrote)
        BY WroteSome, CountUp
      <4>2. QED
        BY <4>1, FS_Subset DEF Ahead, CountTo
    <3>3. QED
      BY <1>5, <3>1, <3>2
  <2>4. ASSUME NEW F, IsTextbook(F)
        PROVE  /\ aLast' = F[Ahead]
               /\ \A k \in Ahead .. n : aAdvantages'[Estimating!Token(k)] = F[k]
    <3>1. /\ aLast = F[Ahead + 1]
          /\ aNext = (IF Ahead < n THEN aValues[Estimating!Token(Ahead + 1)] ELSE 0)
          /\ \A k \in Ahead + 1 .. n : aAdvantages[Estimating!Token(k)] = F[k]
      BY <1>1, <1>2, <2>4 DEF EstimatingInv, Carried
    <3>2. F[Ahead] = Estimating!Error(Ahead) + aGamma * aLam * F[Ahead + 1]
      <4>1. F[Ahead] = Errors[Ahead] + aGamma * aLam * F[Ahead + 1]
        BY <1>5, <2>3, <2>4 DEF IsTextbook, AddsBackwards
      <4>2. QED
        BY <1>5, <4>1 DEF Errors
    <3>3. Estimating!Error(Ahead) = Estimating!Reward(aT) - aValues[aT] + aGamma * aNext
      <4>1. Estimating!Error(Ahead) = Estimating!Reward(aT) - aValues[aT]
              + (IF Ahead < n THEN aGamma * aValues[Estimating!Token(Ahead + 1)] ELSE 0)
        BY <2>2, WroteSome DEF Estimating!Error
      <4>2. aGamma * 0 = 0
        BY <1>2 DEF EstimatingTyped
      <4>3. QED
        BY <3>1, <4>1, <4>2
    <3>4. aGamma * aNext \in Int /\ aValues[aT] \in Int /\ aGamma * aLam * aLast \in Int
      BY <1>2, <1>3 DEF EstimatingTyped
    <3>5. aLast' = F[Ahead]
      <4> DEFINE x == aGamma * aNext
                 y == aGamma * aLam * aLast
      <4>1. aLast' = Estimating!Reward(aT) + x - aValues[aT] + y
        BY <2>1
      <4>2. F[Ahead] = (Estimating!Reward(aT) - aValues[aT] + x) + y
        BY <3>1, <3>2, <3>3
      <4>3. x \in Int /\ y \in Int
        BY <3>4
      <4> HIDE DEF x, y
      <4>4. QED
        BY <1>3, <3>4, <4>1, <4>2, <4>3
    <3>6. ASSUME NEW k \in Ahead .. n PROVE aAdvantages'[Estimating!Token(k)] = F[k]
      <4>1. k \in 1 .. n
        BY <1>5, <2>3
      <4>2. Estimating!Token(k) \in Wrote /\ CountTo(Wrote, Estimating!Token(k)) = k
        BY <4>1, TokenIs
      <4>3. Estimating!Token(k) \in DOMAIN aAdvantages
        BY <1>2, <4>2, WroteSome DEF EstimatingTyped
      <4>4. CASE k = Ahead
        BY <1>3, <2>2, <3>5, <4>3, <4>4
      <4>5. CASE k # Ahead
        <5>1. Estimating!Token(k) # aT /\ k \in Ahead + 1 .. n
          BY <1>5, <4>1, <4>2, <4>5 DEF Ahead
        <5>2. QED
          BY <1>3, <3>1, <4>3, <5>1
      <4>6. QED
        BY <4>4, <4>5
    <3>7. QED
      BY <3>5, <3>6
  <2>5. Carried'
    <3>1. SUFFICES ASSUME NEW F, IsTextbook(F)
                   PROVE  /\ aLast' = F[Ahead' + 1]
                          /\ aNext' = (IF Ahead' < n THEN aValues[Estimating!Token(Ahead' + 1)] ELSE 0)
                          /\ \A k \in Ahead' + 1 .. n : aAdvantages'[Estimating!Token(k)] = F[k]
      BY <1>3, <1>4 DEF Carried
    <3>2. Ahead' + 1 = Ahead /\ Ahead' < n
      BY <1>5, <2>3
    <3>3. QED
      BY <2>1, <2>2, <2>4, <3>1, <3>2
  <2>6. aLast' \in Int /\ aNext' \in Int
    BY <1>2, <1>3, <2>1 DEF EstimatingTyped
  <2>7. EstimatingTyped'
    BY <1>2, <1>3, <2>6, TypedKept
  <2>8. QED
    BY <2>5, <2>7 DEF EstimatingInv
<1>7. CASE aT \notin Wrote
  <2>1. aLast' = aLast /\ aNext' = aNext /\ Ahead' = Ahead
    BY <1>1, <1>2, <1>5, <1>7, GaeTerm
  <2>2. EstimatingTyped'
    <3>1. aLast' \in Int /\ aNext' \in Int
      BY <1>2, <2>1 DEF EstimatingTyped
    <3>2. QED
      BY <1>2, <1>3, <3>1, TypedKept
  <2>3. \A k \in Ahead + 1 .. n :
          aAdvantages'[Estimating!Token(k)] = aAdvantages[Estimating!Token(k)]
    <3>1. SUFFICES ASSUME NEW k \in Ahead + 1 .. n
                   PROVE  aAdvantages'[Estimating!Token(k)] = aAdvantages[Estimating!Token(k)]
      OBVIOUS
    <3>2. Estimating!Token(k) \in Wrote
      <4>1. k \in 1 .. n
        BY <1>5
      <4>2. QED
        BY <4>1, TokenIs
    <3>3. QED
      BY <1>2, <1>3, <1>7, <3>2 DEF EstimatingTyped
  <2>4. Carried'
    <3>1. SUFFICES ASSUME NEW F, IsTextbook(F)
                   PROVE  /\ aLast' = F[Ahead' + 1]
                          /\ aNext' = (IF Ahead' < n THEN aValues[Estimating!Token(Ahead' + 1)] ELSE 0)
                          /\ \A k \in Ahead' + 1 .. n : aAdvantages'[Estimating!Token(k)] = F[k]
      BY <1>3, <1>4 DEF Carried
    <3>2. /\ aLast = F[Ahead + 1]
          /\ aNext = (IF Ahead < n THEN aValues[Estimating!Token(Ahead + 1)] ELSE 0)
          /\ \A k \in Ahead + 1 .. n : aAdvantages[Estimating!Token(k)] = F[k]
      BY <1>1, <1>2, <3>1 DEF EstimatingInv, Carried
    <3>3. QED
      BY <2>1, <2>3, <3>2
  <2>5. QED
    BY <2>2, <2>4 DEF EstimatingInv
<1>8. QED
  BY <1>6, <1>7

\* The other estimator only has to keep its types.
LEMMA ReinforceStep == EstimatingInv /\ Estimating!ReinforcePlusPlus => EstimatingInv'
<1>1. SUFFICES ASSUME EstimatingInv, Estimating!ReinforcePlusPlus PROVE EstimatingInv'
  OBVIOUS
<1>2. /\ aEstimator' = "reinforce_plus_plus" /\ aT \in 1 .. GenLen /\ aT' = aT - 1
      /\ UNCHANGED <<aEstimator, aGamma, aLam, aResponse, aValues, aKld, aNext>>
  BY <1>1, WroteSome DEF EstimatingInv, EstimatingTyped, Estimating!ReinforcePlusPlus,
     Estimating!input
<1>3. Estimating!Mask(aT) \in {0, 1}
  BY DEF Estimating!Mask
<1>4. Estimating!Reward(aT) \in Int
  BY <1>1, <1>2, <1>3 DEF EstimatingInv, EstimatingTyped, Estimating!Reward, Estimating!Score
<1> DEFINE return == Estimating!Reward(aT) + aGamma * aLast
<1>5. return \in Int /\ aLast' = return * Estimating!Mask(aT)
      /\ aAdvantages' = [aAdvantages EXCEPT ![aT] = return]
  BY <1>1, <1>4 DEF EstimatingInv, EstimatingTyped, Estimating!ReinforcePlusPlus
<1> HIDE DEF return
<1>6. aLast' \in Int
  BY <1>3, <1>5
<1>7. EstimatingTyped'
  <2>1. EstimatingTyped /\ aNext' \in Int
    BY <1>1, <1>2 DEF EstimatingInv, EstimatingTyped
  <2>2. QED
    BY <1>2, <1>5, <1>6, <2>1, TypedKept
<1>8. QED
  BY <1>2, <1>7 DEF EstimatingInv, Carried

\* The invariant is kept while the driver computes advantages, and while it does
\* something else.
LEMMA EstimatingNext == EstimatingInv /\ [Estimating!Next]_aVars => EstimatingInv'
<1>1. SUFFICES ASSUME EstimatingInv, [Estimating!Next]_aVars PROVE EstimatingInv'
  OBVIOUS
<1>2. CASE UNCHANGED aVars
  <2>1. /\ Wrote' = Wrote /\ \A k : Estimating!Token(k)' = Estimating!Token(k)
        /\ \A F : IsTextbook(F)' = IsTextbook(F) /\ Ahead' = Ahead
    BY <1>2, InputKept DEF aVars, Ahead
  <2>2. QED
    BY <1>1, <1>2, <2>1 DEF EstimatingInv, EstimatingTyped, Carried, aVars
<1>3. QED
  BY <1>1, <1>2, GaeStep, ReinforceStep
  DEF Estimating!Next, Estimating!Over, Estimating!vars, Estimating!input, aVars

\* gae gives the model's tokens what the textbook does, for every response, all
\* values and penalties: tools have said nothing, as far as it is concerned.
THEOREM ToolsAreSkipped == MCSpec => []ToolsDoNotCount
<1>1. MCInit => EstimatingInv
  BY EstimatingInit DEF MCInit
<1>2. [MCNext]_MCVars => [Estimating!Next]_aVars
  BY DEF MCNext, MCVars, Job, Gpu, Reward, Driving, Controlling
<1>3. EstimatingInv /\ [MCNext]_MCVars => EstimatingInv'
  BY <1>2, EstimatingNext
<1>4. EstimatingInv => ToolsDoNotCount
  <2>1. SUFFICES ASSUME EstimatingInv, aT = 0, aEstimator = "gae",
                        NEW k \in 1 .. Estimating!NumWritten
                 PROVE  aAdvantages[Estimating!Token(k)] = Estimating!Textbook[k]
    BY DEF ToolsDoNotCount, Estimating!ToolsDoNotCount
  <2>2. /\ Cardinality(Wrote) \in Nat /\ Ahead = 0 /\ k \in 1 .. Cardinality(Wrote)
        /\ Estimating!NumWritten = Cardinality(Wrote)
    BY <2>1, WroteSome, CountUp DEF Ahead
  <2>3. IsTextbook(Estimating!Textbook)
    <3> DEFINE n == Cardinality(Wrote)
               c == aGamma * aLam
    <3>1. \E F : AddsBackwards(F, n, Errors, c)
      BY <2>2, BackwardsExists
    <3>2. \A F : AddsBackwards(F, n, Errors, c) <=>
                   F = [j \in Nat |-> IF j > Estimating!NumWritten THEN 0
                                      ELSE Estimating!Error(j) + aGamma * aLam * F[j + 1]]
      BY <2>2 DEF AddsBackwards, Errors
    <3>3. Estimating!Textbook =
            CHOOSE F : F = [j \in Nat |-> IF j > Estimating!NumWritten THEN 0
                                          ELSE Estimating!Error(j) + aGamma * aLam * F[j + 1]]
      BY DEF Estimating!Textbook
    <3>4. AddsBackwards(Estimating!Textbook, n, Errors, c)
      BY <3>1, <3>2, <3>3
    <3>5. QED
      BY <3>4 DEF IsTextbook
  <2>4. k \in Ahead + 1 .. Cardinality(Wrote)
    BY <2>2
  <2>5. QED
    BY <2>1, <2>3, <2>4 DEF EstimatingInv, Carried
<1>5. QED
  BY <1>1, <1>3, <1>4, PTL DEF MCSpec
------------------------------------------------------------------------------
(* The scoring of a batch (RewardPool), as long as no row takes its process *)
(* with it, the rows that loop leave a process to the others, and the work  *)
(* of those fits in the time.  Then the time that has passed and the work   *)
(* that healthy rows still need are together never more than all their      *)
(* work, as long as one of them waits for its answer: time passes only      *)
(* while every process is busy, and they cannot all be busy with loops.     *)

Scored  == Scoring!Rows
Looping == {r \in Scored : pWork[r] = Scoring!Loops}

Mild ==
  /\ \A r \in Scored : pWork[r] # Scoring!Dies
  /\ Cardinality(Looping) < Cardinality(PoolProcesses)
  /\ SumOf(pWork, Scoring!Healthy) < TaskTimeout

PoolTyped ==
  /\ pPc \in {"gather", "terminate", "shutdown", "scored"}
  /\ pWork \in [Scored -> ScoringTimes \cup {Scoring!Raises, Scoring!Loops, Scoring!Dies}]
  /\ pClock \in Nat
  /\ pQueue \in Seq(Scored)
  /\ pRunning \in [Scoring!Living -> 0 .. ScoredRows]
  /\ pLeft \in [Scored -> Int]
  /\ pResult \in [Scored -> {"pending", "score", "None"}]

\* The processes take the rows in order, each row once.
TakenInOrder ==
  /\ Len(pQueue) <= ScoredRows
  /\ \A i \in 1 .. Len(pQueue) : pQueue[i] = ScoredRows - Len(pQueue) + i
  /\ \A w \in Scoring!Living : pRunning[w] <= ScoredRows - Len(pQueue)
  /\ \A v, w \in Scoring!Living : pRunning[v] = pRunning[w] /\ pRunning[v] # 0 => v = w

\* A row without an answer waits for a process or has one; only a row that
\* raises or loops is answered with none.
Waited ==
  /\ pPc = "gather" => Scoring!Living = PoolProcesses
  /\ pPc # "gather" => \A r \in Scored : pResult[r] # "pending"
  /\ \A r \in Scored : pResult[r] = "pending" =>
       r > ScoredRows - Len(pQueue) \/ \E w \in Scoring!Living : pRunning[w] = r
  /\ \A r \in Scored : pResult[r] = "score" => Scoring!IsHealthy(r)
  /\ \A r \in Scored : pResult[r] = "None" => ~ Scoring!IsHealthy(r)

WorkLeft ==
  /\ \A r \in Scored : IF Scoring!IsHealthy(r) THEN pLeft[r] \in Nat ELSE pLeft[r] = pWork[r]
  /\ (\E r \in Scoring!Healthy : pResult[r] = "pending") =>
       pClock + SumOf(pLeft, Scoring!Healthy) <= SumOf(pWork, Scoring!Healthy)

Reported ==
  pPc = "scored" => pScores = [r \in Scored |-> IF pResult[r] = "None" THEN 0 ELSE 1]

Goes == PoolTyped /\ TakenInOrder /\ Waited /\ WorkLeft /\ Reported

PoolInv == Mild => Goes

\* The constants of the pool.
LEMMA PoolConstants ==
  /\ ScoredRows \in Nat \ {0} /\ Scored = 1 .. ScoredRows /\ IsFiniteSet(Scored)
  /\ PoolProcesses # {} /\ IsFiniteSet(PoolProcesses)
  /\ ScoringTimes \in SUBSET (Nat \ {0}) /\ TaskTimeout \in Nat \ {0}
  /\ Scoring!Raises = -1 /\ Scoring!Loops = -2 /\ Scoring!Dies = -3 /\ Scoring!Idle = 0
<1>1. IsFiniteSet(PoolProcesses)
  BY StepAssumption DEF Scoring!RewardPoolAssumption, Scoring!IsFiniteSet, IsFiniteSet
<1>2. ScoredRows \in Nat \ {0} /\ Scored = 1 .. ScoredRows
  BY StepAssumption DEF Scoring!RewardPoolAssumption, Scored, Scoring!Rows
<1>3. IsFiniteSet(Scored)
  BY <1>2, FirstNumbers
<1>4. QED
  BY <1>1, <1>2, <1>3, StepAssumption DEF Scoring!RewardPoolAssumption,
     Scoring!Raises, Scoring!Loops, Scoring!Dies, Scoring!Idle

\* The healthy rows are finitely many, and their work is a time.
LEMMA HealthyRows ==
  ASSUME PoolTyped
  PROVE  /\ IsFiniteSet(Scoring!Healthy) /\ Scoring!Healthy \in SUBSET Scored
         /\ \A r \in Scoring!Healthy : pWork[r] \in Nat
         /\ \A r \in Scored : r \in Scoring!Healthy <=> Scoring!IsHealthy(r)
         /\ \A r \in Scored : ~ Scoring!IsHealthy(r) => pWork[r] \in {-1, -2, -3}
<1>1. Scoring!Healthy \in SUBSET Scored
  BY DEF Scoring!Healthy, Scored
<1>2. IsFiniteSet(Scoring!Healthy)
  BY <1>1, PoolConstants, FS_Subset
<1>3. \A r \in Scored : r \in Scoring!Healthy <=> Scoring!IsHealthy(r)
  BY DEF Scoring!Healthy, Scored
<1>4. \A r \in Scored : Scoring!IsHealthy(r) <=> pWork[r] \in ScoringTimes
  BY DEF Scoring!IsHealthy
<1>5. \A r \in Scoring!Healthy : pWork[r] \in Nat
  BY <1>1, <1>3, <1>4, PoolConstants
<1>6. \A r \in Scored : ~ Scoring!IsHealthy(r) => pWork[r] \in {-1, -2, -3}
  BY <1>4, PoolConstants DEF PoolTyped
<1>7. QED
  BY <1>1, <1>2, <1>3, <1>5, <1>6

\* What depends on the work alone stays.
LEMMA WorkStays ==
  ASSUME UNCHANGED pWork
  PROVE  /\ Mild' = Mild /\ Scoring!Healthy' = Scoring!Healthy
         /\ \A r : Scoring!IsHealthy(r)' = Scoring!IsHealthy(r)
<1>1. \A r : Scoring!IsHealthy(r)' = Scoring!IsHealthy(r)
  BY DEF Scoring!IsHealthy
<1>2. Scoring!Healthy' = Scoring!Healthy
  BY DEF Scoring!Healthy, Scoring!IsHealthy
<1>3. Looping' = Looping
  BY DEF Looping
<1>4. QED
  BY <1>1, <1>2, <1>3 DEF Mild

\* Before it starts nothing has been taken and all the work is left.
LEMMA PoolInitially == Scoring!Init => PoolInv
<1> SUFFICES ASSUME Scoring!Init, Mild PROVE Goes
  BY DEF PoolInv
<1>1. /\ pPc = "gather" /\ pClock = 0
      /\ pWork \in [Scored -> ScoringTimes \cup {Scoring!Raises, Scoring!Loops, Scoring!Dies}]
      /\ pQueue = [i \in Scored |-> i] /\ pRunning = [w \in PoolProcesses |-> 0]
      /\ pLeft = [r \in Scored |-> pWork[r]]
      /\ pResult = [r \in Scored |-> "pending"]
  BY PoolConstants DEF Scoring!Init, Scored
<1>2. pQueue \in Seq(Scored) /\ Len(pQueue) = ScoredRows
  BY <1>1, PoolConstants, AsSequence
<1>3. Scoring!Living = PoolProcesses
  BY <1>1 DEF Scoring!Living
<1>4. \A r \in Scored : pWork[r] \in Int
  <2>1. \A x \in ScoringTimes \cup {Scoring!Raises, Scoring!Loops, Scoring!Dies} : x \in Int
    BY PoolConstants
  <2>2. QED
    BY <1>1, <2>1
<1>5. PoolTyped
  BY <1>1, <1>2, <1>3, <1>4, PoolConstants DEF PoolTyped
<1>6. TakenInOrder
  BY <1>1, <1>2, <1>3, PoolConstants DEF TakenInOrder
<1>7. Waited
  BY <1>1, <1>2, <1>3, PoolConstants DEF Waited
<1>8. WorkLeft
  <2>1. \A r \in Scored : pLeft[r] = pWork[r]
    BY <1>1
  <2>2. \A r \in Scored : IF Scoring!IsHealthy(r) THEN pLeft[r] \in Nat ELSE pLeft[r] = pWork[r]
    BY <1>5, <2>1, HealthyRows
  <2>3. \A r \in Scoring!Healthy : pLeft[r] \in Int /\ pWork[r] \in Int /\ pLeft[r] <= pWork[r]
    BY <1>5, <2>1, HealthyRows
  <2>4. /\ SumOf(pLeft, Scoring!Healthy) \in Int /\ SumOf(pWork, Scoring!Healthy) \in Int
        /\ SumOf(pLeft, Scoring!Healthy) <= SumOf(pWork, Scoring!Healthy)
    BY <1>5, <2>3, HealthyRows, SumsOrdered
  <2>5. QED
    BY <1>1, <2>2, <2>4 DEF WorkLeft
<1>9. Reported
  BY <1>1 DEF Reported
<1>10. QED
  BY <1>5, <1>6, <1>7, <1>8, <1>9 DEF Goes

\* A process takes the next row.
LEMMA PoolTakes ==
  ASSUME Goes, NEW w \in Scoring!Living, Scoring!Take(w)
  PROVE  Goes'
<1> DEFINE n == Len(pQueue)
           h == ScoredRows - n + 1
<1>1. /\ pRunning[w] = 0 /\ pQueue # <<>> /\ pQueue' = Tail(pQueue)
      /\ pRunning' = [pRunning EXCEPT ![w] = Head(pQueue)]
      /\ UNCHANGED <<pPc, pWork, pClock, pLeft, pResult, pScores>>
  BY PoolConstants DEF Scoring!Take
<1>2. PoolTyped /\ TakenInOrder /\ Waited
  BY DEF Goes
<1>3. /\ n \in 1 .. ScoredRows /\ h \in Scored /\ Head(pQueue) = h
      /\ pQueue' \in Seq(Scored) /\ Len(pQueue') = n - 1
      /\ \A i \in 1 .. n - 1 : pQueue'[i] = ScoredRows - (n - 1) + i
  <2>1. pQueue \in Seq(Scored) /\ n \in Nat /\ n # 0 /\ n <= ScoredRows
    BY <1>1, <1>2 DEF PoolTyped, TakenInOrder
  <2>2. \A i \in 1 .. n : pQueue[i] = ScoredRows - n + i
    BY <1>2 DEF TakenInOrder
  <2>3. /\ Head(pQueue) = pQueue[1] /\ Tail(pQueue) \in Seq(Scored)
        /\ Len(Tail(pQueue)) = n - 1
        /\ \A i \in 1 .. n - 1 : Tail(pQueue)[i] = pQueue[i + 1]
    BY <2>1
  <2> HIDE DEF n
  <2>4. ScoredRows \in Nat /\ 1 \in 1 .. n /\ \A i \in 1 .. n - 1 : i + 1 \in 1 .. n
    BY <2>1, PoolConstants
  <2>5. \A i \in 1 .. n - 1 : Tail(pQueue)[i] = ScoredRows - (n - 1) + i
    BY <2>1, <2>2, <2>3, <2>4
  <2>6. QED
    BY <1>1, <2>1, <2>2, <2>3, <2>4, <2>5, PoolConstants
<1> HIDE DEF n
<1>4. /\ pRunning \in [Scoring!Living -> 0 .. ScoredRows]
      /\ Scoring!Living' = Scoring!Living
      /\ \A v \in Scoring!Living : pRunning'[v] = IF v = w THEN h ELSE pRunning[v]
      /\ pRunning' \in [Scoring!Living -> 0 .. ScoredRows]
  <2>1. pRunning \in [Scoring!Living -> 0 .. ScoredRows] /\ h \in 0 .. ScoredRows
    BY <1>2, <1>3, PoolConstants DEF PoolTyped
  <2>2. pRunning' = [pRunning EXCEPT ![w] = h]
    BY <1>1, <1>3
  <2>3. Scoring!Living' = Scoring!Living
    BY <2>1, <2>2 DEF Scoring!Living
  <2> HIDE DEF h
  <2>4. QED
    BY <2>1, <2>2, <2>3
<1>5. PoolTyped'
  BY <1>1, <1>2, <1>3, <1>4 DEF PoolTyped, Scored, Scoring!Rows
<1>6. TakenInOrder'
  <2>1. /\ \A v \in Scoring!Living : pRunning[v] \in Int /\ pRunning[v] <= ScoredRows - n
        /\ \A u, v \in Scoring!Living : pRunning[u] = pRunning[v] /\ pRunning[u] # 0 => u = v
        /\ n \in Int /\ ScoredRows \in Nat
    BY <1>2, <1>3, <1>4, PoolConstants DEF TakenInOrder, n
  <2>2. \A v \in Scoring!Living : pRunning'[v] <= ScoredRows - (n - 1)
    BY <2>1, <1>4
  <2>3. \A u, v \in Scoring!Living : pRunning'[u] = pRunning'[v] /\ pRunning'[u] # 0 => u = v
    BY <2>1, <1>4
  <2>4. n - 1 <= ScoredRows
    BY <1>3, PoolConstants
  <2>5. QED
    BY <1>3, <1>4, <2>2, <2>3, <2>4 DEF TakenInOrder
<1>7. Waited'
  <2>1. \A r \in Scored : pResult[r] = "pending" =>
          r > ScoredRows - (n - 1) \/ \E v \in Scoring!Living : pRunning'[v] = r
    <3> SUFFICES ASSUME NEW r \in Scored, pResult[r] = "pending"
                 PROVE  r > ScoredRows - (n - 1) \/ \E v \in Scoring!Living : pRunning'[v] = r
      OBVIOUS
    <3>1. CASE \E v \in Scoring!Living : pRunning[v] = r
      <4>1. PICK v \in Scoring!Living : pRunning[v] = r
        BY <3>1
      <4>2. v # w
        BY <1>1, <4>1, PoolConstants
      <4>3. QED
        BY <1>4, <4>1, <4>2
    <3>2. CASE r > ScoredRows - n
      <4>1. r = h \/ r > ScoredRows - (n - 1)
        BY <1>3, <3>2, PoolConstants
      <4>2. pRunning'[w] = h
        BY <1>4
      <4>3. QED
        BY <4>1, <4>2
    <3>3. QED
      BY <1>2, <3>1, <3>2 DEF Waited, n
  <2>2. Scored' = Scored
    BY DEF Scored, Scoring!Rows
  <2>3. QED
    BY <1>1, <1>2, <1>3, <1>4, <2>1, <2>2, WorkStays DEF Waited
<1>8. WorkLeft' /\ Reported'
  <2>1. Scored' = Scored
    BY DEF Scored, Scoring!Rows
  <2>2. WorkLeft /\ Reported
    BY DEF Goes
  <2>3. WorkLeft'
    BY <1>1, <2>1, <2>2, WorkStays DEF WorkLeft
  <2>4. Reported'
    BY <1>1, <2>1, <2>2 DEF Reported
  <2>5. QED
    BY <2>3, <2>4
<1>9. QED
  BY <1>5, <1>6, <1>7, <1>8 DEF Goes

\* A row is answered.
LEMMA PoolAnswers ==
  ASSUME Goes, NEW w \in Scoring!Living, Scoring!Complete(w)
  PROVE  Goes'
<1> DEFINE r == pRunning[w]
           answer == IF pLeft[r] = 0 THEN "score" ELSE "None"
<1>0. Scored' = Scored
  BY DEF Scored, Scoring!Rows
<1>1. /\ r # 0 /\ pLeft[r] \in {0, -1} /\ pRunning' = [pRunning EXCEPT ![w] = 0]
      /\ pResult' = IF pResult[r] = "pending" THEN [pResult EXCEPT ![r] = answer] ELSE pResult
      /\ UNCHANGED <<pPc, pWork, pClock, pQueue, pLeft, pScores>>
  BY PoolConstants DEF Scoring!Complete, Scoring!Answered
<1>2. PoolTyped /\ TakenInOrder /\ Waited /\ WorkLeft /\ Reported
  BY DEF Goes
<1>3. r \in Scored
  BY <1>1, <1>2, PoolConstants DEF PoolTyped
<1> HIDE DEF answer
<1>4. /\ pRunning \in [Scoring!Living -> 0 .. ScoredRows]
      /\ pRunning' \in [Scoring!Living -> 0 .. ScoredRows] /\ Scoring!Living' = Scoring!Living
      /\ \A v \in Scoring!Living : pRunning'[v] = IF v = w THEN 0 ELSE pRunning[v]
  BY <1>1, <1>2, PoolConstants DEF PoolTyped, Scoring!Living
<1> HIDE DEF r
<1>5. answer \in {"score", "None"}
      /\ (answer = "score" => Scoring!IsHealthy(r))
      /\ (answer = "None" => ~ Scoring!IsHealthy(r))
  <2>1. ~ Scoring!IsHealthy(r) => pLeft[r] \in {-1, -2, -3}
    BY <1>2, <1>3, HealthyRows DEF WorkLeft
  <2>2. Scoring!IsHealthy(r) => pLeft[r] \in Nat
    BY <1>2, <1>3 DEF WorkLeft
  <2>3. QED
    BY <1>1, <2>1, <2>2 DEF answer
<1>6. /\ pResult' \in [Scored -> {"pending", "score", "None"}]
      /\ \A q \in Scored :
           pResult'[q] = IF q = r /\ pResult[r] = "pending" THEN answer ELSE pResult[q]
  <2>1. pResult \in [Scored -> {"pending", "score", "None"}]
    BY <1>2 DEF PoolTyped
  <2>2. QED
    BY <1>1, <1>3, <1>5, <2>1
<1>7. PoolTyped'
  BY <1>0, <1>1, <1>2, <1>4, <1>6 DEF PoolTyped
<1>8. TakenInOrder'
  <2>1. /\ \A v \in Scoring!Living : pRunning[v] <= ScoredRows - Len(pQueue)
        /\ \A u, v \in Scoring!Living : pRunning[u] = pRunning[v] /\ pRunning[u] # 0 => u = v
        /\ Len(pQueue) \in Nat /\ Len(pQueue) <= ScoredRows /\ ScoredRows \in Nat
    BY <1>2, PoolConstants DEF TakenInOrder, PoolTyped
  <2>2. \A v \in Scoring!Living : pRunning'[v] <= ScoredRows - Len(pQueue)
    BY <2>1, <1>4
  <2>3. \A u, v \in Scoring!Living : pRunning'[u] = pRunning'[v] /\ pRunning'[u] # 0 => u = v
    BY <2>1, <1>4
  <2>4. QED
    BY <1>1, <1>2, <1>4, <2>2, <2>3 DEF TakenInOrder
<1>9. Waited'
  <2>1. \A q \in Scored : pResult'[q] = "pending" =>
          q > ScoredRows - Len(pQueue) \/ \E v \in Scoring!Living : pRunning'[v] = q
    <3> SUFFICES ASSUME NEW q \in Scored, pResult'[q] = "pending"
                 PROVE  q > ScoredRows - Len(pQueue) \/ \E v \in Scoring!Living : pRunning'[v] = q
      OBVIOUS
    <3>1. q # r /\ pResult[q] = "pending"
      BY <1>5, <1>6
    <3>2. CASE \E v \in Scoring!Living : pRunning[v] = q
      <4>1. PICK v \in Scoring!Living : pRunning[v] = q
        BY <3>2
      <4>2. v # w
        BY <3>1, <4>1 DEF r
      <4>3. QED
        BY <1>4, <4>1, <4>2
    <3>3. QED
      BY <1>2, <3>1, <3>2 DEF Waited
  <2>2. /\ \A q \in Scored : pResult'[q] = "score" => Scoring!IsHealthy(q)
        /\ \A q \in Scored : pResult'[q] = "None" => ~ Scoring!IsHealthy(q)
        /\ \A q \in Scored : pResult'[q] = "pending" => pResult[q] = "pending"
    BY <1>2, <1>5, <1>6 DEF Waited
  <2>3. QED
    BY <1>0, <1>1, <1>2, <1>4, <2>1, <2>2, WorkStays DEF Waited
<1>10. WorkLeft'
  <2>1. \A q \in Scoring!Healthy : pResult'[q] = "pending" => pResult[q] = "pending"
    BY <1>2, <1>5, <1>6, HealthyRows
  <2>2. QED
    BY <1>0, <1>1, <1>2, <2>1, WorkStays DEF WorkLeft
<1>11. Reported'
  <2>1. pPc = "scored" => pResult' = pResult
    BY <1>1, <1>2, <1>3 DEF Waited
  <2>2. QED
    BY <1>0, <1>1, <1>2, <2>1 DEF Reported
<1>12. QED
  BY <1>7, <1>8, <1>9, <1>10, <1>11 DEF Goes

\* No row takes its process with it.
LEMMA PoolHolds ==
  ASSUME Mild, Goes, NEW w \in Scoring!Living, Scoring!Break(w)
  PROVE  FALSE
<1>1. pRunning[w] # 0 /\ pLeft[pRunning[w]] = -3
  BY PoolConstants DEF Scoring!Break
<1>2. PoolTyped /\ WorkLeft
  BY DEF Goes
<1>3. pRunning[w] \in Scored
  BY <1>1, <1>2, PoolConstants DEF PoolTyped
<1>4. pWork[pRunning[w]] # -3
  BY <1>3, PoolConstants DEF Mild
<1>5. Scoring!IsHealthy(pRunning[w]) => -3 \in Nat
  BY <1>1, <1>2, <1>3 DEF WorkLeft
<1>6. ~ Scoring!IsHealthy(pRunning[w]) => pWork[pRunning[w]] = -3
  BY <1>1, <1>2, <1>3 DEF WorkLeft
<1>7. QED
  BY <1>4, <1>5, <1>6

\* While a healthy row waits for its answer and nobody waits for a process that
\* is there, some healthy row is being worked on.
LEMMA SomeWork ==
  ASSUME Mild, Goes, Scoring!AllBusy, pPc = "gather",
         NEW h \in Scoring!Healthy, pResult[h] = "pending"
  PROVE  \E r \in Scoring!Healthy :
           pLeft[r] > 0 /\ \E w \in Scoring!Living : pRunning[w] = r
<1>1. PoolTyped /\ TakenInOrder /\ Waited /\ WorkLeft
  BY DEF Goes
<1>2. Scoring!Living = PoolProcesses /\ h \in Scored
  BY <1>1, HealthyRows DEF Waited
<1>3. \A w \in PoolProcesses :
        IF pRunning[w] = 0 THEN pQueue = <<>>
        ELSE pLeft[pRunning[w]] > 0 \/ pLeft[pRunning[w]] = -2
  BY <1>2, PoolConstants DEF Scoring!AllBusy
<1>4. \A w \in PoolProcesses : pRunning[w] # 0 => pRunning[w] \in Scored
  BY <1>1, <1>2, PoolConstants DEF PoolTyped
<1>5. \A r \in Scored : pLeft[r] > 0 => r \in Scoring!Healthy
  BY <1>1, HealthyRows DEF WorkLeft
<1>6. \A r \in Scored : pLeft[r] = -2 => pWork[r] = -2
  BY <1>1 DEF WorkLeft
<1>7. CASE \E w \in Scoring!Living : pRunning[w] = h
  <2>1. PICK w \in PoolProcesses : pRunning[w] = h
    BY <1>2, <1>7
  <2>2. pLeft[h] \in Nat /\ h # 0
    BY <1>1, <1>2, HealthyRows, PoolConstants DEF WorkLeft
  <2>3. pLeft[h] > 0
    BY <1>3, <2>1, <2>2
  <2>4. QED
    BY <1>2, <2>1, <2>3
<1>8. CASE h > ScoredRows - Len(pQueue)
  <2>1. pQueue # <<>>
    <3>1. Len(pQueue) # 0
      BY <1>2, <1>8, PoolConstants
    <3>2. QED
      BY <3>1
  <2>2. \A w \in PoolProcesses : pRunning[w] \in Scored
    BY <1>3, <1>4, <2>1
  <2>3. ASSUME \A w \in PoolProcesses : pLeft[pRunning[w]] = -2 PROVE FALSE
    <3> DEFINE f == [w \in PoolProcesses |-> pRunning[w]]
    <3>1. \A w \in PoolProcesses : pRunning[w] \in Looping
      BY <1>6, <2>2, <2>3, PoolConstants DEF Looping
    <3>2. f \in [PoolProcesses -> Looping]
      BY <3>1
    <3>3. IsFiniteSet(Looping)
      <4>1. Looping \in SUBSET Scored
        BY DEF Looping
      <4>2. QED
        BY <4>1, PoolConstants, FS_Subset
    <3>4. PICK v, w \in PoolProcesses : v # w /\ f[v] = f[w]
      <4> HIDE DEF f
      <4>1. Cardinality(Looping) < Cardinality(PoolProcesses)
        BY DEF Mild
      <4>2. QED
        BY <3>2, <3>3, <4>1, PoolConstants, FS_PigeonHole
    <3>5. pRunning[v] = pRunning[w] /\ pRunning[v] # 0
      BY <2>2, <3>4, PoolConstants
    <3>6. QED
      BY <1>1, <1>2, <3>4, <3>5 DEF TakenInOrder
  <2>4. PICK w \in PoolProcesses : pLeft[pRunning[w]] # -2
    BY <2>3
  <2>5. pRunning[w] \in Scored /\ pRunning[w] # 0
    BY <2>2, PoolConstants
  <2>6. pLeft[pRunning[w]] > 0
    BY <1>3, <2>4, <2>5
  <2>7. QED
    BY <1>2, <1>5, <2>5, <2>6
<1>9. QED
  BY <1>1, <1>2, <1>7, <1>8 DEF Waited

\* Time passes.
LEMMA PoolTicks ==
  ASSUME Mild, Goes, Scoring!Tick
  PROVE  Goes'
<1>0. Scored' = Scored
  BY DEF Scored, Scoring!Rows
<1>1. /\ pPc = "gather" /\ Scoring!AllBusy /\ pClock' = pClock + 1
      /\ pLeft' = [r \in Scored |-> IF pLeft[r] > 0 /\ \E w \in Scoring!Living : pRunning[w] = r
                                      THEN pLeft[r] - 1 ELSE pLeft[r]]
      /\ UNCHANGED <<pPc, pWork, pQueue, pRunning, pResult, pScores>>
  BY DEF Scoring!Tick, Scored
<1>2. PoolTyped /\ TakenInOrder /\ Waited /\ WorkLeft /\ Reported
  BY DEF Goes
<1>3. Scoring!Living' = Scoring!Living
  BY <1>1 DEF Scoring!Living
<1>4. \A r \in Scored :
        /\ pLeft[r] \in Int /\ pLeft'[r] \in Int /\ pLeft'[r] <= pLeft[r]
        /\ pLeft[r] \in Nat => pLeft'[r] \in Nat
        /\ pLeft[r] \notin Nat => pLeft'[r] = pLeft[r]
        /\ pLeft[r] > 0 /\ (\E w \in Scoring!Living : pRunning[w] = r) => pLeft'[r] < pLeft[r]
  <2>1. pLeft \in [Scored -> Int]
    BY <1>2 DEF PoolTyped
  <2>2. QED
    BY <1>1, <2>1
<1>5. PoolTyped'
  <2>1. pLeft' \in [Scored -> Int]
    <3>1. pLeft' = [r \in Scored |-> pLeft'[r]]
      BY <1>1
    <3>2. QED
      BY <1>4, <3>1
  <2>2. QED
    BY <1>0, <1>1, <1>2, <1>3, <2>1 DEF PoolTyped
<1>6. TakenInOrder'
  BY <1>1, <1>2, <1>3 DEF TakenInOrder
<1>7. Waited'
  BY <1>0, <1>1, <1>2, <1>3, WorkStays DEF Waited
<1>8. WorkLeft'
  <2>1. \A r \in Scored : IF Scoring!IsHealthy(r) THEN pLeft'[r] \in Nat ELSE pLeft'[r] = pWork[r]
    <3>1. \A r \in Scored : ~ Scoring!IsHealthy(r) => pWork[r] \in {-1, -2, -3}
      BY <1>2, HealthyRows
    <3>2. QED
      BY <1>2, <1>4, <3>1 DEF WorkLeft
  <2>2. ASSUME NEW h \in Scoring!Healthy, pResult[h] = "pending"
        PROVE  pClock + 1 + SumOf(pLeft', Scoring!Healthy) <= SumOf(pWork, Scoring!Healthy)
    <3>1. PICK r \in Scoring!Healthy : pLeft[r] > 0 /\ \E w \in Scoring!Living : pRunning[w] = r
      BY <1>1, <2>2, SomeWork
    <3>2. Scoring!Healthy \in SUBSET Scored /\ IsFiniteSet(Scoring!Healthy)
      BY <1>2, HealthyRows
    <3>3. \A q \in Scoring!Healthy :
            pLeft'[q] \in Int /\ pLeft[q] \in Int /\ pLeft'[q] <= pLeft[q]
      BY <1>4, <3>2
    <3>4. r \in Scoring!Healthy /\ pLeft'[r] < pLeft[r]
      BY <1>4, <3>1, <3>2
    <3>5. /\ SumOf(pLeft', Scoring!Healthy) \in Int /\ SumOf(pLeft, Scoring!Healthy) \in Int
          /\ SumOf(pLeft', Scoring!Healthy) < SumOf(pLeft, Scoring!Healthy)
      BY <3>2, <3>3, <3>4, SumsOrdered
    <3>6. pClock + SumOf(pLeft, Scoring!Healthy) <= SumOf(pWork, Scoring!Healthy)
      BY <1>2, <2>2 DEF WorkLeft
    <3>7. SumOf(pWork, Scoring!Healthy) \in Int /\ pClock \in Nat
      <4>1. \A q \in Scoring!Healthy :
              pWork[q] \in Int /\ pWork[q] \in Int /\ pWork[q] <= pWork[q]
        BY <1>2, HealthyRows
      <4>2. QED
        BY <1>2, <3>2, <4>1, SumsOrdered DEF PoolTyped
    <3>8. QED
      BY <3>5, <3>6, <3>7
  <2>3. QED
    BY <1>0, <1>1, <2>1, <2>2, WorkStays DEF WorkLeft
<1>9. Reported'
  BY <1>0, <1>1, <1>2 DEF Reported
<1>10. QED
  BY <1>5, <1>6, <1>7, <1>8, <1>9 DEF Goes

\* All tasks time out, and no healthy row is among those that still wait.
LEMMA PoolGivesUp ==
  ASSUME Mild, Goes, Scoring!TimeOut
  PROVE  Goes'
<1>0. Scored' = Scored
  BY DEF Scored, Scoring!Rows
<1>1. /\ pPc = "gather" /\ pClock = TaskTimeout /\ pQueue' = <<>>
      /\ pResult' = [r \in Scored |-> IF pResult[r] = "pending" THEN "None" ELSE pResult[r]]
      /\ UNCHANGED <<pPc, pWork, pClock, pRunning, pLeft, pScores>>
  BY DEF Scoring!TimeOut, Scored
<1>2. PoolTyped /\ TakenInOrder /\ Waited /\ WorkLeft /\ Reported
  BY DEF Goes
<1>3. Scoring!Living' = Scoring!Living
  BY <1>1 DEF Scoring!Living
<1>4. ASSUME NEW h \in Scoring!Healthy, pResult[h] = "pending" PROVE FALSE
  <2>1. pClock + SumOf(pLeft, Scoring!Healthy) <= SumOf(pWork, Scoring!Healthy)
    BY <1>2, <1>4 DEF WorkLeft
  <2>2. \A q \in Scoring!Healthy :
          /\ pLeft[q] \in Int /\ pLeft[q] \in Int /\ pLeft[q] <= pLeft[q] /\ pLeft[q] \in Nat
          /\ pWork[q] \in Int /\ pWork[q] \in Int /\ pWork[q] <= pWork[q]
    BY <1>2, HealthyRows DEF WorkLeft
  <2>3. SumOf(pLeft, Scoring!Healthy) \in Nat
    BY <1>2, <2>2, HealthyRows, SumsOrdered
  <2>4. SumOf(pWork, Scoring!Healthy) \in Int
    BY <1>2, <2>2, HealthyRows, SumsOrdered
  <2>5. SumOf(pWork, Scoring!Healthy) < TaskTimeout /\ TaskTimeout \in Nat
    BY PoolConstants DEF Mild
  <2>6. QED
    BY <1>1, <2>1, <2>3, <2>4, <2>5
<1>5. \A r \in Scored :
        /\ pResult'[r] \in {"score", "None"}
        /\ pResult'[r] = "score" => Scoring!IsHealthy(r)
        /\ pResult'[r] = "None" => ~ Scoring!IsHealthy(r)
  <2>1. \A r \in Scored : pResult[r] \in {"pending", "score", "None"}
    BY <1>2 DEF PoolTyped
  <2>2. \A r \in Scored : pResult[r] = "pending" => ~ Scoring!IsHealthy(r)
    BY <1>2, <1>4, HealthyRows
  <2>3. QED
    BY <1>1, <1>2, <2>1, <2>2 DEF Waited
<1>6. PoolTyped'
  <2>1. pResult' = [r \in Scored |-> pResult'[r]]
    BY <1>1
  <2>2. pResult' \in [Scored -> {"pending", "score", "None"}]
    BY <1>5, <2>1
  <2>3. QED
    BY <1>0, <1>1, <1>2, <1>3, <2>2 DEF PoolTyped
<1>7. TakenInOrder'
  <2>1. Len(pQueue') = 0 /\ ScoredRows \in Nat
    BY <1>1, PoolConstants
  <2>2. \A v \in Scoring!Living : pRunning[v] <= ScoredRows - 0
    BY <1>2, <2>1 DEF PoolTyped
  <2>3. QED
    BY <1>1, <1>2, <1>3, <2>1, <2>2 DEF TakenInOrder
<1>8. Waited'
  BY <1>0, <1>1, <1>2, <1>3, <1>5, WorkStays DEF Waited
<1>9. WorkLeft'
  <2>1. \A r \in Scoring!Healthy : pResult'[r] # "pending"
    BY <1>2, <1>5, HealthyRows
  <2>2. QED
    BY <1>0, <1>1, <1>2, <2>1, WorkStays DEF WorkLeft
<1>10. Reported'
  BY <1>1 DEF Reported
<1>11. QED
  BY <1>6, <1>7, <1>8, <1>9, <1>10 DEF Goes

\* The end of the evaluation.
LEMMA PoolEnds ==
  ASSUME Goes, Scoring!Gathered \/ Scoring!Terminate \/ Scoring!Shutdown
  PROVE  Goes'
<1>0. Scored' = Scored
  BY DEF Scored, Scoring!Rows
<1>1. /\ pPc' \in {"terminate", "shutdown", "scored"}
      /\ \A r \in Scored : pResult[r] # "pending"
      /\ pPc' = "scored" => pScores' = [r \in Scored |-> IF pResult[r] = "None" THEN 0 ELSE 1]
      /\ UNCHANGED <<pWork, pClock, pQueue, pLeft, pResult>>
  <2>1. Waited
    BY DEF Goes
  <2>2. CASE Scoring!Gathered
    BY <2>2 DEF Scoring!Gathered, Scoring!Pending, Scored
  <2>3. CASE Scoring!Terminate
    BY <2>1, <2>3 DEF Scoring!Terminate, Waited
  <2>4. CASE Scoring!Shutdown
    BY <2>1, <2>4 DEF Scoring!Shutdown, Waited, Scored
  <2>5. QED
    BY <2>2, <2>3, <2>4
<1>2. PoolTyped /\ TakenInOrder /\ Waited /\ WorkLeft /\ Reported
  BY DEF Goes
<1>3. /\ Scoring!Living' \in SUBSET Scoring!Living
      /\ pRunning' = [v \in Scoring!Living' |-> pRunning[v]]
  <2>1. pRunning = [v \in Scoring!Living |-> pRunning[v]]
    BY <1>2 DEF PoolTyped
  <2>2. CASE pRunning' = pRunning
    BY <2>1, <2>2 DEF Scoring!Living
  <2>3. ASSUME NEW w \in Scoring!Living,
               pRunning' = [v \in Scoring!Living \ {w} |-> pRunning[v]]
        PROVE  /\ Scoring!Living' \in SUBSET Scoring!Living
               /\ pRunning' = [v \in Scoring!Living' |-> pRunning[v]]
    BY <2>3 DEF Scoring!Living
  <2>4. QED
    BY <2>2, <2>3 DEF Scoring!Gathered, Scoring!Terminate, Scoring!Shutdown
<1>4. \A v \in Scoring!Living' : pRunning'[v] = pRunning[v] /\ pRunning[v] \in 0 .. ScoredRows
  BY <1>2, <1>3 DEF PoolTyped
<1>5. PoolTyped'
  <2>1. pRunning' \in [Scoring!Living' -> 0 .. ScoredRows]
    BY <1>3, <1>4
  <2>2. QED
    BY <1>0, <1>1, <1>2, <2>1 DEF PoolTyped
<1>6. TakenInOrder'
  BY <1>1, <1>2, <1>3, <1>4 DEF TakenInOrder
<1>7. Waited'
  BY <1>0, <1>1, <1>2, WorkStays DEF Waited
<1>8. WorkLeft'
  BY <1>0, <1>1, <1>2, WorkStays DEF WorkLeft
<1>9. Reported'
  BY <1>0, <1>1 DEF Reported
<1>10. QED
  BY <1>5, <1>6, <1>7, <1>8, <1>9 DEF Goes

\* Every step of the evaluation keeps it.
LEMMA PoolNext == PoolInv /\ [Reward(Scoring!Next)]_pVars => PoolInv'
<1> SUFFICES ASSUME PoolInv, [Reward(Scoring!Next)]_pVars, Mild' PROVE Goes'
  BY DEF PoolInv
<1>1. CASE UNCHANGED pVars
  <2>1. /\ UNCHANGED <<pPc, pWork, pClock, pQueue, pRunning, pLeft, pResult, pScores>>
        /\ Scored' = Scored /\ Scoring!Living' = Scoring!Living
    BY <1>1 DEF pVars, Scored, Scoring!Rows, Scoring!Living
  <2>2. Goes
    BY <2>1, WorkStays DEF PoolInv
  <2>3. PoolTyped'
    BY <2>1, <2>2 DEF Goes, PoolTyped
  <2>4. TakenInOrder' /\ Waited' /\ WorkLeft' /\ Reported'
    BY <2>1, <2>2, WorkStays DEF Goes, TakenInOrder, Waited, WorkLeft, Reported
  <2>5. QED
    BY <2>3, <2>4 DEF Goes
<1>2. CASE Scoring!Evaluate
  <2>1. pWork' = pWork
    BY <1>2 DEF Scoring!Evaluate, Scoring!Pool, Scoring!Take, Scoring!Complete, Scoring!Break,
       Scoring!Tick, Scoring!TimeOut, Scoring!Gathered, Scoring!Terminate, Scoring!Shutdown
  <2>2. Mild /\ Goes
    BY <2>1, WorkStays DEF PoolInv
  <2>3. CASE Scoring!Pool
    BY <2>2, <2>3, PoolTakes, PoolAnswers, PoolHolds DEF Scoring!Pool
  <2>4. CASE Scoring!Tick \/ Scoring!TimeOut
    BY <2>2, <2>4, PoolTicks, PoolGivesUp
  <2>5. QED
    BY <1>2, <2>2, <2>3, <2>4, PoolEnds DEF Scoring!Evaluate
<1>3. QED
  BY <1>1, <1>2 DEF Reward, Scoring!Next, Scoring!Over, Scoring!vars, pVars

\* The sum of the healthy rows' work.
LEMMA HealthyWork ==
  ASSUME IsFiniteSet(Scoring!Healthy)
  PROVE  Scoring!MapThenSumSet(LAMBDA r : pWork[r], Scoring!Healthy)
           = SumOf(pWork, Scoring!Healthy)
<1> DEFINE H == Scoring!Healthy
           Body(F) == [T \in SUBSET H |-> IF T = {} THEN 0 ELSE pWork[One(T)] + F[T \ {One(T)}]]
           G == CHOOSE F : F = Body(F)
           K == CHOOSE F : SumsUp(F, pWork, SUBSET H)
<1>1. Scoring!MapThenSumSet(LAMBDA r : pWork[r], H) = G[H]
  BY DEF Scoring!MapThenSumSet, Scoring!MapThenFoldSet, One
<1>2. \A F : F = Body(F) <=> SumsUp(F, pWork, SUBSET H)
  BY DEF SumsUp
<1>3. G = K
  BY DEF SumsUp
<1>4. SumOf(pWork, H) = K[H]
  BY DEF SumOf
<1>5. QED
  BY <1>1, <1>3, <1>4

\* A row that loops or raises costs no other row its score, whatever the number
\* of rows and processes, the times and the timeout.
THEOREM HealthyRowsAreScored == MCSpec => []HealthyRowsScored
<1>1. MCInit => PoolInv
  BY PoolInitially DEF MCInit
<1>2. PoolInv /\ [MCNext]_MCVars => PoolInv'
  <2>1. [MCNext]_MCVars => [Reward(Scoring!Next)]_pVars
    BY DEF MCNext, MCVars, Job, Gpu, Driving, Controlling, pVars
  <2>2. QED
    BY <2>1, PoolNext
<1>3. PoolInv => HealthyRowsScored
  <2> SUFFICES ASSUME PoolInv, pPc = "scored",
                      \A r \in Scoring!Rows : pWork[r] # Scoring!Dies,
                      Scoring!Cardinality({r \in Scoring!Rows : pWork[r] = Scoring!Loops})
                        < Scoring!Cardinality(PoolProcesses),
                      Scoring!MapThenSumSet(LAMBDA r : pWork[r], Scoring!Healthy) < TaskTimeout
               PROVE  \A r \in Scoring!Rows :
                        pScores[r] = IF Scoring!IsHealthy(r) THEN 1 ELSE 0
    BY DEF HealthyRowsScored, Scoring!HealthyRowsScored
  <2>1. IsFiniteSet(Scoring!Healthy)
    <3>1. Scoring!Healthy \in SUBSET Scored
      BY DEF Scoring!Healthy, Scored
    <3>2. QED
      BY <3>1, PoolConstants, FS_Subset
  <2>2. Cardinality(Looping) < Cardinality(PoolProcesses)
    BY DEF Scoring!Cardinality, Cardinality, Scoring!IsFiniteSet, IsFiniteSet, Looping, Scored
  <2>3. Mild
    BY <2>1, <2>2, HealthyWork DEF Mild, Scored
  <2>4. PoolTyped /\ Waited /\ Reported
    BY <2>3 DEF PoolInv, Goes
  <2>5. ASSUME NEW r \in Scored PROVE pScores[r] = IF Scoring!IsHealthy(r) THEN 1 ELSE 0
    <3>1. pResult[r] \in {"score", "None"}
      BY <2>4, <2>5 DEF PoolTyped, Waited
    <3>2. pScores[r] = IF pResult[r] = "None" THEN 0 ELSE 1
      BY <2>4, <2>5 DEF Reported
    <3>3. QED
      BY <2>4, <2>5, <3>1, <3>2 DEF Waited
  <2>6. QED
    BY <2>5 DEF Scored
<1>4. QED
  BY <1>1, <1>2, <1>3, PTL DEF MCSpec
------------------------------------------------------------------------------
(* Offloading (ActivationOffload), first the host.  With all layers but the  *)
(* last offloaded the window of group i ends at the commit of layer i + 1,   *)
(* so the whole state of the handler follows from the layer it is at.        *)

Last == ModelLayers - 1

\* What has become of the groups of the layers behind and before.
Handled ==
  /\ oPc = "push" =>
       /\ oCurrent \in 0 .. Last
       /\ oOffloaded = (IF oCurrent = 0 THEN 0 ELSE oCurrent - 1)
       /\ oState = [g \in Offload!Groups |-> IF g < oCurrent THEN "cpu" ELSE "none"]
       /\ oBuf = {g \in Offload!Groups : g = oCurrent - 1}
  /\ oPc = "commit" =>
       /\ oCurrent \in 0 .. Last
       /\ oOffloaded = (IF oCurrent = 0 THEN 0 ELSE oCurrent - 1)
       /\ oState = [g \in Offload!Groups |-> IF g < oCurrent THEN "cpu"
                                             ELSE IF g = oCurrent THEN "fwd" ELSE "none"]
       /\ oBuf = {g \in Offload!Groups : g \in {oCurrent - 1, oCurrent} /\ g < Last}
  /\ oPc = "uncommit" =>
       /\ oCurrent \in 1 .. ModelLayers
       /\ oOffloaded = (IF oCurrent = 1 THEN 1 ELSE oCurrent - 1)
       /\ oState = [g \in Offload!Groups |->
            IF g < oCurrent - 1 THEN "cpu" ELSE IF g > oCurrent - 1 THEN "none"
            ELSE IF g = Last THEN "fwd" ELSE "back"]
       /\ oBuf = {}
  /\ oPc = "pop" =>
       /\ oCurrent \in 0 .. Last
       /\ oOffloaded = (IF oCurrent <= 1 THEN oCurrent ELSE oCurrent - 1)
       /\ oState = [g \in Offload!Groups |->
            IF g < oCurrent - 1 THEN "cpu" ELSE IF g > oCurrent THEN "none"
            ELSE IF g = Last THEN "fwd" ELSE "back"]
       /\ oBuf = {}
  /\ oPc = "done" =>
       oState = [g \in Offload!Groups |-> "none"] /\ oBuf = {}
  /\ oPc \in {"push", "commit", "uncommit", "pop", "done"}

\* One group a layer, and at least two of them.
LEMMA ManyLayers ==
  /\ ModelLayers \in Nat /\ ModelLayers >= 2 /\ Last \in Nat /\ Last >= 1
  /\ Offload!Groups = 0 .. Last /\ MicroBatches \in Nat \ {0}
BY StepAssumption DEF Offload!ActivationOffloadAssumption, Offload!Groups, Last

\* The window of a group ends one layer on.
LEMMA NextWindow == \A i \in 0 .. Last - 1 : Offload!WindowEnd(i) = i + 1
<1>1. CASE ModelLayers = 2
  <2>1. ModelLayers \div (ModelLayers - 1) = 2 /\ ModelLayers % (ModelLayers - 1) = 0
    BY <1>1
  <2>2. Last - 1 = 0
    BY <1>1 DEF Last
  <2>3. QED
    BY <2>1, <2>2 DEF Offload!WindowEnd
<1>2. CASE ModelLayers > 2
  <2> DEFINE d == ModelLayers \div (ModelLayers - 1)
             e == ModelLayers % (ModelLayers - 1)
  <2>1. d = 1 /\ e = 1
    BY <1>2, ManyLayers, SMTT(30)
  <2>2. \A i : Offload!WindowEnd(i) = d * (i + 1) - 1 + (IF i < e THEN i + 1 ELSE e)
    BY DEF Offload!WindowEnd
  <2> HIDE DEF d, e
  <2>3. QED
    BY <2>1, <2>2, ManyLayers
<1>3. QED
  BY <1>1, <1>2, ManyLayers

\* Every handler starts with the first layer and nothing offloaded.
LEMMA HandledInitially == Offload!Init => Handled
BY ManyLayers DEF Offload!Init, Handled

\* tensor_push keeps what becomes of the groups, ...
LEMMA HandledPush == Handled /\ Offload!TensorPush => Handled'
<1> SUFFICES ASSUME Handled, Offload!TensorPush PROVE Handled'
  OBVIOUS
<1>1. /\ oPc = "push" /\ oPc' = "commit" /\ oState' = [oState EXCEPT ![oCurrent] = "fwd"]
      /\ oBuf' = IF oCurrent < Last THEN oBuf \cup {oCurrent} ELSE oBuf
      /\ UNCHANGED <<oCurrent, oOffloaded>>
  BY DEF Offload!TensorPush, Last
<1>2. /\ oCurrent \in 0 .. Last /\ oOffloaded = (IF oCurrent = 0 THEN 0 ELSE oCurrent - 1)
      /\ oState = [g \in Offload!Groups |-> IF g < oCurrent THEN "cpu" ELSE "none"]
      /\ oBuf = {g \in Offload!Groups : g = oCurrent - 1}
  BY <1>1 DEF Handled
<1>3. oState' = [g \in Offload!Groups |-> IF g < oCurrent THEN "cpu"
                                           ELSE IF g = oCurrent THEN "fwd" ELSE "none"]
  BY <1>1, <1>2, ManyLayers
<1>4. oBuf' = {g \in Offload!Groups : g \in {oCurrent - 1, oCurrent} /\ g < Last}
  <2>1. CASE oCurrent < Last
    BY <1>1, <1>2, <2>1, ManyLayers
  <2>2. CASE oCurrent = Last
    <3>1. oBuf' = oBuf
      BY <1>1, <1>2, <2>2, ManyLayers
    <3>2. \A g \in Offload!Groups : g = oCurrent - 1 <=> g \in {oCurrent - 1, oCurrent} /\ g < Last
      BY <1>2, <2>2, ManyLayers
    <3>3. QED
      BY <1>2, <3>1, <3>2
  <2>3. QED
    BY <1>2, <2>1, <2>2, ManyLayers
<1>5. Offload!Groups' = Offload!Groups
  BY DEF Offload!Groups
<1>6. QED
  BY <1>1, <1>2, <1>3, <1>4, <1>5 DEF Handled

\* What a commit of the forward pass does depends on its layer alone.
LEMMA Committing ==
  ASSUME Handled, oPc = "commit", oOffloaded < Last
  PROVE  /\ oCurrent \in 0 .. Last /\ oOffloaded = (IF oCurrent = 0 THEN 0 ELSE oCurrent - 1)
         /\ oState = [g \in Offload!Groups |-> IF g < oCurrent THEN "cpu"
                                               ELSE IF g = oCurrent THEN "fwd" ELSE "none"]
         /\ oBuf = {g \in Offload!Groups : g \in {oCurrent - 1, oCurrent} /\ g < Last}
         /\ Offload!AtWindowEnd <=> oCurrent # 0
         /\ oCurrent < Last => Offload!Leaving = {oCurrent}
         /\ oCurrent = Last => Offload!Leaving = {}
<1>2. /\ oCurrent \in 0 .. Last /\ oOffloaded = (IF oCurrent = 0 THEN 0 ELSE oCurrent - 1)
      /\ oState = [g \in Offload!Groups |-> IF g < oCurrent THEN "cpu"
                                            ELSE IF g = oCurrent THEN "fwd" ELSE "none"]
      /\ oBuf = {g \in Offload!Groups : g \in {oCurrent - 1, oCurrent} /\ g < Last}
  BY DEF Handled
<1>3. /\ Offload!AtWindowEnd <=> oCurrent # 0
      /\ oCurrent < Last => Offload!Leaving = {oCurrent}
      /\ oCurrent = Last => Offload!Leaving = {}
  <2>1. Offload!WindowEnd(oOffloaded) = oOffloaded + 1
    BY <1>2, NextWindow, ManyLayers
  <2>2. Offload!AtWindowEnd <=> oCurrent # 0
    BY <1>2, <2>1, ManyLayers DEF Offload!AtWindowEnd
  <2>3. QED
    BY <1>2, <2>2, ManyLayers DEF Offload!Leaving, Last
<1>4. QED
  BY <1>2, <1>3, Zenon

\* ... so does a commit of the forward pass, ...
LEMMA HandledCommit == Handled /\ Offload!CommitForward => Handled'
<1> SUFFICES ASSUME Handled, Offload!CommitForward PROVE Handled'
  OBVIOUS
<1>1. /\ oPc = "commit" /\ oOffloaded < Last
      /\ oState' = [g \in Offload!Groups |->
           IF g \in Offload!Leaving /\ oState[g] = "fwd" THEN "cpu" ELSE oState[g]]
      /\ IF Offload!AtWindowEnd THEN oBuf' = oBuf \ {oOffloaded} /\ oOffloaded' = oOffloaded + 1
                                ELSE UNCHANGED <<oBuf, oOffloaded>>
      /\ oCurrent' = oCurrent + 1
      /\ oPc' = IF oCurrent + 1 = ModelLayers THEN "uncommit" ELSE "push"
  BY DEF Offload!CommitForward, Last
<1>2. /\ oCurrent \in 0 .. Last /\ oOffloaded = (IF oCurrent = 0 THEN 0 ELSE oCurrent - 1)
      /\ oState = [g \in Offload!Groups |-> IF g < oCurrent THEN "cpu"
                                            ELSE IF g = oCurrent THEN "fwd" ELSE "none"]
      /\ oBuf = {g \in Offload!Groups : g \in {oCurrent - 1, oCurrent} /\ g < Last}
  BY <1>1, Committing
<1>3. /\ Offload!AtWindowEnd <=> oCurrent # 0
      /\ oCurrent < Last => Offload!Leaving = {oCurrent}
      /\ oCurrent = Last => Offload!Leaving = {}
  BY <1>1, Committing
<1>4. oState' = [g \in Offload!Groups |-> IF g < oCurrent \/ (g = oCurrent /\ oCurrent < Last)
                                          THEN "cpu" ELSE IF g = oCurrent THEN "fwd" ELSE "none"]
  BY <1>1, <1>2, <1>3, ManyLayers
<1>5. oBuf' = {g \in Offload!Groups : g = oCurrent /\ g < Last}
  BY <1>1, <1>2, <1>3, ManyLayers
<1>6. oOffloaded' = oCurrent
  BY <1>1, <1>2, <1>3, ManyLayers
<1>7. CASE oCurrent < Last
  <2>1. oPc' = "push" /\ oCurrent' \in 0 .. Last
    BY <1>1, <1>2, <1>7, ManyLayers DEF Last
  <2>2. oOffloaded' = oCurrent' - 1 /\ oCurrent' # 0
    BY <1>1, <1>2, <1>6, ManyLayers
  <2>3. oState' = [g \in Offload!Groups |-> IF g < oCurrent' THEN "cpu" ELSE "none"]
    BY <1>1, <1>2, <1>4, <1>7, ManyLayers
  <2>4. oBuf' = {g \in Offload!Groups : g = oCurrent' - 1}
    BY <1>1, <1>2, <1>5, <1>7, ManyLayers
  <2>5. QED
    BY <2>1, <2>2, <2>3, <2>4 DEF Handled, Offload!Groups
<1>8. CASE oCurrent = Last
  <2>1. oPc' = "uncommit" /\ oCurrent' = ModelLayers
    BY <1>1, <1>8, ManyLayers DEF Last
  <2>2. oOffloaded' = ModelLayers - 1
    BY <1>6, <1>8 DEF Last
  <2>3. oState' = [g \in Offload!Groups |->
            IF g < ModelLayers - 1 THEN "cpu" ELSE IF g > ModelLayers - 1 THEN "none"
            ELSE IF g = Last THEN "fwd" ELSE "back"]
    BY <1>4, <1>8, ManyLayers DEF Last
  <2>4. oBuf' = {}
    BY <1>5, <1>8, ManyLayers
  <2>5. QED
    BY <2>1, <2>2, <2>3, <2>4, ManyLayers DEF Handled, Offload!Groups
<1>9. QED
  BY <1>2, <1>7, <1>8, ManyLayers

\* And so does a commit of the backward pass.
LEMMA Uncommitting ==
  ASSUME Handled, oPc = "uncommit"
  PROVE  /\ oCurrent \in 1 .. ModelLayers
         /\ oOffloaded = (IF oCurrent = 1 THEN 1 ELSE oCurrent - 1)
         /\ oState = [g \in Offload!Groups |->
              IF g < oCurrent - 1 THEN "cpu" ELSE IF g > oCurrent - 1 THEN "none"
              ELSE IF g = Last THEN "fwd" ELSE "back"]
         /\ oBuf = {}
         /\ oCurrent - 1 \in 0 .. Last /\ oOffloaded - 1 \in 0 .. Last - 1
         /\ Offload!WindowEnd(oOffloaded - 1) = oCurrent - 1 <=> oCurrent - 1 # 0
         /\ oCurrent - 1 # 0 => oOffloaded - 1 = oCurrent - 2
<1>1. /\ oCurrent \in 1 .. ModelLayers
      /\ oOffloaded = (IF oCurrent = 1 THEN 1 ELSE oCurrent - 1)
      /\ oState = [g \in Offload!Groups |->
            IF g < oCurrent - 1 THEN "cpu" ELSE IF g > oCurrent - 1 THEN "none"
            ELSE IF g = Last THEN "fwd" ELSE "back"]
      /\ oBuf = {}
  BY DEF Handled
<1>2. oOffloaded - 1 \in 0 .. Last - 1 /\ oCurrent - 1 \in 0 .. Last
  BY <1>1, ManyLayers DEF Last
<1>3. Offload!WindowEnd(oOffloaded - 1) = (oOffloaded - 1) + 1
  BY <1>2, NextWindow
<1>4. /\ Offload!WindowEnd(oOffloaded - 1) = oCurrent - 1 <=> oCurrent - 1 # 0
      /\ oCurrent - 1 # 0 => oOffloaded - 1 = oCurrent - 2
  BY <1>1, <1>2, <1>3, ManyLayers
<1>5. QED
  BY <1>1, <1>2, <1>4, Zenon

\* ... one of the backward pass, ...
LEMMA HandledUncommit == Handled /\ Offload!CommitBackward => Handled'
<1> SUFFICES ASSUME Handled, Offload!CommitBackward PROVE Handled'
  OBVIOUS
<1> DEFINE layer == oCurrent - 1
           group == oOffloaded - 1
           returns == Offload!WindowEnd(group) = layer
<1>1. /\ oPc = "uncommit" /\ oOffloaded > 0 /\ oPc' = "pop" /\ oCurrent' = layer
      /\ oState' = [g \in Offload!Groups |->
              IF returns /\ g = group /\ oState[g] = "cpu" THEN "back" ELSE oState[g]]
      /\ oOffloaded' = IF layer = 0 THEN 0
                         ELSE IF returns /\ oOffloaded > 1 THEN group ELSE oOffloaded
      /\ oBuf' = oBuf
  BY DEF Offload!CommitBackward
<1>2. /\ oCurrent \in 1 .. ModelLayers
      /\ oOffloaded = (IF oCurrent = 1 THEN 1 ELSE oCurrent - 1)
      /\ oState = [g \in Offload!Groups |->
            IF g < oCurrent - 1 THEN "cpu" ELSE IF g > oCurrent - 1 THEN "none"
            ELSE IF g = Last THEN "fwd" ELSE "back"]
      /\ oBuf = {}
  BY <1>1, Uncommitting
<1>3. layer \in 0 .. Last /\ group \in 0 .. Last - 1 /\ (returns <=> layer # 0)
      /\ (layer # 0 => group = layer - 1)
  <2>1. /\ layer \in 0 .. Last /\ group \in 0 .. Last - 1 /\ (returns <=> layer # 0)
        /\ layer # 0 => group = oCurrent - 2
    BY <1>1, Uncommitting
  <2>2. oCurrent - 2 = layer - 1
    BY <1>2
  <2>3. QED
    BY <2>1, <2>2
<1> HIDE DEF returns
<1>4. oOffloaded' = (IF layer <= 1 THEN layer ELSE layer - 1)
  BY <1>1, <1>2, <1>3, ManyLayers
<1>5. oState' = [g \in Offload!Groups |->
            IF g < layer - 1 THEN "cpu" ELSE IF g > layer THEN "none"
            ELSE IF g = Last THEN "fwd" ELSE "back"]
  BY <1>1, <1>2, <1>3, ManyLayers
<1>6. oBuf' = {} /\ oCurrent' \in 0 .. Last /\ Offload!Groups' = Offload!Groups
  BY <1>1, <1>2, <1>3 DEF Offload!Groups
<1>7. /\ oOffloaded' = (IF oCurrent' <= 1 THEN oCurrent' ELSE oCurrent' - 1)
      /\ oState' = [g \in Offload!Groups |->
            IF g < oCurrent' - 1 THEN "cpu" ELSE IF g > oCurrent' THEN "none"
            ELSE IF g = Last THEN "fwd" ELSE "back"]
  BY <1>1, <1>4, <1>5
<1> HIDE DEF layer, group
<1>8. QED
  BY <1>1, <1>6, <1>7 DEF Handled

\* ... and tensor_pop.
LEMMA HandledPop == Handled /\ Offload!TensorPop => Handled'
<1> SUFFICES ASSUME Handled, Offload!TensorPop PROVE Handled'
  OBVIOUS
<1>1. /\ oPc = "pop" /\ oState' = [oState EXCEPT ![oCurrent] = "none"]
      /\ oBuf' = oBuf \ {oCurrent}
      /\ oPc' = (IF oCurrent > 0 THEN "uncommit" ELSE IF oPass < MicroBatches THEN "push" ELSE "done")
      /\ UNCHANGED <<oCurrent, oOffloaded>>
  BY DEF Offload!TensorPop
<1>2. /\ oCurrent \in 0 .. Last
      /\ oOffloaded = (IF oCurrent <= 1 THEN oCurrent ELSE oCurrent - 1)
      /\ oState = [g \in Offload!Groups |->
            IF g < oCurrent - 1 THEN "cpu" ELSE IF g > oCurrent THEN "none"
            ELSE IF g = Last THEN "fwd" ELSE "back"]
      /\ oBuf = {}
  BY <1>1 DEF Handled
<1>3. oState' = [g \in Offload!Groups |->
            IF g < oCurrent - 1 THEN "cpu" ELSE IF g > oCurrent - 1 THEN "none"
            ELSE IF g = Last THEN "fwd" ELSE "back"]
  BY <1>1, <1>2, ManyLayers
<1>4. oBuf' = {}
  BY <1>1, <1>2
<1>5. CASE oCurrent > 0
  <2>1. /\ oPc' = "uncommit" /\ oCurrent' = oCurrent /\ oCurrent' \in 1 .. ModelLayers
        /\ oOffloaded' = (IF oCurrent' = 1 THEN 1 ELSE oCurrent' - 1)
        /\ Offload!Groups' = Offload!Groups
    BY <1>1, <1>2, <1>5, ManyLayers DEF Offload!Groups, Last
  <2>2. oState' = [g \in Offload!Groups |->
            IF g < oCurrent' - 1 THEN "cpu" ELSE IF g > oCurrent' - 1 THEN "none"
            ELSE IF g = Last THEN "fwd" ELSE "back"]
    BY <1>3, <2>1
  <2>3. QED
    BY <1>4, <2>1, <2>2 DEF Handled
<1>6. CASE oCurrent = 0
  <2>1. oState' = [g \in Offload!Groups |-> "none"]
    BY <1>3, <1>6, ManyLayers
  <2>2. oState' = [g \in Offload!Groups |-> IF g < 0 THEN "cpu" ELSE "none"]
    BY <2>1, ManyLayers
  <2>3. {g \in Offload!Groups : g = 0 - 1} = {}
    BY ManyLayers
  <2>4. QED
    BY <1>1, <1>2, <1>4, <1>6, <2>1, <2>2, <2>3, ManyLayers DEF Handled, Offload!Groups
<1>7. QED
  BY <1>2, <1>5, <1>6, ManyLayers

\* The groups on the device are those of at most two layers.
LEMMA TwoHeld ==
  ASSUME Handled
  PROVE  \E a, b : Offload!Held("fwd") \cup Offload!Held("back") \in SUBSET {a, b}
<1>1. Offload!Held("fwd") = {g \in Offload!Groups : oState[g] = "fwd"} \cup oBuf
      /\ Offload!Held("back") = {g \in Offload!Groups : oState[g] = "back"}
  BY DEF Offload!Held
<1>2. oPc = "push" \/ oPc = "commit" \/ oPc = "uncommit" \/ oPc = "pop" \/ oPc = "done"
  BY DEF Handled
<1>3. CASE oPc \in {"push", "done"}
  <2>1. \A g \in Offload!Groups : oState[g] \notin {"fwd", "back"}
    BY <1>3 DEF Handled
  <2>2. \A g \in oBuf : g = oCurrent - 1
    BY <1>3 DEF Handled
  <2>3. Offload!Held("fwd") \cup Offload!Held("back") \in SUBSET {oCurrent - 1, oCurrent - 1}
    BY <1>1, <2>1, <2>2
  <2>4. QED
    BY <2>3
<1>4. CASE oPc = "commit"
  <2>1. \A g \in Offload!Groups : oState[g] # "back" /\ (oState[g] = "fwd" => g = oCurrent)
    BY <1>4 DEF Handled
  <2>2. \A g \in oBuf : g \in {oCurrent - 1, oCurrent}
    BY <1>4 DEF Handled
  <2>3. Offload!Held("fwd") \cup Offload!Held("back") \in SUBSET {oCurrent - 1, oCurrent}
    BY <1>1, <2>1, <2>2
  <2>4. QED
    BY <2>3
<1>5. CASE oPc \in {"uncommit", "pop"}
  <2>1. \A g \in Offload!Groups : oState[g] \in {"fwd", "back"} => g \in {oCurrent - 1, oCurrent}
    BY <1>5, ManyLayers DEF Handled
  <2>2. oBuf = {}
    BY <1>5 DEF Handled
  <2>3. Offload!Held("fwd") \cup Offload!Held("back") \in SUBSET {oCurrent - 1, oCurrent}
    BY <1>1, <2>1, <2>2
  <2>4. QED
    BY <2>3
<1>6. QED
  BY <1>2, <1>3, <1>4, <1>5

\* Two things are at most two things.
LEMMA AtMostTwo ==
  ASSUME NEW a, NEW b, NEW S \in SUBSET {a, b}
  PROVE  Cardinality(S) <= 2
<1>1. IsFiniteSet({a}) /\ Cardinality({a}) = 1 /\ IsFiniteSet({b}) /\ Cardinality({b}) = 1
  BY FS_Singleton
<1>2. IsFiniteSet({a} \cup {b})
      /\ Cardinality({a} \cup {b})
           = Cardinality({a}) + Cardinality({b}) - Cardinality({a} \cap {b})
  BY <1>1, FS_Union
<1>3. Cardinality({a} \cap {b}) \in Nat
  <2>1. IsFiniteSet({a} \cap {b})
    BY <1>1, FS_Subset
  <2>2. QED
    BY <2>1, FS_CardinalityType
<1>4. S \in SUBSET ({a} \cup {b})
  OBVIOUS
<1>5. IsFiniteSet(S) /\ Cardinality(S) <= Cardinality({a} \cup {b})
  BY <1>2, <1>4, FS_Subset
<1>6. Cardinality(S) \in Nat
  BY <1>5, FS_CardinalityType
<1>7. QED
  BY <1>1, <1>2, <1>3, <1>5, <1>6

------------------------------------------------------------------------------
(* The streams.  What one has run makes another have run what it waited for; *)
(* "needs" says so of any numbers of operations that respect the waits of a  *)
(* log, which makes it transitive, and true of every longer log.             *)

Lanes  == Offload!Streams
Cells  == Offload!Places \X Offload!Groups
Tasks  == [from : Offload!Places \cup {"none"}, to : Offload!Places \cup {"none"},
           group : Offload!Groups, pass : Nat, over : SUBSET Cells]
Waits  == [on : Lanes, upTo : Nat]
Logs   == [Lanes -> Seq(Tasks \cup Waits)]

\* The only stream that writes in a place.
Writer(p) == IF p = "fwd" THEN "compute" ELSE IF p = "cpu" THEN "d2h" ELSE "h2d"

Respects(l, r) ==
  \A s \in Lanes : \A k \in 1 .. Len(l[s]) :
    k <= r[s] /\ l[s][k] \in Waits => r[l[s][k].on] >= l[s][k].upTo

\* Stream s has run i operations only when stream t has run j.
Needs(l, s, i, t, j) ==
  \A r \in [Lanes -> Nat] : Respects(l, r) /\ r[s] >= i => r[t] >= j

Writes(e, p, g, q) == e \in Tasks /\ e.to = p /\ e.group = g /\ e.pass = q
Touches(e, p, g)   == e \in Tasks /\ ((e.to = p /\ e.group = g) \/ <<p, g>> \in e.over)
Reads(e, p, g)     == e \in Tasks /\ e.from = p /\ e.group = g

\* The j-th operation on p's writer wrote g there in pass q, and none after it
\* touches it.
Made(l, p, g, q, j) ==
  /\ j \in 1 .. Len(l[Writer(p)]) /\ Writes(l[Writer(p)][j], p, g, q)
  /\ \A k \in j + 1 .. Len(l[Writer(p)]) : ~ Touches(l[Writer(p)][k], p, g)

\* What is put on stream s next comes after that.
Ready(l, s, p, g, q) ==
  \E j \in Nat : Made(l, p, g, q, j) /\ Needs(l, s, Len(l[s]), Writer(p), j)

\* What a read finds is written before, and touched again only after it.
RaceFree(l, s, i, p, g) ==
  \E j \in 1 .. Len(l[Writer(p)]) :
    /\ Writes(l[Writer(p)][j], p, g, l[s][i].pass)
    /\ Needs(l, s, i - 1, Writer(p), j)
    /\ \A k \in j + 1 .. Len(l[Writer(p)]) :
         Touches(l[Writer(p)][k], p, g) => Needs(l, Writer(p), k, s, i)

Ordered(l) ==
  /\ l \in Logs
  /\ \A s \in Lanes : \A i \in 1 .. Len(l[s]) : \A p \in Offload!Places, g \in Offload!Groups :
       /\ Touches(l[s][i], p, g) => s = Writer(p)
       /\ Reads(l[s][i], p, g) => RaceFree(l, s, i, p, g)

More(l, s, e) == [l EXCEPT ![s] = Append(l[s], e)]

\* An entry is an operation or a wait, and never both.
LEMMA Kinds ==
  /\ \A e \in Waits : Offload!IsWait(e) /\ e \notin Tasks /\ e.on \in Lanes /\ e.upTo \in Nat
  /\ \A e \in Tasks : ~ Offload!IsWait(e) /\ e \notin Waits
  /\ \A p \in Offload!Places : Writer(p) \in Lanes
<1>1. \A e \in Waits : "on" \in DOMAIN e /\ e.on \in Lanes /\ e.upTo \in Nat
  BY DEF Waits
<1>2. \A e \in Tasks : "on" \notin DOMAIN e
  BY DEF Tasks
<1>3. QED
  BY <1>1, <1>2 DEF Offload!IsWait, Writer, Lanes, Offload!Streams

\* m is l with one more entry.
Continues(m, l, s, e) ==
  /\ m \in Logs
  /\ \A t \in Lanes : Len(l[t]) \in Nat
  /\ \A t \in Lanes : Len(m[t]) = IF t = s THEN Len(l[t]) + 1 ELSE Len(l[t])
  /\ \A t \in Lanes : \A i \in 1 .. Len(l[t]) : m[t][i] = l[t][i]
  /\ m[s][Len(l[s]) + 1] = e

\* Putting an entry on a stream adds it at that stream's end.
LEMMA OneMore ==
  ASSUME NEW l \in Logs, NEW s \in Lanes, NEW e \in Tasks \cup Waits
  PROVE  Continues(More(l, s, e), l, s, e)
<1>1. \A t \in Lanes : l[t] \in Seq(Tasks \cup Waits)
  BY DEF Logs
<1>2. Append(l[s], e) \in Seq(Tasks \cup Waits) /\ Len(Append(l[s], e)) = Len(l[s]) + 1
      /\ (\A i \in 1 .. Len(l[s]) : Append(l[s], e)[i] = l[s][i])
      /\ Append(l[s], e)[Len(l[s]) + 1] = e
  <2>1. l[s] \in Seq(Tasks \cup Waits)
    BY <1>1
  <2> HIDE DEF Tasks, Waits
  <2>2. QED
    BY <2>1
<1>3. \A t \in Lanes : More(l, s, e)[t] = IF t = s THEN Append(l[s], e) ELSE l[t]
  BY DEF More, Logs
<1>4. More(l, s, e) \in Logs
  BY <1>1, <1>2 DEF More, Logs
<1>5. \A t \in Lanes : Len(l[t]) \in Nat
  BY <1>1
<1>6. QED
  BY <1>2, <1>3, <1>4, <1>5 DEF Continues

\* An order of streams stays, reaches further back, and is transitive.
LEMMA NeedsKept ==
  ASSUME NEW l \in Logs, NEW s \in Lanes, NEW e \in Tasks \cup Waits,
         NEW t, NEW i, NEW u, NEW j, Needs(l, t, i, u, j)
  PROVE  Needs(More(l, s, e), t, i, u, j)
<1>1. \A r \in [Lanes -> Nat] : Respects(More(l, s, e), r) => Respects(l, r)
  <2> SUFFICES ASSUME NEW r \in [Lanes -> Nat], Respects(More(l, s, e), r),
                      NEW v \in Lanes, NEW k \in 1 .. Len(l[v]), k <= r[v], l[v][k] \in Waits
               PROVE  r[l[v][k].on] >= l[v][k].upTo
    BY DEF Respects
  <2>0. /\ Len(l[v]) \in Nat /\ More(l, s, e)[v][k] = l[v][k]
        /\ Len(More(l, s, e)[v]) = IF v = s THEN Len(l[v]) + 1 ELSE Len(l[v])
    BY OneMore DEF Continues
  <2>1. k \in 1 .. Len(More(l, s, e)[v]) /\ More(l, s, e)[v][k] = l[v][k]
    BY <2>0
  <2>2. QED
    BY <2>1 DEF Respects
<1>2. QED
  BY <1>1 DEF Needs

\* To have run more needs no less, and needs also what comes before.
LEMMA NeedsLess ==
  ASSUME NEW l, NEW s \in Lanes, NEW i \in Int, NEW t \in Lanes, NEW j \in Int,
         NEW k \in Int, i <= k, NEW m \in Int, m <= j, Needs(l, s, i, t, j)
  PROVE  Needs(l, s, k, t, m)
<1> SUFFICES ASSUME NEW r \in [Lanes -> Nat], Respects(l, r), r[s] >= k PROVE r[t] >= m
  BY DEF Needs
<1>1. r[s] \in Nat /\ r[t] \in Nat
  OBVIOUS
<1>2. r[s] >= i
  BY <1>1
<1>3. r[t] >= j
  BY <1>2 DEF Needs
<1>4. QED
  BY <1>1, <1>3

\* What another stream needs is needed, too.
LEMMA NeedsThrough ==
  ASSUME NEW l, NEW s, NEW i, NEW t, NEW j, NEW u, NEW k,
         Needs(l, s, i, t, j), Needs(l, t, j, u, k)
  PROVE  Needs(l, s, i, u, k)
BY DEF Needs

\* A stream has run what it has run.
LEMMA NeedsItself == \A l, s, i : Needs(l, s, i, s, i)
BY DEF Needs

\* What is ready stays so while nothing touches it.
LEMMA ReadyKept ==
  ASSUME NEW l \in Logs, NEW s \in Lanes, NEW e \in Tasks \cup Waits,
         NEW t \in Lanes, NEW p \in Offload!Places, NEW g, NEW q, Ready(l, t, p, g, q),
         s = Writer(p) => ~ Touches(e, p, g)
  PROVE  Ready(More(l, s, e), t, p, g, q)
<1> DEFINE m == More(l, s, e)
           w == Writer(p)
<1>1. PICK j \in Nat : Made(l, p, g, q, j) /\ Needs(l, t, Len(l[t]), w, j)
  BY DEF Ready
<1>2. w \in Lanes
  BY Kinds
<1>0. Continues(m, l, s, e)
  BY OneMore
<1> HIDE DEF m
<1>3. /\ \A u \in Lanes : Len(l[u]) \in Nat
      /\ \A u \in Lanes : Len(m[u]) = IF u = s THEN Len(l[u]) + 1 ELSE Len(l[u])
      /\ \A u \in Lanes : \A i \in 1 .. Len(l[u]) : m[u][i] = l[u][i]
      /\ m[s][Len(l[s]) + 1] = e
  BY <1>0 DEF Continues
<1>4. j \in 1 .. Len(m[w]) /\ Writes(m[w][j], p, g, q)
  BY <1>1, <1>2, <1>3 DEF Made
<1>5. ASSUME NEW k \in j + 1 .. Len(m[w]) PROVE ~ Touches(m[w][k], p, g)
  <2>1. k \in j + 1 .. Len(l[w]) \/ (w = s /\ k = Len(l[s]) + 1)
    BY <1>2, <1>3
  <2>2. k \in j + 1 .. Len(l[w]) => k \in 1 .. Len(l[w])
    OBVIOUS
  <2>3. QED
    BY <1>1, <1>2, <1>3, <2>1, <2>2 DEF Made
<1>6. Needs(m, t, Len(m[t]), w, j)
  <2>1. Needs(m, t, Len(l[t]), w, j)
    BY <1>1, NeedsKept DEF m
  <2>2. Len(l[t]) <= Len(m[t]) /\ Len(l[t]) \in Int /\ Len(m[t]) \in Int
    BY <1>3
  <2> HIDE DEF w
  <2>3. QED
    BY <1>2, <2>1, <2>2, NeedsLess
<1>7. QED
  BY <1>4, <1>5, <1>6 DEF Made, Ready, m

\* A wait changes nothing, but what comes after it comes after all that is on the
\* other stream.
LEMMA OneWait ==
  ASSUME NEW l, Ordered(l), NEW s \in Lanes, NEW t \in Lanes
  PROVE  /\ Offload!WaitFor(l, s, t) = More(l, s, Offload!Wait(t, Len(l[t])))
         /\ Offload!Wait(t, Len(l[t])) \in Waits
         /\ Ordered(Offload!WaitFor(l, s, t))
         /\ s # t => Needs(Offload!WaitFor(l, s, t), s, Len(Offload!WaitFor(l, s, t)[s]),
                           t, Len(Offload!WaitFor(l, s, t)[t]))
<1> DEFINE e == Offload!Wait(t, Len(l[t]))
           m == More(l, s, e)
<1>1. l \in Logs
  BY DEF Ordered
<1>2. \A u \in Lanes : Len(l[u]) \in Nat
  BY <1>1 DEF Logs
<1>3. e \in Waits /\ e \notin Tasks /\ e.on = t /\ e.upTo = Len(l[t])
  BY <1>2 DEF Offload!Wait, Waits, Tasks
<1> HIDE DEF e
<1>0. Continues(m, l, s, e)
  BY <1>1, <1>3, OneMore
<1> HIDE DEF m
<1>4. /\ m \in Logs
      /\ \A u \in Lanes : Len(m[u]) = IF u = s THEN Len(l[u]) + 1 ELSE Len(l[u])
      /\ \A u \in Lanes : \A i \in 1 .. Len(l[u]) : m[u][i] = l[u][i]
      /\ m[s][Len(l[s]) + 1] = e
  BY <1>0 DEF Continues
<1>5. Offload!WaitFor(l, s, t) = m
  BY DEF Offload!WaitFor, More, e, m
<1>6. s # t => Needs(m, s, Len(m[s]), t, Len(m[t]))
  <2> SUFFICES ASSUME s # t, NEW r \in [Lanes -> Nat], Respects(m, r), r[s] >= Len(m[s])
               PROVE  r[t] >= Len(m[t])
    BY DEF Needs
  <2>1. /\ Len(m[s]) = Len(l[s]) + 1 /\ Len(m[t]) = Len(l[t]) /\ Len(l[s]) \in Nat
        /\ m[s][Len(m[s])] = e
    BY <1>2, <1>4
  <2>2. Len(m[s]) \in 1 .. Len(m[s]) /\ Len(m[s]) <= r[s]
    BY <2>1
  <2>3. r[e.on] >= e.upTo
    BY <1>3, <2>1, <2>2 DEF Respects
  <2>4. QED
    BY <1>3, <2>1, <2>3
<1>7. Ordered(m)
  <2> SUFFICES ASSUME NEW u \in Lanes, NEW i \in 1 .. Len(m[u]),
                      NEW p \in Offload!Places, NEW g \in Offload!Groups
               PROVE  /\ Touches(m[u][i], p, g) => u = Writer(p)
                      /\ Reads(m[u][i], p, g) => RaceFree(m, u, i, p, g)
    BY <1>4 DEF Ordered
  <2>1. i \in 1 .. Len(l[u]) \/ (u = s /\ i = Len(l[s]) + 1)
    BY <1>2, <1>4
  <2>2. CASE u = s /\ i = Len(l[s]) + 1
    BY <1>3, <1>4, <2>2 DEF Touches, Reads
  <2>3. CASE i \in 1 .. Len(l[u])
    <3>1. m[u][i] = l[u][i] /\ (Touches(l[u][i], p, g) => u = Writer(p))
      BY <1>4, <2>3 DEF Ordered
    <3>2. ASSUME Reads(l[u][i], p, g) PROVE RaceFree(m, u, i, p, g)
      <4> DEFINE w == Writer(p)
      <4>1. PICK j \in 1 .. Len(l[w]) :
              /\ Writes(l[w][j], p, g, l[u][i].pass) /\ Needs(l, u, i - 1, w, j)
              /\ \A k \in j + 1 .. Len(l[w]) : Touches(l[w][k], p, g) => Needs(l, w, k, u, i)
        BY <2>3, <3>2 DEF Ordered, RaceFree
      <4>2. w \in Lanes
        BY Kinds
      <4> HIDE DEF w
      <4>3. j \in 1 .. Len(m[w]) /\ m[w][j] = l[w][j]
        BY <1>2, <1>4, <4>2
      <4>4. Needs(m, u, i - 1, w, j)
        BY <1>1, <1>3, <4>1, NeedsKept DEF m
      <4>5. ASSUME NEW k \in j + 1 .. Len(m[w]), Touches(m[w][k], p, g)
            PROVE  Needs(m, w, k, u, i)
        <5>1. k \in j + 1 .. Len(l[w]) \/ (w = s /\ k = Len(l[s]) + 1)
          BY <1>2, <1>4, <4>2
        <5>2. k \in 1 .. Len(l[w]) => m[w][k] = l[w][k]
          BY <1>4, <4>2
        <5>3. ~ (w = s /\ k = Len(l[s]) + 1)
          BY <1>3, <1>4, <4>5 DEF Touches
        <5>4. k \in j + 1 .. Len(l[w]) /\ k \in 1 .. Len(l[w])
          BY <5>1, <5>3
        <5>5. Needs(l, w, k, u, i)
          BY <4>1, <4>5, <5>2, <5>4
        <5>6. QED
          BY <1>1, <1>3, <5>5, NeedsKept DEF m
      <4>6. QED
        BY <3>1, <4>1, <4>3, <4>4, <4>5 DEF RaceFree, w
    <3>3. QED
      BY <3>1, <3>2
  <2>4. QED
    BY <2>1, <2>2, <2>3
<1>8. QED
  BY <1>3, <1>5, <1>6, <1>7 DEF e, m

\* An operation goes on its place's stream; what it reads is ready there; and it
\* comes after every read of what it touches.
LEMMA OneTask ==
  ASSUME NEW l, Ordered(l), NEW s \in Lanes, NEW e \in Tasks,
         \A p \in Offload!Places, g \in Offload!Groups :
           /\ Touches(e, p, g) => s = Writer(p)
           /\ Reads(e, p, g) => Ready(l, s, p, g, e.pass)
           /\ Touches(e, p, g) => \A t \in Lanes : \A i \in 1 .. Len(l[t]) :
                Reads(l[t][i], p, g) => Needs(l, s, Len(l[s]), t, i)
  PROVE  Ordered(More(l, s, e))
<1> DEFINE m == More(l, s, e)
<1>1. l \in Logs
  BY DEF Ordered
<1>2. \A u \in Lanes : Len(l[u]) \in Nat
  BY <1>1 DEF Logs
<1>0. Continues(m, l, s, e)
  BY <1>1, OneMore
<1> HIDE DEF m
<1>4. /\ m \in Logs
      /\ \A u \in Lanes : Len(m[u]) = IF u = s THEN Len(l[u]) + 1 ELSE Len(l[u])
      /\ \A u \in Lanes : \A i \in 1 .. Len(l[u]) : m[u][i] = l[u][i]
      /\ m[s][Len(l[s]) + 1] = e
  BY <1>0 DEF Continues
<1> SUFFICES ASSUME NEW u \in Lanes, NEW i \in 1 .. Len(m[u]),
                    NEW p \in Offload!Places, NEW g \in Offload!Groups
             PROVE  /\ Touches(m[u][i], p, g) => u = Writer(p)
                    /\ Reads(m[u][i], p, g) => RaceFree(m, u, i, p, g)
  BY <1>4 DEF Ordered, m
<1> DEFINE w == Writer(p)
<1>5. w \in Lanes
  BY Kinds
<1> HIDE DEF w
<1>6. i \in 1 .. Len(l[u]) \/ (u = s /\ i = Len(l[s]) + 1)
  BY <1>2, <1>4
<1>7. Touches(m[u][i], p, g) => u = Writer(p)
  <2>1. i \in 1 .. Len(l[u]) => m[u][i] = l[u][i] /\ (Touches(l[u][i], p, g) => u = Writer(p))
    BY <1>4 DEF Ordered
  <2>2. QED
    BY <1>4, <1>6, <2>1
<1>8. ASSUME NEW j \in 1 .. Len(l[w]), NEW a, Needs(l, u, a, w, j)
      PROVE  j \in 1 .. Len(m[w]) /\ m[w][j] = l[w][j] /\ Needs(m, u, a, w, j)
  <2>1. j \in 1 .. Len(m[w]) /\ m[w][j] = l[w][j]
    BY <1>2, <1>4, <1>5
  <2>2. Needs(m, u, a, w, j)
    BY <1>1, <1>8, NeedsKept DEF m
  <2>3. QED
    BY <2>1, <2>2
<1>9. CASE i \in 1 .. Len(l[u])
  <2>1. m[u][i] = l[u][i]
    BY <1>4, <1>9
  <2>2. ASSUME Reads(l[u][i], p, g) PROVE RaceFree(m, u, i, p, g)
    <3>1. PICK j \in 1 .. Len(l[w]) :
            /\ Writes(l[w][j], p, g, l[u][i].pass) /\ Needs(l, u, i - 1, w, j)
            /\ \A k \in j + 1 .. Len(l[w]) : Touches(l[w][k], p, g) => Needs(l, w, k, u, i)
      BY <1>9, <2>2 DEF Ordered, RaceFree, w
    <3>2. ASSUME NEW k \in j + 1 .. Len(m[w]), Touches(m[w][k], p, g)
          PROVE  Needs(m, w, k, u, i)
      <4>1. k \in j + 1 .. Len(l[w]) \/ (w = s /\ k = Len(l[s]) + 1)
        BY <1>2, <1>4, <1>5
      <4>2. CASE k \in j + 1 .. Len(l[w])
        <5>1. k \in 1 .. Len(l[w])
          BY <4>2
        <5>2. Needs(l, w, k, u, i)
          BY <1>4, <1>5, <3>1, <3>2, <4>2, <5>1
        <5>3. QED
          BY <1>1, <5>2, NeedsKept DEF m
      <4>3. CASE w = s /\ k = Len(l[s]) + 1
        <5>1. Touches(e, p, g)
          BY <1>4, <3>2, <4>3
        <5>2. Needs(l, s, Len(l[s]), u, i)
          BY <1>9, <2>2, <5>1
        <5>3. Needs(m, s, Len(l[s]), u, i)
          BY <1>1, <5>2, NeedsKept DEF m
        <5>4. Len(l[s]) \in Int /\ k \in Int /\ Len(l[s]) <= k /\ i \in Int /\ i <= i
          BY <1>2, <4>3
        <5>5. QED
          BY <4>3, <5>3, <5>4, NeedsLess
      <4>4. QED
        BY <4>1, <4>2, <4>3
    <3>3. QED
      BY <1>8, <2>1, <3>1, <3>2 DEF RaceFree, w
  <2>3. QED
    BY <1>7, <2>1, <2>2
<1>10. CASE u = s /\ i = Len(l[s]) + 1
  <2>1. m[u][i] = e
    BY <1>4, <1>10
  <2>2. ASSUME Reads(e, p, g) PROVE RaceFree(m, u, i, p, g)
    <3>1. Ready(l, s, p, g, e.pass)
      BY <2>2
    <3>2. PICK j \in Nat : Made(l, p, g, e.pass, j) /\ Needs(l, s, Len(l[s]), w, j)
      BY <3>1 DEF Ready, w
    <3>3. /\ j \in 1 .. Len(l[w]) /\ Writes(l[w][j], p, g, e.pass)
          /\ \A k \in j + 1 .. Len(l[w]) : ~ Touches(l[w][k], p, g)
      BY <3>2 DEF Made, w
    <3>4. i - 1 = Len(l[s]) /\ Len(l[s]) \in Int
      BY <1>2, <1>10
    <3>5. ASSUME NEW k \in j + 1 .. Len(m[w]), Touches(m[w][k], p, g)
          PROVE  Needs(m, w, k, u, i)
      <4>1. k \in j + 1 .. Len(l[w]) \/ (w = s /\ k = Len(l[s]) + 1)
        BY <1>2, <1>4, <1>5
      <4>2. k \notin j + 1 .. Len(l[w])
        <5>1. k \in j + 1 .. Len(l[w]) => k \in 1 .. Len(l[w]) /\ m[w][k] = l[w][k]
          BY <1>4, <1>5, <3>3
        <5>2. QED
          BY <3>3, <3>5, <5>1
      <4>3. QED
        BY <1>10, <4>1, <4>2, NeedsItself
    <3>6. Needs(l, u, i - 1, w, j)
      BY <1>10, <3>2, <3>4
    <3>7. QED
      BY <1>8, <2>1, <3>3, <3>5, <3>6 DEF RaceFree, w
  <2>3. QED
    BY <1>7, <2>1, <2>2
<1>11. QED
  BY <1>6, <1>9, <1>10

------------------------------------------------------------------------------
(* What the host keeps up.                                                   *)

\* All that is on stream t comes before what is put on s next.
CaughtUp(l, s, t) == Needs(l, s, Len(l[s]), t, Len(l[t]))

\* Who reads in a place.
Readers(p) == IF p = "fwd" THEN {"compute", "d2h"} ELSE IF p = "cpu" THEN {"h2d"} ELSE {"compute"}

\* The computation comes after every copy of a tensor that bf does not hold.
CopiedOut(l, bf) ==
  \A i \in 1 .. Len(l["d2h"]) : \A g \in Offload!Groups :
    Reads(l["d2h"][i], "fwd", g) => g \in bf \/ Needs(l, "compute", Len(l["compute"]), "d2h", i)

Sound(l, bf) ==
  /\ Ordered(l) /\ CopiedOut(l, bf)
  /\ \A s \in Lanes : \A i \in 1 .. Len(l[s]) : \A p \in Offload!Places, g \in Offload!Groups :
       Reads(l[s][i], p, g) => s \in Readers(p)

\* Three streams, and the place each of them writes in.
LEMMA LanesAre ==
  /\ Lanes = {"compute", "d2h", "h2d"} /\ Offload!Places = {"fwd", "cpu", "back"}
  /\ Writer("fwd") = "compute" /\ Writer("cpu") = "d2h" /\ Writer("back") = "h2d"
BY DEF Lanes, Offload!Streams, Offload!Places, Writer

\* Behind what is behind.
LEMMA CaughtThrough ==
  ASSUME NEW l, NEW s, NEW t, NEW u, CaughtUp(l, s, t), CaughtUp(l, t, u)
  PROVE  CaughtUp(l, s, u)
BY NeedsThrough DEF CaughtUp

\* Catching up lasts until the other stream is given more.
LEMMA CaughtKept ==
  ASSUME NEW l \in Logs, NEW u \in Lanes, NEW e \in Tasks \cup Waits,
         NEW s \in Lanes, NEW t \in Lanes, t # u, CaughtUp(l, s, t)
  PROVE  CaughtUp(More(l, u, e), s, t)
<1> DEFINE m == More(l, u, e)
<1>0. Continues(m, l, u, e)
  BY OneMore
<1>1. Needs(m, s, Len(l[s]), t, Len(l[t]))
  BY NeedsKept DEF CaughtUp
<1> HIDE DEF m
<1>2. /\ Len(l[s]) \in Int /\ Len(m[s]) \in Int /\ Len(l[s]) <= Len(m[s])
      /\ Len(l[t]) \in Int /\ Len(m[t]) = Len(l[t])
  BY <1>0 DEF Continues
<1>3. Needs(m, s, Len(m[s]), t, Len(m[t]))
  BY <1>1, <1>2, NeedsLess
<1>4. QED
  BY <1>3 DEF CaughtUp, m

\* What is ready on one stream is ready on one that has caught up with it.
LEMMA ReadyOn ==
  ASSUME NEW l, NEW s, NEW t, NEW p, NEW g, NEW q, Ready(l, s, p, g, q), CaughtUp(l, t, s)
  PROVE  Ready(l, t, p, g, q)
BY NeedsThrough DEF Ready, CaughtUp

\* What an operation writes is ready on its own stream.
LEMMA ReadyNew ==
  ASSUME NEW l \in Logs, NEW e \in Tasks, NEW p \in Offload!Places, NEW g, NEW q,
         Writes(e, p, g, q)
  PROVE  Ready(More(l, Writer(p), e), Writer(p), p, g, q)
<1> DEFINE w == Writer(p)
           m == More(l, w, e)
           j == Len(l[w]) + 1
<1>0. w \in Lanes
  BY Kinds
<1> HIDE DEF w
<1>1. Continues(m, l, w, e)
  BY <1>0, OneMore
<1> HIDE DEF m
<1>2. j \in Nat /\ Len(m[w]) = j /\ j \in 1 .. Len(m[w]) /\ m[w][j] = e
  BY <1>0, <1>1 DEF Continues
<1>3. \A k \in j + 1 .. Len(m[w]) : FALSE
  BY <1>2
<1> HIDE DEF j
<1>4. Made(m, p, g, q, j)
  BY <1>2, <1>3 DEF Made, w
<1>5. Needs(m, w, Len(m[w]), w, j)
  BY <1>2, NeedsItself
<1>6. QED
  BY <1>2, <1>4, <1>5 DEF Ready, w, m

\* When the computation has waited for all copies, nothing need be held.
LEMMA NothingHeld ==
  ASSUME NEW l \in Logs, NEW bf, CaughtUp(l, "compute", "d2h")
  PROVE  CopiedOut(l, bf)
<1> SUFFICES ASSUME NEW i \in 1 .. Len(l["d2h"])
             PROVE  Needs(l, "compute", Len(l["compute"]), "d2h", i)
  BY DEF CopiedOut
<1>1. Len(l["d2h"]) \in Nat /\ Len(l["compute"]) \in Nat
  BY LanesAre DEF Logs
<1>2. "compute" \in Lanes /\ "d2h" \in Lanes
  BY LanesAre
<1>3. Len(l["compute"]) <= Len(l["compute"]) /\ i <= Len(l["d2h"]) /\ i \in Int
  BY <1>1
<1>4. Needs(l, "compute", Len(l["compute"]), "d2h", Len(l["d2h"]))
  BY DEF CaughtUp
<1>5. QED
  BY <1>1, <1>2, <1>3, <1>4, NeedsLess

\* One more entry, which comes from a reader of its place and holds what it
\* copies out.
LEMMA SoundMore ==
  ASSUME NEW l, NEW bf, Sound(l, bf), NEW s \in Lanes, NEW e \in Tasks \cup Waits,
         Ordered(More(l, s, e)),
         \A p \in Offload!Places, g \in Offload!Groups :
           Reads(e, p, g) => s \in Readers(p) /\ (s = "d2h" => g \in bf)
  PROVE  Sound(More(l, s, e), bf)
<1> DEFINE m == More(l, s, e)
<1>0. l \in Logs
  BY DEF Sound, Ordered
<1>1. Continues(m, l, s, e)
  BY <1>0, OneMore
<1>2. /\ \A u \in Lanes : Len(l[u]) \in Nat
      /\ \A u \in Lanes : Len(m[u]) = IF u = s THEN Len(l[u]) + 1 ELSE Len(l[u])
      /\ \A u \in Lanes : \A i \in 1 .. Len(l[u]) : m[u][i] = l[u][i]
      /\ m[s][Len(l[s]) + 1] = e
  BY <1>1 DEF Continues
<1>3. \A i, u, j : Needs(l, u, i, "d2h", j) => Needs(m, u, i, "d2h", j)
  BY <1>0, NeedsKept
<1> HIDE DEF m
<1>4. \A u \in Lanes : \A i \in 1 .. Len(m[u]) :
        i \in 1 .. Len(l[u]) \/ (u = s /\ i = Len(l[s]) + 1)
  BY <1>2
<1>5. ASSUME NEW u \in Lanes, NEW i \in 1 .. Len(m[u]),
             NEW p \in Offload!Places, NEW g \in Offload!Groups, Reads(m[u][i], p, g)
      PROVE  u \in Readers(p)
  <2>1. CASE i \in 1 .. Len(l[u])
    BY <1>2, <1>5, <2>1 DEF Sound
  <2>2. CASE u = s /\ i = Len(l[s]) + 1
    BY <1>2, <1>5, <2>2
  <2>3. QED
    BY <1>4, <2>1, <2>2
<1>6. CopiedOut(m, bf)
  <2> SUFFICES ASSUME NEW i \in 1 .. Len(m["d2h"]), NEW g \in Offload!Groups,
                      Reads(m["d2h"][i], "fwd", g), g \notin bf
               PROVE  Needs(m, "compute", Len(m["compute"]), "d2h", i)
    BY DEF CopiedOut
  <2>1. i \in 1 .. Len(l["d2h"]) /\ m["d2h"][i] = l["d2h"][i]
    BY <1>2, <1>4, LanesAre
  <2>2. Needs(l, "compute", Len(l["compute"]), "d2h", i)
    BY <2>1 DEF Sound, CopiedOut
  <2>3. Needs(m, "compute", Len(l["compute"]), "d2h", i)
    BY <1>3, <2>2
  <2>4. /\ "compute" \in Lanes /\ "d2h" \in Lanes /\ Len(l["compute"]) \in Int
        /\ Len(m["compute"]) \in Int /\ Len(l["compute"]) <= Len(m["compute"])
        /\ i \in Int /\ i <= i
    BY <1>2, LanesAre
  <2>5. QED
    BY <2>3, <2>4, NeedsLess
<1>7. QED
  BY <1>5, <1>6 DEF Sound, m

\* One stream waits for another.
LEMMA SoundWait ==
  ASSUME NEW l, NEW bf, Sound(l, bf), NEW s \in Lanes, NEW t \in Lanes, s # t
  PROVE  /\ Sound(Offload!WaitFor(l, s, t), bf) /\ Offload!WaitFor(l, s, t) \in Logs
         /\ CaughtUp(Offload!WaitFor(l, s, t), s, t)
         /\ \A u, v \in Lanes :
              v # s /\ CaughtUp(l, u, v) => CaughtUp(Offload!WaitFor(l, s, t), u, v)
         /\ \A u \in Lanes : \A p \in Offload!Places : \A g, q :
              Ready(l, u, p, g, q) => Ready(Offload!WaitFor(l, s, t), u, p, g, q)
<1> DEFINE e == Offload!Wait(t, Len(l[t]))
<1>1. Ordered(l) /\ l \in Logs
  BY DEF Sound, Ordered
<1>2. /\ Offload!WaitFor(l, s, t) = More(l, s, e) /\ e \in Waits
      /\ Ordered(More(l, s, e)) /\ More(l, s, e) \in Logs
      /\ CaughtUp(More(l, s, e), s, t)
  BY <1>1, OneWait DEF CaughtUp, Ordered
<1> HIDE DEF e
<1>3. \A p, g : ~ Reads(e, p, g) /\ ~ Touches(e, p, g)
  BY <1>2, Kinds DEF Reads, Touches
<1>4. Sound(More(l, s, e), bf)
  BY <1>2, <1>3, SoundMore
<1>5. \A u, v \in Lanes : v # s /\ CaughtUp(l, u, v) => CaughtUp(More(l, s, e), u, v)
  BY <1>1, <1>2, CaughtKept
<1>6. \A u \in Lanes : \A p \in Offload!Places : \A g, q :
        Ready(l, u, p, g, q) => Ready(More(l, s, e), u, p, g, q)
  BY <1>1, <1>2, <1>3, ReadyKept
<1>7. QED
  BY <1>2, <1>4, <1>5, <1>6

\* An operation is put on a stream.
LEMMA SoundTask ==
  ASSUME NEW l, NEW bf, Sound(l, bf), NEW s \in Lanes, NEW e \in Tasks,
         \A p \in Offload!Places, g \in Offload!Groups :
           /\ Touches(e, p, g) => s = Writer(p)
           /\ Reads(e, p, g) =>
                Ready(l, s, p, g, e.pass) /\ s \in Readers(p) /\ (s = "d2h" => g \in bf)
           /\ Touches(e, p, g) => \A t \in Readers(p) : t # s =>
                \A i \in 1 .. Len(l[t]) : Reads(l[t][i], p, g) => Needs(l, s, Len(l[s]), t, i)
  PROVE  /\ Sound(More(l, s, e), bf) /\ More(l, s, e) \in Logs
         /\ \A u, v \in Lanes :
              v # s /\ CaughtUp(l, u, v) => CaughtUp(More(l, s, e), u, v)
         /\ \A u \in Lanes : \A p \in Offload!Places : \A g, q :
              Ready(l, u, p, g, q) /\ ~ Touches(e, p, g) => Ready(More(l, s, e), u, p, g, q)
<1>1. Ordered(l) /\ l \in Logs /\ e \in Tasks \cup Waits
  BY DEF Sound, Ordered
<1>2. \A u \in Lanes : Len(l[u]) \in Nat
  BY <1>1 DEF Logs
<1>3. ASSUME NEW p \in Offload!Places, NEW g \in Offload!Groups, Touches(e, p, g),
             NEW t \in Lanes, NEW i \in 1 .. Len(l[t]), Reads(l[t][i], p, g)
      PROVE  Needs(l, s, Len(l[s]), t, i)
  <2>1. t \in Readers(p)
    BY <1>3 DEF Sound
  <2>2. CASE t = s
    <3>1. i \in Int /\ Len(l[s]) \in Int /\ i <= Len(l[s]) /\ i <= i
      BY <1>2, <2>2
    <3>2. Needs(l, s, i, s, i)
      BY NeedsItself
    <3>3. QED
      BY <2>2, <3>1, <3>2, NeedsLess
  <2>3. QED
    BY <1>3, <2>1, <2>2
<1>4. Ordered(More(l, s, e))
  BY <1>1, <1>3, OneTask
<1>5. Sound(More(l, s, e), bf)
  BY <1>1, <1>4, SoundMore
<1>6. More(l, s, e) \in Logs
  BY <1>4 DEF Ordered
<1>7. \A u, v \in Lanes : v # s /\ CaughtUp(l, u, v) => CaughtUp(More(l, s, e), u, v)
  BY <1>1, CaughtKept
<1>8. \A u \in Lanes : \A p \in Offload!Places : \A g, q :
        Ready(l, u, p, g, q) /\ ~ Touches(e, p, g) => Ready(More(l, s, e), u, p, g, q)
  BY <1>1, ReadyKept
<1>9. QED
  BY <1>5, <1>6, <1>7, <1>8

\* What an operation of the handler is and touches.
IsTask(e, from, to, g, over) ==
  /\ e \in Tasks /\ e.pass = oPass
  /\ to \in Offload!Places => Writes(e, to, g, oPass)
  /\ \A p \in Offload!Places, h \in Offload!Groups :
       /\ Touches(e, p, h) <=> (p = to /\ h = g) \/ <<p, h>> \in over
       /\ Reads(e, p, h) <=> p = from /\ h = g

\* The handler's operations are operations of its pass.
LEMMA OperationIs ==
  ASSUME NEW from \in Offload!Places \cup {"none"}, NEW to \in Offload!Places \cup {"none"},
         NEW g \in Offload!Groups, NEW over \in SUBSET Cells, oPass \in Nat
  PROVE  IsTask(Offload!Operation(from, to, g, over), from, to, g, over)
<1> DEFINE e == Offload!Operation(from, to, g, over)
<1>1. e = [from |-> from, to |-> to, group |-> g, pass |-> oPass, over |-> over]
  BY DEF Offload!Operation
<1>2. e \in Tasks
  BY <1>1 DEF Tasks
<1>3. e.from = from /\ e.to = to /\ e.group = g /\ e.pass = oPass /\ e.over = over
  BY <1>1
<1> HIDE DEF e
<1>4. \A p \in Offload!Places, h \in Offload!Groups :
              /\ Touches(e, p, h) <=> (p = to /\ h = g) \/ <<p, h>> \in over
              /\ Reads(e, p, h) <=> p = from /\ h = g
  BY <1>2, <1>3 DEF Touches, Reads
<1>5. to \in Offload!Places => Writes(e, to, g, oPass)
  BY <1>2, <1>3 DEF Writes
<1>6. QED
  BY <1>2, <1>3, <1>4, <1>5 DEF e, IsTask

\* A copy out of a tensor that is ready, when the copies back are over.
LEMMA CopiesOut ==
  ASSUME NEW l, NEW bf, Sound(l, bf), NEW g \in Offload!Groups, g \in bf, oPass \in Nat,
         Ready(l, "d2h", "fwd", g, oPass), CaughtUp(l, "d2h", "h2d")
  PROVE  LET m == More(l, "d2h", Offload!Operation("fwd", "cpu", g, {}))
         IN  /\ Sound(m, bf) /\ m \in Logs
             /\ Ready(m, "d2h", "cpu", g, oPass)
             /\ \A u, v \in Lanes : v # "d2h" /\ CaughtUp(l, u, v) => CaughtUp(m, u, v)
             /\ \A u \in Lanes : \A p \in Offload!Places : \A h \in Offload!Groups :
                  Ready(l, u, p, h, oPass) /\ ~ (p = "cpu" /\ h = g) => Ready(m, u, p, h, oPass)
<1> DEFINE e == Offload!Operation("fwd", "cpu", g, {})
<1>1. /\ e \in Tasks /\ e.pass = oPass /\ Writes(e, "cpu", g, oPass)
      /\ \A p \in Offload!Places, h \in Offload!Groups :
           /\ Touches(e, p, h) <=> p = "cpu" /\ h = g
           /\ Reads(e, p, h) <=> p = "fwd" /\ h = g
  <2>1. IsTask(e, "fwd", "cpu", g, {})
    BY LanesAre, OperationIs
  <2> HIDE DEF e
  <2>2. QED
    BY <2>1, LanesAre DEF IsTask
<1> HIDE DEF e
<1>2. l \in Logs /\ "d2h" \in Lanes /\ "h2d" \in Lanes
  BY LanesAre DEF Sound, Ordered
<1>3. ASSUME NEW i \in 1 .. Len(l["h2d"]) PROVE Needs(l, "d2h", Len(l["d2h"]), "h2d", i)
  <2>1. Len(l["d2h"]) \in Int /\ Len(l["h2d"]) \in Int
    BY <1>2 DEF Logs
  <2>2. i \in Int /\ i <= Len(l["h2d"]) /\ Len(l["d2h"]) <= Len(l["d2h"])
    BY <2>1
  <2>3. Needs(l, "d2h", Len(l["d2h"]), "h2d", Len(l["h2d"]))
    BY DEF CaughtUp
  <2>4. QED
    BY <1>2, <2>1, <2>2, <2>3, NeedsLess
<1>4. \A p \in Offload!Places, h \in Offload!Groups :
           /\ Touches(e, p, h) => "d2h" = Writer(p)
           /\ Reads(e, p, h) =>
                Ready(l, "d2h", p, h, e.pass) /\ "d2h" \in Readers(p) /\ ("d2h" = "d2h" => h \in bf)
           /\ Touches(e, p, h) => \A t \in Readers(p) : t # "d2h" =>
                \A i \in 1 .. Len(l[t]) : Reads(l[t][i], p, h) => Needs(l, "d2h", Len(l["d2h"]), t, i)
  BY <1>1, <1>3, LanesAre DEF Readers
<1>5. /\ Sound(More(l, "d2h", e), bf) /\ More(l, "d2h", e) \in Logs
      /\ \A u, v \in Lanes :
              v # "d2h" /\ CaughtUp(l, u, v) => CaughtUp(More(l, "d2h", e), u, v)
      /\ \A u \in Lanes : \A p \in Offload!Places : \A h, q :
              Ready(l, u, p, h, q) /\ ~ Touches(e, p, h) => Ready(More(l, "d2h", e), u, p, h, q)
  BY <1>1, <1>2, <1>4, SoundTask
<1>6. Ready(More(l, "d2h", e), "d2h", "cpu", g, oPass)
  BY <1>1, <1>2, LanesAre, ReadyNew
<1>7. QED
  BY <1>1, <1>5, <1>6 DEF e

\* A copy back, when the computation that may still read the memory it is given
\* is over.
LEMMA CopiesBack ==
  ASSUME NEW l, NEW bf, Sound(l, bf), NEW g \in Offload!Groups, oPass \in Nat,
         Ready(l, "h2d", "cpu", g, oPass),
         \A i \in 1 .. Len(l["compute"]) : \A h \in Offload!Groups :
           Reads(l["compute"][i], "back", h) => Needs(l, "h2d", Len(l["h2d"]), "compute", i)
  PROVE  LET m == More(l, "h2d", Offload!Operation("cpu", "back", g, Offload!Reusable("back")))
         IN  /\ Sound(m, bf) /\ m \in Logs
             /\ Ready(m, "h2d", "back", g, oPass)
             /\ \A u, v \in Lanes : v # "h2d" /\ CaughtUp(l, u, v) => CaughtUp(m, u, v)
             /\ \A u \in Lanes : \A p \in Offload!Places : \A h \in Offload!Groups :
                  Ready(l, u, p, h, oPass) /\ (p = "back" => h # g /\ oState[h] = "back")
                    => Ready(m, u, p, h, oPass)
<1> DEFINE e == Offload!Operation("cpu", "back", g, Offload!Reusable("back"))
<1>1. /\ e \in Tasks /\ e.pass = oPass /\ Writes(e, "back", g, oPass)
      /\ \A p \in Offload!Places, h \in Offload!Groups :
           /\ Touches(e, p, h) <=> p = "back" /\ (h = g \/ oState[h] # "back")
           /\ Reads(e, p, h) <=> p = "cpu" /\ h = g
  <2>1. Offload!Reusable("back") \in SUBSET Cells
        /\ \A p \in Offload!Places, h \in Offload!Groups :
             <<p, h>> \in Offload!Reusable("back") <=> p = "back" /\ oState[h] # "back"
    BY LanesAre DEF Offload!Reusable, Offload!Held, Cells
  <2>2. IsTask(e, "cpu", "back", g, Offload!Reusable("back"))
    BY <2>1, LanesAre, OperationIs
  <2> HIDE DEF e
  <2>3. QED
    BY <2>1, <2>2, LanesAre DEF IsTask
<1> HIDE DEF e
<1>2. l \in Logs /\ "h2d" \in Lanes
  BY LanesAre DEF Sound, Ordered
<1>4. \A p \in Offload!Places, h \in Offload!Groups :
           /\ Touches(e, p, h) => "h2d" = Writer(p)
           /\ Reads(e, p, h) =>
                Ready(l, "h2d", p, h, e.pass) /\ "h2d" \in Readers(p) /\ ("h2d" = "d2h" => h \in bf)
           /\ Touches(e, p, h) => \A t \in Readers(p) : t # "h2d" =>
                \A i \in 1 .. Len(l[t]) : Reads(l[t][i], p, h) => Needs(l, "h2d", Len(l["h2d"]), t, i)
  BY <1>1, LanesAre DEF Readers
<1>5. /\ Sound(More(l, "h2d", e), bf) /\ More(l, "h2d", e) \in Logs
      /\ \A u, v \in Lanes :
              v # "h2d" /\ CaughtUp(l, u, v) => CaughtUp(More(l, "h2d", e), u, v)
      /\ \A u \in Lanes : \A p \in Offload!Places : \A h, q :
              Ready(l, u, p, h, q) /\ ~ Touches(e, p, h) => Ready(More(l, "h2d", e), u, p, h, q)
  BY <1>1, <1>2, <1>4, SoundTask
<1>6. Ready(More(l, "h2d", e), "h2d", "back", g, oPass)
  BY <1>1, <1>2, LanesAre, ReadyNew
<1>7. QED
  BY <1>1, <1>5, <1>6 DEF e

\* The computation allocates what nobody holds.
LEMMA Computes ==
  ASSUME NEW l, Sound(l, oBuf), NEW g \in Offload!Groups, oPass \in Nat,
         NEW from \in {"none", "fwd", "back"}, NEW to \in {"none", "fwd"},
         from # "none" => Ready(l, "compute", from, g, oPass),
         to = "fwd" => g \notin oBuf
  PROVE  LET m == More(l, "compute", Offload!Operation(from, to, g, Offload!Reusable("fwd")))
         IN  /\ Sound(m, oBuf) /\ m \in Logs
             /\ to = "fwd" => Ready(m, "compute", "fwd", g, oPass)
             /\ \A u, v \in Lanes : v # "compute" /\ CaughtUp(l, u, v) => CaughtUp(m, u, v)
             /\ \A u \in Lanes : \A p \in Offload!Places : \A h \in Offload!Groups :
                  /\ Ready(l, u, p, h, oPass)
                  /\ p = "fwd" => oState[h] = "fwd" /\ ~ (to = "fwd" /\ h = g)
                  => Ready(m, u, p, h, oPass)
<1> DEFINE e == Offload!Operation(from, to, g, Offload!Reusable("fwd"))
<1>1. /\ e \in Tasks /\ e.pass = oPass /\ (to = "fwd" => Writes(e, "fwd", g, oPass))
      /\ \A p \in Offload!Places, h \in Offload!Groups :
           /\ Touches(e, p, h) <=>
                p = "fwd" /\ ((to = "fwd" /\ h = g) \/ (oState[h] # "fwd" /\ h \notin oBuf))
           /\ Reads(e, p, h) <=> p = from /\ h = g
  <2>1. Offload!Reusable("fwd") \in SUBSET Cells
        /\ \A p \in Offload!Places, h \in Offload!Groups :
             <<p, h>> \in Offload!Reusable("fwd") <=>
               p = "fwd" /\ oState[h] # "fwd" /\ h \notin oBuf
    BY LanesAre DEF Offload!Reusable, Offload!Held, Cells
  <2>2. IsTask(e, from, to, g, Offload!Reusable("fwd"))
    BY <2>1, LanesAre, OperationIs
  <2> HIDE DEF e
  <2>3. QED
    BY <2>1, <2>2, LanesAre DEF IsTask
<1> HIDE DEF e
<1>2. l \in Logs /\ "compute" \in Lanes /\ CopiedOut(l, oBuf)
  BY LanesAre DEF Sound, Ordered
<1>3. \A p \in Offload!Places, h \in Offload!Groups :
           /\ Touches(e, p, h) => "compute" = Writer(p)
           /\ Reads(e, p, h) =>
                Ready(l, "compute", p, h, e.pass) /\ "compute" \in Readers(p)
                /\ ("compute" = "d2h" => h \in oBuf)
  BY <1>1, LanesAre DEF Readers
<1>4. ASSUME NEW p \in Offload!Places, NEW h \in Offload!Groups, Touches(e, p, h),
             NEW t \in Readers(p), t # "compute", NEW i \in 1 .. Len(l[t]), Reads(l[t][i], p, h)
      PROVE  Needs(l, "compute", Len(l["compute"]), t, i)
  <2>1. p = "fwd" /\ t = "d2h" /\ h \notin oBuf
    BY <1>1, <1>4 DEF Readers
  <2>2. QED
    BY <1>2, <1>4, <2>1 DEF CopiedOut
<1>5. /\ Sound(More(l, "compute", e), oBuf) /\ More(l, "compute", e) \in Logs
      /\ \A u, v \in Lanes :
              v # "compute" /\ CaughtUp(l, u, v) => CaughtUp(More(l, "compute", e), u, v)
      /\ \A u \in Lanes : \A p \in Offload!Places : \A h, q :
              Ready(l, u, p, h, q) /\ ~ Touches(e, p, h) => Ready(More(l, "compute", e), u, p, h, q)
  BY <1>1, <1>2, <1>3, <1>4, SoundTask
<1>6. to = "fwd" => Ready(More(l, "compute", e), "compute", "fwd", g, oPass)
  BY <1>1, <1>2, LanesAre, ReadyNew
<1>7. QED
  BY <1>1, <1>5, <1>6 DEF e

\* The tensors the handler refers to are in place for what it will do with them.
Stocked(l, st, q) ==
  \A g \in Offload!Groups :
    /\ st[g] = "fwd" => Ready(l, "compute", "fwd", g, q)
    /\ st[g] = "cpu" => Ready(l, "d2h", "cpu", g, q)
    /\ st[g] = "back" => Ready(l, "h2d", "back", g, q)

\* In the backward pass all copies out are over, and the layer's tensors are
\* back before its hooks hand them out; in the forward pass all copies back are.
HostInv ==
  /\ oPass \in Nat /\ Sound(oLog, oBuf) /\ Stocked(oLog, oState, oPass)
  /\ oPc \in {"uncommit", "pop"} => CaughtUp(oLog, "compute", "d2h")
  /\ oPc = "pop" /\ oState[oCurrent] = "back" => Ready(oLog, "compute", "back", oCurrent, oPass)
  /\ oPc \in {"push", "commit"} \/ (oPc = "pop" /\ oCurrent = 0) =>
       CaughtUp(oLog, "compute", "h2d")

\* The same of the next state.
LEMMA HostPrimed ==
  HostInv' <=> /\ oPass' \in Nat /\ Sound(oLog', oBuf') /\ Stocked(oLog', oState', oPass')
               /\ oPc' \in {"uncommit", "pop"} => CaughtUp(oLog', "compute", "d2h")
               /\ oPc' = "pop" /\ oState'[oCurrent'] = "back" =>
                    Ready(oLog', "compute", "back", oCurrent', oPass')
               /\ oPc' \in {"push", "commit"} \/ (oPc' = "pop" /\ oCurrent' = 0) =>
                    CaughtUp(oLog', "compute", "h2d")
BY DEF HostInv

\* tensor_push writes a new tensor where none is in use, ...
LEMMA HostPush == Handled /\ HostInv /\ Offload!TensorPush => HostInv'
<1> SUFFICES ASSUME Handled, HostInv, Offload!TensorPush PROVE HostInv'
  OBVIOUS
<1> DEFINE m == More(oLog, "compute",
                     Offload!Operation("none", "fwd", oCurrent, Offload!Reusable("fwd")))
<1>1. /\ oPc = "push" /\ oPc' = "commit" /\ oLog' = m
      /\ oState' = [oState EXCEPT ![oCurrent] = "fwd"]
      /\ oBuf \in SUBSET oBuf' /\ UNCHANGED <<oPass, oCurrent>>
  BY DEF Offload!TensorPush, Offload!NoPlace, More
<1>2. /\ oCurrent \in Offload!Groups /\ oCurrent \notin oBuf
      /\ \A g \in Offload!Groups : oState[g] \in {"cpu", "none"}
      /\ \A g \in Offload!Groups : oState'[g] = IF g = oCurrent THEN "fwd" ELSE oState[g]
  BY <1>1, ManyLayers DEF Handled
<1>3. /\ Sound(m, oBuf) /\ m \in Logs /\ Ready(m, "compute", "fwd", oCurrent, oPass)
      /\ CaughtUp(oLog, "compute", "h2d") => CaughtUp(m, "compute", "h2d")
      /\ \A h \in Offload!Groups :
           Ready(oLog, "d2h", "cpu", h, oPass) => Ready(m, "d2h", "cpu", h, oPass)
  BY <1>2, LanesAre, Computes DEF HostInv
<1> HIDE DEF m
<1>4. Sound(m, oBuf')
  BY <1>1, <1>3 DEF Sound, CopiedOut
<1>5. Stocked(m, oState', oPass)
  BY <1>2, <1>3 DEF Stocked, HostInv
<1>6. CaughtUp(m, "compute", "h2d")
  BY <1>1, <1>3 DEF HostInv
<1>7. oPass \in Nat
  BY DEF HostInv
<1>8. QED
  BY <1>1, <1>4, <1>5, <1>6, <1>7, HostPrimed

\* A stream of copies waits for the computation and the computation for it.
BothWaited(m, l, bf, s) ==
  /\ Sound(m, bf) /\ m \in Logs /\ CaughtUp(m, "compute", s)
  /\ \A u \in Lanes : \A p \in Offload!Places : \A g, q : Ready(l, u, p, g, q) => Ready(m, u, p, g, q)
  /\ \A p \in Offload!Places : \A g, q : Ready(l, "compute", p, g, q) => Ready(m, s, p, g, q)
  /\ \A u, v \in Lanes : v \notin {s, "compute"} /\ CaughtUp(l, u, v) => CaughtUp(m, u, v)
  /\ \A v \in Lanes \ {s, "compute"} : CaughtUp(l, "compute", v) => CaughtUp(m, s, v)
  /\ \A i \in 1 .. Len(m["compute"]) : \A p \in Offload!Places, g \in Offload!Groups :
       Reads(m["compute"][i], p, g) => Needs(m, s, Len(m[s]), "compute", i)

\* wait_stream in both directions does that.
LEMMA WaitBothWays ==
  ASSUME NEW l, NEW bf, Sound(l, bf), NEW s \in {"d2h", "h2d"}
  PROVE  BothWaited(Offload!BothWays(l, s), l, bf, s)
<1> DEFINE k == Offload!WaitFor(l, s, "compute")
           m == Offload!WaitFor(k, "compute", s)
<1>1. s \in Lanes /\ "compute" \in Lanes /\ s # "compute"
  BY LanesAre
<1>2. /\ Sound(k, bf) /\ k \in Logs /\ CaughtUp(k, s, "compute")
      /\ \A u, v \in Lanes : v # s /\ CaughtUp(l, u, v) => CaughtUp(k, u, v)
      /\ \A u \in Lanes : \A p \in Offload!Places : \A g, q :
           Ready(l, u, p, g, q) => Ready(k, u, p, g, q)
  BY <1>1, SoundWait
<1> HIDE DEF k
<1>3. /\ Sound(m, bf) /\ m \in Logs /\ CaughtUp(m, "compute", s)
      /\ \A u, v \in Lanes : v # "compute" /\ CaughtUp(k, u, v) => CaughtUp(m, u, v)
      /\ \A u \in Lanes : \A p \in Offload!Places : \A g, q :
           Ready(k, u, p, g, q) => Ready(m, u, p, g, q)
  BY <1>1, <1>2, SoundWait
<1>4. \A p \in Offload!Places : \A g, q : Ready(l, "compute", p, g, q) => Ready(m, s, p, g, q)
  <2> SUFFICES ASSUME NEW p \in Offload!Places, NEW g, NEW q, Ready(l, "compute", p, g, q)
               PROVE  Ready(m, s, p, g, q)
    OBVIOUS
  <2>1. Ready(k, "compute", p, g, q)
    BY <1>1, <1>2
  <2>2. Ready(k, s, p, g, q)
    BY <1>2, <2>1, ReadyOn
  <2>3. QED
    BY <1>1, <1>3, <2>2
<1>5. ASSUME NEW v \in Lanes \ {s, "compute"}, CaughtUp(l, "compute", v) PROVE CaughtUp(m, s, v)
  <2>1. CaughtUp(k, "compute", v)
    BY <1>1, <1>2, <1>5
  <2>2. CaughtUp(k, s, v)
    BY <1>2, <2>1, CaughtThrough
  <2>3. QED
    BY <1>1, <1>3, <1>5, <2>2
<1>6. ASSUME NEW i \in 1 .. Len(m["compute"]), NEW p \in Offload!Places,
             NEW g \in Offload!Groups, Reads(m["compute"][i], p, g)
      PROVE  Needs(m, s, Len(m[s]), "compute", i)
  <2> DEFINE e == Offload!Wait(s, Len(k[s]))
  <2>1. m = More(k, "compute", e) /\ e \in Waits
    BY <1>1, <1>2, OneWait DEF Sound
  <2> HIDE DEF e, m
  <2>2. Continues(m, k, "compute", e)
    BY <1>1, <1>2, <2>1, OneMore
  <2>3. /\ Len(k["compute"]) \in Nat /\ Len(m["compute"]) = Len(k["compute"]) + 1
        /\ m["compute"][Len(k["compute"]) + 1] = e /\ Len(k[s]) \in Nat /\ Len(m[s]) = Len(k[s])
    BY <1>1, <2>2 DEF Continues
  <2>4. ~ Reads(e, p, g)
    BY <2>1, Kinds DEF Reads
  <2>5. i \in 1 .. Len(k["compute"])
    BY <1>6, <2>3, <2>4
  <2>6. Needs(k, s, Len(k[s]), "compute", Len(k["compute"]))
    BY <1>2 DEF CaughtUp
  <2>7. i \in Int /\ i <= Len(k["compute"]) /\ Len(k["compute"]) \in Int
        /\ Len(k[s]) \in Int /\ Len(k[s]) <= Len(k[s])
    BY <2>3, <2>5
  <2>8. Needs(k, s, Len(k[s]), "compute", i)
    BY <1>1, <2>6, <2>7, NeedsLess
  <2>9. QED
    BY <1>1, <1>2, <2>1, <2>3, <2>8, NeedsKept
<1>7. Offload!BothWays(l, s) = m
  BY DEF Offload!BothWays, k
<1> HIDE DEF m
<1>8. \A u \in Lanes : \A p \in Offload!Places : \A g, q : Ready(l, u, p, g, q) => Ready(m, u, p, g, q)
  BY <1>2, <1>3
<1>9. \A u, v \in Lanes : v \notin {s, "compute"} /\ CaughtUp(l, u, v) => CaughtUp(m, u, v)
  BY <1>2, <1>3
<1>10. QED
  BY <1>3, <1>4, <1>5, <1>6, <1>7, <1>8, <1>9 DEF BothWaited

\* ... a commit of the forward pass copies out what has been computed, and its
\* window lets go only of what has been copied, ...
LEMMA HostCommit == Handled /\ HostInv /\ Offload!CommitForward => HostInv'
<1> SUFFICES ASSUME Handled, HostInv, Offload!CommitForward PROVE HostInv'
  OBVIOUS
<1>1. /\ oPc = "commit" /\ oOffloaded < Last
      /\ oState' = [g \in Offload!Groups |->
           IF g \in Offload!Leaving /\ oState[g] = "fwd" THEN "cpu" ELSE oState[g]]
      /\ oBuf' = IF Offload!AtWindowEnd THEN oBuf \ {oOffloaded} ELSE oBuf
      /\ oPc' = IF oCurrent + 1 = ModelLayers THEN "uncommit" ELSE "push"
      /\ UNCHANGED oPass
  BY DEF Offload!CommitForward, Last
<1>2. LET kicked == IF oCurrent = 0 THEN Offload!CopyOut(Offload!WaitFor(oLog, "d2h", "compute"), 0)
                                    ELSE oLog
          synced == IF Offload!AtWindowEnd THEN Offload!BothWays(kicked, "d2h") ELSE kicked
      IN  oLog' = IF Offload!AtWindowEnd /\ oOffloaded < Last - 1
                    THEN Offload!CopyOut(synced, oOffloaded + 1) ELSE synced
  BY DEF Offload!CommitForward, Last
<1>3. /\ oCurrent \in 0 .. Last /\ oOffloaded = (IF oCurrent = 0 THEN 0 ELSE oCurrent - 1)
      /\ oState = [g \in Offload!Groups |-> IF g < oCurrent THEN "cpu"
                                            ELSE IF g = oCurrent THEN "fwd" ELSE "none"]
      /\ oBuf = {g \in Offload!Groups : g \in {oCurrent - 1, oCurrent} /\ g < Last}
      /\ Offload!AtWindowEnd <=> oCurrent # 0
      /\ oCurrent < Last => Offload!Leaving = {oCurrent}
      /\ oCurrent = Last => Offload!Leaving = {}
  BY <1>1, Committing
<1>4. oCurrent \in Offload!Groups /\ oState[oCurrent] = "fwd" /\ oPass \in Nat
      /\ Sound(oLog, oBuf) /\ Ready(oLog, "compute", "fwd", oCurrent, oPass)
      /\ (\A g \in Offload!Groups : g < oCurrent => Ready(oLog, "d2h", "cpu", g, oPass))
      /\ CaughtUp(oLog, "compute", "h2d")
  BY <1>1, <1>3, ManyLayers DEF HostInv, Stocked
<1>5. "compute" \in Lanes /\ "d2h" \in Lanes /\ "h2d" \in Lanes
      /\ "fwd" \in Offload!Places /\ "cpu" \in Offload!Places
  BY LanesAre
<1>6. CASE oCurrent = 0
  <2> DEFINE k == Offload!WaitFor(oLog, "d2h", "compute")
             m == More(k, "d2h", Offload!Operation("fwd", "cpu", 0, {}))
  <2>1. oCurrent < Last /\ ~ Offload!AtWindowEnd /\ oBuf' = oBuf /\ 0 \in oBuf /\ oPc' = "push"
    BY <1>1, <1>3, <1>6, ManyLayers DEF Last
  <2>2. oLog' = m
    BY <1>2, <1>4, <1>6, <2>1 DEF Offload!CopyOut, More
  <2>3. \A g \in Offload!Groups : oState'[g] = IF g = 0 THEN "cpu" ELSE "none"
    BY <1>1, <1>3, <1>6, <2>1, ManyLayers
  <2>4. /\ Sound(k, oBuf) /\ k \in Logs /\ CaughtUp(k, "d2h", "compute")
        /\ CaughtUp(k, "compute", "h2d") /\ Ready(k, "compute", "fwd", 0, oPass)
    BY <1>4, <1>5, <1>6, SoundWait
  <2> HIDE DEF k
  <2>5. Ready(k, "d2h", "fwd", 0, oPass) /\ CaughtUp(k, "d2h", "h2d")
    BY <2>4, ReadyOn, CaughtThrough
  <2>6. Sound(m, oBuf) /\ Ready(m, "d2h", "cpu", 0, oPass) /\ CaughtUp(m, "compute", "h2d")
    BY <1>4, <1>5, <1>6, <2>1, <2>4, <2>5, CopiesOut
  <2> HIDE DEF m
  <2>7. Stocked(m, oState', oPass)
    BY <2>3, <2>6 DEF Stocked
  <2>8. QED
    BY <1>1, <1>4, <2>1, <2>2, <2>6, <2>7, HostPrimed
<1>7. CASE oCurrent # 0
  <2> DEFINE k == Offload!BothWays(oLog, "d2h")
  <2>1. Offload!AtWindowEnd /\ oOffloaded = oCurrent - 1
        /\ oBuf' = {g \in Offload!Groups : g = oCurrent /\ g < Last}
    BY <1>1, <1>3, <1>7, ManyLayers
  <2>2. BothWaited(k, oLog, oBuf, "d2h")
    BY <1>4, WaitBothWays
  <2> HIDE DEF k
  <2>3. /\ Sound(k, oBuf) /\ k \in Logs /\ CaughtUp(k, "compute", "d2h")
        /\ Ready(k, "compute", "fwd", oCurrent, oPass) /\ Ready(k, "d2h", "fwd", oCurrent, oPass)
        /\ (\A g \in Offload!Groups : g < oCurrent => Ready(k, "d2h", "cpu", g, oPass))
        /\ CaughtUp(k, "compute", "h2d") /\ CaughtUp(k, "d2h", "h2d")
    BY <1>4, <1>5, <2>2 DEF BothWaited
  <2>4. Sound(k, oBuf')
    BY <2>3, NothingHeld DEF Sound
  <2>5. CASE oCurrent < Last
    <3> DEFINE m == More(k, "d2h", Offload!Operation("fwd", "cpu", oCurrent, {}))
    <3>1. oCurrent \in oBuf' /\ oPc' = "push" /\ oOffloaded < Last - 1 /\ oOffloaded + 1 = oCurrent
      BY <1>1, <1>3, <1>4, <2>1, <2>5, ManyLayers DEF Last
    <3>2. oLog' = m
      BY <1>2, <1>4, <1>7, <2>1, <3>1 DEF Offload!CopyOut, More, k
    <3>3. \A g \in Offload!Groups : oState'[g] = IF g <= oCurrent THEN "cpu" ELSE "none"
      BY <1>1, <1>3, <2>5, ManyLayers
    <3>4. /\ Sound(m, oBuf') /\ Ready(m, "d2h", "cpu", oCurrent, oPass)
          /\ CaughtUp(m, "compute", "h2d")
          /\ \A u \in Lanes : \A p \in Offload!Places : \A h \in Offload!Groups :
               Ready(k, u, p, h, oPass) /\ ~ (p = "cpu" /\ h = oCurrent) => Ready(m, u, p, h, oPass)
      <4> DEFINE bf == oBuf'
      <4>1. Sound(k, bf) /\ oCurrent \in bf
        BY <2>4, <3>1
      <4> HIDE DEF bf
      <4>2. Sound(m, bf) /\ Ready(m, "d2h", "cpu", oCurrent, oPass)
            /\ (\A u, v \in Lanes : v # "d2h" /\ CaughtUp(k, u, v) => CaughtUp(m, u, v))
            /\ \A u \in Lanes : \A p \in Offload!Places : \A h \in Offload!Groups :
                 Ready(k, u, p, h, oPass) /\ ~ (p = "cpu" /\ h = oCurrent)
                   => Ready(m, u, p, h, oPass)
        BY <1>4, <2>3, <4>1, CopiesOut
      <4>3. CaughtUp(m, "compute", "h2d")
        BY <1>5, <2>3, <4>2
      <4> HIDE DEF m
      <4>4. QED
        BY <4>2, <4>3 DEF bf
    <3> HIDE DEF m
    <3>5. Stocked(m, oState', oPass)
      <4>1. \A g \in Offload!Groups : g < oCurrent => Ready(m, "d2h", "cpu", g, oPass)
        BY <1>3, <1>5, <2>3, <3>4, ManyLayers
      <4>2. \A g \in Offload!Groups : g <= oCurrent => g < oCurrent \/ g = oCurrent
        BY <1>3, ManyLayers
      <4>3. QED
        BY <3>3, <3>4, <4>1, <4>2 DEF Stocked
    <3>6. QED
      BY <1>1, <1>4, <3>1, <3>2, <3>4, <3>5, HostPrimed
  <2>6. CASE oCurrent = Last
    <3>1. oPc' = "uncommit" /\ ~ oOffloaded < Last - 1
      BY <1>1, <1>3, <2>1, <2>6, ManyLayers DEF Last
    <3>2. oLog' = k
      BY <1>2, <1>7, <2>1, <3>1 DEF k
    <3>3. \A g \in Offload!Groups : oState'[g] = IF g < oCurrent THEN "cpu"
                                                 ELSE IF g = oCurrent THEN "fwd" ELSE "none"
      BY <1>1, <1>3, <2>6
    <3>4. Stocked(k, oState', oPass)
      BY <2>3, <3>3 DEF Stocked
    <3>5. QED
      BY <1>1, <1>4, <2>3, <2>4, <3>1, <3>2, <3>4, HostPrimed
  <2>7. QED
    BY <1>3, <2>5, <2>6, ManyLayers
<1>8. QED
  BY <1>6, <1>7

\* ... one of the backward pass copies back what was copied out, to memory whose
\* readers are behind it, ...
LEMMA HostUncommit == Handled /\ HostInv /\ Offload!CommitBackward => HostInv'
<1> SUFFICES ASSUME Handled, HostInv, Offload!CommitBackward PROVE HostInv'
  OBVIOUS
<1> DEFINE layer == oCurrent - 1
           group == oOffloaded - 1
           returns == Offload!WindowEnd(group) = layer
           reloaded == IF returns THEN Offload!CopyBack(Offload!BothWays(oLog, "h2d"), group)
                                  ELSE oLog
<1>1. /\ oPc = "uncommit" /\ oPc' = "pop" /\ oCurrent' = layer
      /\ oState' = [g \in Offload!Groups |->
              IF returns /\ g = group /\ oState[g] = "cpu" THEN "back" ELSE oState[g]]
      /\ oLog' = IF layer = 0 THEN Offload!WaitFor(reloaded, "compute", "h2d") ELSE reloaded
      /\ UNCHANGED <<oPass, oBuf>>
  BY DEF Offload!CommitBackward
<1>2. /\ layer \in 0 .. Last /\ group \in 0 .. Last - 1 /\ (returns <=> layer # 0)
      /\ layer # 0 => group = layer - 1
      /\ oState = [g \in Offload!Groups |-> IF g < layer THEN "cpu" ELSE IF g > layer THEN "none"
                                            ELSE IF g = Last THEN "fwd" ELSE "back"]
  <2>1. /\ layer \in 0 .. Last /\ group \in 0 .. Last - 1 /\ (returns <=> layer # 0)
        /\ layer # 0 => group = oCurrent - 2
        /\ oState = [g \in Offload!Groups |->
              IF g < oCurrent - 1 THEN "cpu" ELSE IF g > oCurrent - 1 THEN "none"
              ELSE IF g = Last THEN "fwd" ELSE "back"]
        /\ oCurrent \in 1 .. ModelLayers
    BY <1>1, Uncommitting
  <2>2. oCurrent - 2 = layer - 1
    BY <2>1, ManyLayers
  <2>3. QED
    BY <2>1, <2>2
<1>3. /\ oPass \in Nat /\ Sound(oLog, oBuf) /\ Stocked(oLog, oState, oPass)
      /\ CaughtUp(oLog, "compute", "d2h")
  BY <1>1 DEF HostInv
<1>4. /\ "compute" \in Lanes /\ "d2h" \in Lanes /\ "h2d" \in Lanes
      /\ "fwd" \in Offload!Places /\ "cpu" \in Offload!Places /\ "back" \in Offload!Places
  BY LanesAre
<1>5. CASE layer = 0
  <2> DEFINE m == Offload!WaitFor(oLog, "compute", "h2d")
  <2>1. oLog' = m
    BY <1>1, <1>2, <1>5
  <2>2. \A g \in Offload!Groups : oState'[g] = oState[g]
    BY <1>1, <1>2, <1>5, ManyLayers
  <2>3. /\ Sound(m, oBuf) /\ CaughtUp(m, "compute", "h2d") /\ CaughtUp(m, "compute", "d2h")
        /\ \A u \in Lanes : \A p \in Offload!Places : \A g, q :
             Ready(oLog, u, p, g, q) => Ready(m, u, p, g, q)
    BY <1>3, <1>4, SoundWait
  <2> HIDE DEF m, layer
  <2>4. Stocked(m, oState', oPass)
    BY <1>3, <1>4, <2>2, <2>3 DEF Stocked
  <2>5. oState'[oCurrent'] = "back" => Ready(m, "compute", "back", oCurrent', oPass)
    <3>1. oCurrent' \in Offload!Groups
      BY <1>1, <1>2, <1>5, ManyLayers
    <3>2. oState'[oCurrent'] = "back" => Ready(m, "h2d", "back", oCurrent', oPass)
      BY <2>4, <3>1 DEF Stocked
    <3>3. QED
      BY <2>3, <3>2, ReadyOn
  <2>6. QED
    BY <1>1, <1>3, <2>1, <2>3, <2>4, <2>5, HostPrimed
<1>6. CASE layer # 0
  <2> DEFINE k == Offload!BothWays(oLog, "h2d")
             m == More(k, "h2d", Offload!Operation("cpu", "back", group, Offload!Reusable("back")))
  <2>1. /\ group \in Offload!Groups /\ layer \in Offload!Groups /\ group = layer - 1 /\ returns
        /\ group # layer /\ oState[group] = "cpu"
    BY <1>2, <1>6, ManyLayers
  <2>2. oLog' = m
    BY <1>1, <1>6, <2>1 DEF Offload!CopyBack, More
  <2>3. \A g \in Offload!Groups : oState'[g] = IF g = group THEN "back" ELSE oState[g]
    BY <1>1, <2>1
  <2>4. BothWaited(k, oLog, oBuf, "h2d")
    BY <1>3, WaitBothWays
  <2>5. Ready(oLog, "d2h", "cpu", group, oPass)
    BY <1>3, <2>1 DEF Stocked
  <2>6. Ready(oLog, "compute", "cpu", group, oPass)
    BY <1>3, <2>5, ReadyOn
  <2> HIDE DEF k
  <2>7. /\ Sound(k, oBuf) /\ k \in Logs /\ CaughtUp(k, "compute", "h2d")
        /\ CaughtUp(k, "compute", "d2h") /\ Ready(k, "h2d", "cpu", group, oPass)
        /\ \A i \in 1 .. Len(k["compute"]) : \A h \in Offload!Groups :
             Reads(k["compute"][i], "back", h) => Needs(k, "h2d", Len(k["h2d"]), "compute", i)
        /\ \A u \in Lanes : \A p \in Offload!Places : \A g, q :
             Ready(oLog, u, p, g, q) => Ready(k, u, p, g, q)
    BY <1>3, <1>4, <2>4, <2>6 DEF BothWaited
  <2>8. /\ Sound(m, oBuf) /\ Ready(m, "h2d", "back", group, oPass)
        /\ (\A u, v \in Lanes : v # "h2d" /\ CaughtUp(k, u, v) => CaughtUp(m, u, v))
        /\ \A u \in Lanes : \A p \in Offload!Places : \A h \in Offload!Groups :
             Ready(k, u, p, h, oPass) /\ (p = "back" => h # group /\ oState[h] = "back")
               => Ready(m, u, p, h, oPass)
    <3> HIDE DEF layer, group
    <3>1. QED
      BY <1>3, <2>1, <2>7, CopiesBack
  <2> HIDE DEF m, layer, group
  <2>9. Stocked(m, oState', oPass)
    <3> SUFFICES ASSUME NEW g \in Offload!Groups
                 PROVE  /\ oState'[g] = "fwd" => Ready(m, "compute", "fwd", g, oPass)
                        /\ oState'[g] = "cpu" => Ready(m, "d2h", "cpu", g, oPass)
                        /\ oState'[g] = "back" => Ready(m, "h2d", "back", g, oPass)
      BY DEF Stocked
    <3>1. CASE g = group
      BY <2>3, <2>8, <3>1
    <3>2. CASE g # group
      <4>1. /\ oState[g] = "fwd" => Ready(k, "compute", "fwd", g, oPass)
            /\ oState[g] = "cpu" => Ready(k, "d2h", "cpu", g, oPass)
            /\ oState[g] = "back" => Ready(k, "h2d", "back", g, oPass)
        BY <1>3, <1>4, <2>7 DEF Stocked
      <4>2. QED
        BY <1>4, <2>3, <2>8, <3>2, <4>1
    <3>3. QED
      BY <3>1, <3>2
  <2>10. CaughtUp(m, "compute", "d2h")
    BY <1>4, <2>7, <2>8
  <2>11. oState'[layer] = "back" => Ready(m, "compute", "back", layer, oPass)
    <3> SUFFICES ASSUME oState'[layer] = "back" PROVE Ready(m, "compute", "back", layer, oPass)
      OBVIOUS
    <3>1. oState[layer] = "back"
      BY <2>1, <2>3
    <3>2. Ready(oLog, "h2d", "back", layer, oPass)
      BY <1>3, <2>1, <3>1 DEF Stocked
    <3>3. Ready(k, "h2d", "back", layer, oPass)
      BY <1>4, <2>7, <3>2
    <3>4. Ready(k, "compute", "back", layer, oPass)
      BY <2>7, <3>3, ReadyOn
    <3>5. QED
      BY <1>4, <2>1, <2>8, <3>1, <3>4
  <2>12. QED
    BY <1>1, <1>3, <1>6, <2>2, <2>8, <2>9, <2>10, <2>11, HostPrimed
<1>7. QED
  BY <1>5, <1>6

\* ... and tensor_pop reads what was kept or has been copied back.
LEMMA HostPop == Handled /\ HostInv /\ Offload!TensorPop => HostInv'
<1> SUFFICES ASSUME Handled, HostInv, Offload!TensorPop PROVE HostInv'
  OBVIOUS
<1> DEFINE from == oState[oCurrent]
           m == More(oLog, "compute",
                     Offload!Operation(from, "none", oCurrent, Offload!Reusable("fwd")))
<1>1. /\ oPc = "pop" /\ from \in {"fwd", "back"} /\ oLog' = m
      /\ oState' = [oState EXCEPT ![oCurrent] = "none"]
      /\ oBuf' = oBuf \ {oCurrent} /\ oCurrent' = oCurrent
      /\ IF oCurrent > 0 THEN oPc' = "uncommit" /\ oPass' = oPass
         ELSE /\ oPc' \in {"push", "done"} /\ oPass' \in {oPass, oPass + 1}
  BY DEF Offload!TensorPop, Offload!NoPlace, More
<1>2. /\ oCurrent \in 0 .. Last /\ oCurrent \in Offload!Groups /\ oBuf = {}
      /\ oState \in [Offload!Groups -> {"cpu", "none", "fwd", "back"}]
      /\ \A g \in Offload!Groups : oState[g] = "fwd" => g = oCurrent
      /\ \A g \in Offload!Groups : oState[g] # "none" => g <= oCurrent
  BY <1>1, ManyLayers DEF Handled
<1>3. /\ oPass \in Nat /\ Sound(oLog, oBuf) /\ Stocked(oLog, oState, oPass)
      /\ CaughtUp(oLog, "compute", "d2h")
      /\ from = "back" => Ready(oLog, "compute", "back", oCurrent, oPass)
      /\ oCurrent = 0 => CaughtUp(oLog, "compute", "h2d")
  BY <1>1 DEF HostInv
<1>4. Ready(oLog, "compute", from, oCurrent, oPass)
  BY <1>1, <1>2, <1>3 DEF Stocked
<1>5. "compute" \in Lanes /\ "d2h" \in Lanes /\ "h2d" \in Lanes
      /\ "cpu" \in Offload!Places /\ "back" \in Offload!Places
  BY LanesAre
<1>6. /\ Sound(m, oBuf)
      /\ (\A u, v \in Lanes : v # "compute" /\ CaughtUp(oLog, u, v) => CaughtUp(m, u, v))
      /\ \A u \in Lanes : \A p \in {"cpu", "back"} : \A h \in Offload!Groups :
           Ready(oLog, u, p, h, oPass) => Ready(m, u, p, h, oPass)
  <2> HIDE DEF from
  <2>1. from \in {"none", "fwd", "back"} /\ "none" \in {"none", "fwd"}
    BY <1>1
  <2>2. /\ Sound(m, oBuf)
        /\ (\A u, v \in Lanes : v # "compute" /\ CaughtUp(oLog, u, v) => CaughtUp(m, u, v))
        /\ \A u \in Lanes : \A p \in Offload!Places : \A h \in Offload!Groups :
             /\ Ready(oLog, u, p, h, oPass)
             /\ p = "fwd" => oState[h] = "fwd" /\ ~ ("none" = "fwd" /\ h = oCurrent)
             => Ready(m, u, p, h, oPass)
    BY <1>2, <1>3, <1>4, <2>1, Computes
  <2> HIDE DEF m
  <2>3. QED
    BY <1>5, <2>2
<1> HIDE DEF m
<1>7. \A g \in Offload!Groups : oState'[g] = IF g = oCurrent THEN "none" ELSE oState[g]
  BY <1>1, <1>2
<1>8. Sound(m, oBuf') /\ CaughtUp(m, "compute", "d2h")
      /\ (oCurrent = 0 => CaughtUp(m, "compute", "h2d"))
  <2>1. oBuf' = oBuf
    BY <1>1, <1>2
  <2>2. QED
    BY <1>3, <1>5, <1>6, <2>1
<1>9. Stocked(m, oState', oPass')
  <2>1. CASE oCurrent = 0
    <3>1. \A g \in Offload!Groups : oState'[g] = "none"
      BY <1>2, <1>7, <2>1, ManyLayers
    <3>2. QED
      BY <3>1 DEF Stocked
  <2>2. CASE oCurrent > 0
    <3>1. oPass' = oPass
      BY <1>1, <2>2
    <3>2. \A g \in Offload!Groups : oState'[g] # "fwd"
      BY <1>2, <1>7
    <3>3. QED
      BY <1>3, <1>5, <1>6, <1>7, <3>1, <3>2 DEF Stocked
  <2>3. QED
    BY <1>2, <2>1, <2>2, ManyLayers
<1>10. oPass' \in Nat /\ oPc' \in {"uncommit", "push", "done"} /\ (oPc' = "push" => oCurrent = 0)
  BY <1>1, <1>2, <1>3, ManyLayers
<1>11. QED
  BY <1>1, <1>8, <1>9, <1>10, HostPrimed

\* Nothing is on the streams when training starts.
LEMMA HostInitially == Offload!Init => HostInv
<1> SUFFICES ASSUME Offload!Init PROVE HostInv
  OBVIOUS
<1>1. /\ oPc = "push" /\ oPass = 1 /\ oState = [g \in Offload!Groups |-> "none"]
      /\ oLog = [s \in Lanes |-> <<>>]
  BY DEF Offload!Init, Lanes
<1>2. \A s \in Lanes : oLog[s] = <<>> /\ Len(oLog[s]) = 0
  BY <1>1
<1>3. oLog \in Logs
  BY <1>1 DEF Logs
<1>4. \A s \in Lanes : \A i \in 1 .. Len(oLog[s]) : FALSE
  BY <1>2
<1>5. Sound(oLog, oBuf)
  BY <1>3, <1>4, LanesAre DEF Sound, Ordered, CopiedOut
<1>6. Stocked(oLog, oState, oPass)
  BY <1>1 DEF Stocked
<1>7. CaughtUp(oLog, "compute", "h2d")
  <2>1. "h2d" \in Lanes
    BY LanesAre
  <2>2. QED
    BY <1>2, <2>1 DEF CaughtUp, Needs
<1>8. QED
  BY <1>1, <1>5, <1>6, <1>7 DEF HostInv

\* m is l, with perhaps more on its streams.
Extends(m, l) ==
  /\ m \in Logs
  /\ \A s \in Lanes : /\ Len(l[s]) \in Nat /\ Len(m[s]) \in Nat /\ Len(l[s]) <= Len(m[s])
                      /\ \A i \in 1 .. Len(l[s]) : m[s][i] = l[s][i]

\* Nothing more, ...
LEMMA ExtendsItself == \A l \in Logs : Extends(l, l)
BY DEF Extends, Logs

\* ... more and still more, ...
LEMMA ExtendsThrough ==
  ASSUME NEW l, NEW m, NEW n, Extends(m, l), Extends(n, m)
  PROVE  Extends(n, l)
BY DEF Extends

\* ... one entry more, ...
LEMMA ExtendsMore ==
  ASSUME NEW l \in Logs, NEW s \in Lanes, NEW e \in Tasks \cup Waits
  PROVE  Extends(More(l, s, e), l)
<1> DEFINE m == More(l, s, e)
<1>1. Continues(m, l, s, e)
  BY OneMore
<1> HIDE DEF m
<1>2. QED
  BY <1>1 DEF Continues, Extends, m

\* ... a wait, ...
LEMMA ExtendsWait ==
  ASSUME NEW l \in Logs, NEW s \in Lanes, NEW t \in Lanes
  PROVE  Extends(Offload!WaitFor(l, s, t), l)
<1>1. Offload!WaitFor(l, s, t) = More(l, s, Offload!Wait(t, Len(l[t])))
  BY DEF Offload!WaitFor, More
<1>2. Offload!Wait(t, Len(l[t])) \in Waits
  BY DEF Offload!Wait, Waits, Logs
<1>3. QED
  BY <1>1, <1>2, ExtendsMore

\* ... two of them, ...
LEMMA ExtendsBothWays ==
  ASSUME NEW l \in Logs, NEW s \in Lanes
  PROVE  Extends(Offload!BothWays(l, s), l)
<1> DEFINE k == Offload!WaitFor(l, s, "compute")
<1>1. "compute" \in Lanes
  BY LanesAre
<1>2. Extends(k, l) /\ k \in Logs
  BY <1>1, ExtendsWait DEF Extends
<1>3. Offload!BothWays(l, s) = Offload!WaitFor(k, "compute", s)
  BY DEF Offload!BothWays
<1> HIDE DEF k
<1>4. QED
  BY <1>1, <1>2, <1>3, ExtendsWait, ExtendsThrough

\* ... and an operation.
LEMMA ExtendsTask ==
  ASSUME NEW l \in Logs, NEW s \in Lanes, NEW from \in Offload!Places \cup {"none"},
         NEW to \in Offload!Places \cup {"none"}, NEW g \in Offload!Groups,
         NEW over \in SUBSET Cells, oPass \in Nat
  PROVE  Extends(More(l, s, Offload!Operation(from, to, g, over)), l)
<1>1. Offload!Operation(from, to, g, over) \in Tasks
  BY OperationIs DEF IsTask
<1>2. QED
  BY <1>1, ExtendsMore

\* The host takes nothing off a stream.
LEMMA HostExtends ==
  ASSUME Handled, HostInv, Offload!Host
  PROVE  Extends(oLog', oLog)
<1>1. oLog \in Logs /\ oPass \in Nat
  BY DEF HostInv, Sound, Ordered
<1>2. /\ "compute" \in Lanes /\ "d2h" \in Lanes /\ "h2d" \in Lanes
      /\ "fwd" \in Offload!Places /\ "cpu" \in Offload!Places /\ "back" \in Offload!Places
  BY LanesAre
<1>3. \A p \in Offload!Places : Offload!Reusable(p) \in SUBSET Cells
  BY DEF Offload!Reusable, Cells
<1>4. {} \in SUBSET Cells
  OBVIOUS
<1>5. \A l \in Logs, g \in Offload!Groups : Extends(Offload!CopyOut(l, g), l)
  <2> SUFFICES ASSUME NEW l \in Logs, NEW g \in Offload!Groups
               PROVE  Extends(Offload!CopyOut(l, g), l)
    OBVIOUS
  <2>1. Offload!CopyOut(l, g) = IF oState[g] = "fwd"
          THEN More(l, "d2h", Offload!Operation("fwd", "cpu", g, {})) ELSE l
    BY DEF Offload!CopyOut, More
  <2>2. Extends(More(l, "d2h", Offload!Operation("fwd", "cpu", g, {})), l)
    BY <1>1, <1>2, <1>4, ExtendsTask
  <2>3. QED
    BY <2>1, <2>2, ExtendsItself
<1>6. \A l \in Logs, g \in Offload!Groups : Extends(Offload!CopyBack(l, g), l)
  <2> SUFFICES ASSUME NEW l \in Logs, NEW g \in Offload!Groups
               PROVE  Extends(Offload!CopyBack(l, g), l)
    OBVIOUS
  <2>1. Offload!CopyBack(l, g) = IF oState[g] = "cpu"
          THEN More(l, "h2d", Offload!Operation("cpu", "back", g, Offload!Reusable("back"))) ELSE l
    BY DEF Offload!CopyBack, More
  <2>2. Extends(More(l, "h2d", Offload!Operation("cpu", "back", g, Offload!Reusable("back"))), l)
    BY <1>1, <1>2, <1>3, ExtendsTask
  <2>3. QED
    BY <2>1, <2>2, ExtendsItself
<1>7. \A m, l : Extends(m, l) => m \in Logs
  BY DEF Extends
<1>8. CASE Offload!TensorPush
  <2>1. oCurrent \in Offload!Groups
    BY <1>8, ManyLayers DEF Offload!TensorPush, Handled
  <2>2. oLog' = More(oLog, "compute",
                     Offload!Operation("none", "fwd", oCurrent, Offload!Reusable("fwd")))
    BY <1>8 DEF Offload!TensorPush, Offload!NoPlace, More
  <2>3. QED
    BY <1>1, <1>2, <1>3, <2>1, <2>2, ExtendsTask
<1>9. CASE Offload!TensorPop
  <2>1. oCurrent \in Offload!Groups /\ oState[oCurrent] \in Offload!Places
    BY <1>2, <1>9, ManyLayers DEF Offload!TensorPop, Handled
  <2>2. oLog' = More(oLog, "compute",
                     Offload!Operation(oState[oCurrent], "none", oCurrent, Offload!Reusable("fwd")))
    BY <1>9 DEF Offload!TensorPop, Offload!NoPlace, More
  <2>3. QED
    BY <1>1, <1>2, <1>3, <2>1, <2>2, ExtendsTask
<1>10. CASE Offload!CommitForward
  <2> DEFINE kicked == IF oCurrent = 0
                         THEN Offload!CopyOut(Offload!WaitFor(oLog, "d2h", "compute"), 0) ELSE oLog
             synced == IF Offload!AtWindowEnd THEN Offload!BothWays(kicked, "d2h") ELSE kicked
  <2>1. oLog' = IF Offload!AtWindowEnd /\ oOffloaded < Last - 1
                  THEN Offload!CopyOut(synced, oOffloaded + 1) ELSE synced
    BY <1>10 DEF Offload!CommitForward, Last
  <2>2. 0 \in Offload!Groups /\ (oOffloaded < Last - 1 => oOffloaded + 1 \in Offload!Groups)
    BY <1>10, ManyLayers DEF Offload!CommitForward, Handled
  <2>3. Extends(kicked, oLog)
    <3> DEFINE k == Offload!WaitFor(oLog, "d2h", "compute")
    <3>1. Extends(k, oLog) /\ k \in Logs
      BY <1>1, <1>2, <1>7, ExtendsWait
    <3> HIDE DEF k
    <3>2. Extends(Offload!CopyOut(k, 0), oLog)
      BY <1>5, <2>2, <3>1, ExtendsThrough
    <3>3. QED
      BY <1>1, <3>2, ExtendsItself DEF k
  <2> HIDE DEF kicked
  <2>4. Extends(synced, oLog)
    <3>1. Extends(Offload!BothWays(kicked, "d2h"), oLog)
      BY <1>2, <1>7, <2>3, ExtendsBothWays, ExtendsThrough
    <3>2. QED
      BY <2>3, <3>1
  <2> HIDE DEF synced
  <2>5. oOffloaded < Last - 1 => Extends(Offload!CopyOut(synced, oOffloaded + 1), oLog)
    BY <1>5, <1>7, <2>2, <2>4, ExtendsThrough
  <2>6. QED
    BY <2>1, <2>4, <2>5
<1>11. CASE Offload!CommitBackward
  <2> DEFINE layer == oCurrent - 1
             group == oOffloaded - 1
             k == Offload!BothWays(oLog, "h2d")
             reloaded == IF Offload!WindowEnd(group) = layer THEN Offload!CopyBack(k, group) ELSE oLog
  <2>1. oLog' = IF layer = 0 THEN Offload!WaitFor(reloaded, "compute", "h2d") ELSE reloaded
    BY <1>11 DEF Offload!CommitBackward
  <2>2. group \in Offload!Groups
    <3>1. oOffloaded - 1 \in 0 .. Last - 1
      BY <1>11, Uncommitting DEF Offload!CommitBackward
    <3>2. QED
      BY <3>1, ManyLayers
  <2>3. Extends(k, oLog)
    BY <1>1, <1>2, ExtendsBothWays
  <2> HIDE DEF k, group, layer
  <2>4. Extends(reloaded, oLog)
    <3>1. Extends(Offload!CopyBack(k, group), oLog)
      BY <1>6, <1>7, <2>2, <2>3, ExtendsThrough
    <3>2. QED
      BY <1>1, <3>1, ExtendsItself
  <2> HIDE DEF reloaded
  <2>5. Extends(Offload!WaitFor(reloaded, "compute", "h2d"), oLog)
    BY <1>2, <1>7, <2>4, ExtendsWait, ExtendsThrough
  <2>6. QED
    BY <2>1, <2>4, <2>5
<1>12. QED
  BY <1>8, <1>9, <1>10, <1>11 DEF Offload!Host

------------------------------------------------------------------------------
(* The device.                                                               *)

\* Memory holds what was written there last, if nothing that ran since touched
\* it.
DeviceInv ==
  /\ oRan \in [Lanes -> Nat] /\ Respects(oLog, oRan)
  /\ \A s \in Lanes : oRan[s] <= Len(oLog[s])
  /\ \A p \in Offload!Places, g \in Offload!Groups :
       \A j \in 1 .. oRan[Writer(p)] : \A q :
         /\ Writes(oLog[Writer(p)][j], p, g, q)
         /\ \A k \in j + 1 .. oRan[Writer(p)] : ~ Touches(oLog[Writer(p)][k], p, g)
         => oMemory[p][g] = q

\* So what an operation about to run reads is what its own pass wrote.
LEMMA Intact == HostInv /\ DeviceInv => ActivationsIntact
<1> SUFFICES ASSUME HostInv, DeviceInv, NEW s \in Lanes, Offload!Pending(s),
                    ~ Offload!IsWait(Offload!First(s)), Offload!First(s).from # "none"
             PROVE  oMemory[Offload!First(s).from][Offload!First(s).group] = Offload!First(s).pass
  BY DEF ActivationsIntact, Offload!ActivationsIntact, Lanes, Offload!NoPlace
<1> DEFINE i == oRan[s] + 1
           op == oLog[s][i]
           p == op.from
           g == op.group
           w == Writer(p)
<1>1. Ordered(oLog) /\ oLog \in Logs
  BY DEF HostInv, Sound, Ordered
<1>2. \A t \in Lanes : Len(oLog[t]) \in Nat /\ oRan[t] \in Nat /\ oRan[t] <= Len(oLog[t])
  BY <1>1 DEF Logs, DeviceInv
<1>3. Offload!First(s) = op /\ i \in 1 .. Len(oLog[s])
  BY <1>2 DEF Offload!First, Offload!Pending
<1>4. op \in Tasks
  <2>1. oLog[s] \in Seq(Tasks \cup Waits)
    BY <1>1 DEF Logs
  <2> HIDE DEF Tasks, Waits
  <2>2. op \in Tasks \cup Waits
    BY <1>3, <2>1
  <2>3. QED
    BY <1>3, <2>2, Kinds
<1>5. p \in Offload!Places /\ g \in Offload!Groups /\ Reads(op, p, g)
  BY <1>3, <1>4 DEF Tasks, Reads
<1>6. w \in Lanes
  BY <1>5, Kinds
<1>7. RaceFree(oLog, s, i, p, g)
  BY <1>1, <1>3, <1>5 DEF Ordered
<1> HIDE DEF w
<1>8. PICK j \in 1 .. Len(oLog[w]) :
        /\ Writes(oLog[w][j], p, g, op.pass) /\ Needs(oLog, s, i - 1, w, j)
        /\ \A k \in j + 1 .. Len(oLog[w]) : Touches(oLog[w][k], p, g) => Needs(oLog, w, k, s, i)
  BY <1>7 DEF RaceFree, w
<1> HIDE DEF p, g, op
<1>9. oRan \in [Lanes -> Nat] /\ Respects(oLog, oRan)
  BY DEF DeviceInv
<1>10. j \in 1 .. oRan[w]
  <2>1. oRan[s] >= i - 1
    BY <1>2
  <2>2. oRan[w] >= j
    BY <1>8, <1>9, <2>1 DEF Needs
  <2>3. QED
    BY <1>2, <1>6, <2>2
<1>11. ASSUME NEW k \in j + 1 .. oRan[w], Touches(oLog[w][k], p, g) PROVE FALSE
  <2>1. k \in j + 1 .. Len(oLog[w]) /\ oRan[w] >= k
    BY <1>2, <1>6
  <2>2. Needs(oLog, w, k, s, i)
    BY <1>8, <1>11, <2>1
  <2>3. oRan[s] >= i
    BY <1>9, <2>1, <2>2 DEF Needs
  <2>4. QED
    BY <1>2, <2>3
<1>12. oMemory[p][g] = op.pass
  BY <1>5, <1>8, <1>10, <1>11 DEF DeviceInv, w
<1>13. QED
  BY <1>3, <1>12 DEF p, g

\* A stream runs its next operation.
LEMMA DeviceRuns ==
  ASSUME HostInv, DeviceInv, NEW s \in Lanes, Offload!Run(s)
  PROVE  DeviceInv'
<1> DEFINE i == oRan[s] + 1
           op == oLog[s][i]
<1>1. Ordered(oLog) /\ oLog \in Logs /\ oRan \in [Lanes -> Nat] /\ Respects(oLog, oRan)
  BY DEF HostInv, Sound, Ordered, DeviceInv
<1>2. \A t \in Lanes : Len(oLog[t]) \in Nat /\ oRan[t] \in Nat /\ oRan[t] <= Len(oLog[t])
  BY <1>1 DEF Logs, DeviceInv
<1>3. Offload!First(s) = op /\ i \in 1 .. Len(oLog[s]) /\ oLog' = oLog
      /\ oRan' = [oRan EXCEPT ![s] = i]
  BY <1>2 DEF Offload!First, Offload!Pending, Offload!Run
<1>4. op \in Tasks \cup Waits
  <2>1. oLog[s] \in Seq(Tasks \cup Waits)
    BY <1>1 DEF Logs
  <2> HIDE DEF Tasks, Waits
  <2>2. QED
    BY <1>3, <2>1
<1>5. \A t \in Lanes : oRan'[t] = IF t = s THEN i ELSE oRan[t]
  BY <1>1, <1>3
<1>6. oRan' \in [Lanes -> Nat] /\ \A t \in Lanes : oRan'[t] <= Len(oLog[t]) /\ oRan'[t] >= oRan[t]
  BY <1>1, <1>2, <1>3, <1>5
<1>7. op \in Waits => oRan[op.on] >= op.upTo /\ oMemory' = oMemory
  <2> HIDE DEF op
  <2>1. QED
    BY <1>3, Kinds DEF Offload!Run
<1>8. op \in Tasks => oMemory' = [p \in Offload!Places |-> [g \in Offload!Groups |->
                        IF p = op.to /\ g = op.group THEN Offload!Written(op)
                        ELSE IF <<p, g>> \in op.over THEN 0 ELSE oMemory[p][g]]]
  <2> HIDE DEF op
  <2>1. QED
    BY <1>3, Kinds DEF Offload!Run, Offload!Junk
<1> HIDE DEF op
<1>9. Respects(oLog, oRan')
  <2> SUFFICES ASSUME NEW v \in Lanes, NEW k \in 1 .. Len(oLog[v]), k <= oRan'[v],
                      oLog[v][k] \in Waits
               PROVE  oRan'[oLog[v][k].on] >= oLog[v][k].upTo
    BY DEF Respects
  <2>1. oRan[oLog[v][k].on] >= oLog[v][k].upTo
    <3>1. CASE k <= oRan[v]
      BY <1>1, <3>1 DEF Respects
    <3>2. CASE ~ k <= oRan[v]
      <4>1. v = s /\ k = i
        BY <1>2, <1>5, <3>2
      <4>2. QED
        BY <1>7, <4>1 DEF op
    <3>3. QED
      BY <3>1, <3>2
  <2>2. oLog[v][k].on \in Lanes /\ oLog[v][k].upTo \in Nat
    BY Kinds
  <2> HIDE DEF i
  <2>3. QED
    BY <1>2, <1>6, <2>1, <2>2
<1>10. ASSUME NEW p \in Offload!Places, NEW g \in Offload!Groups,
              NEW j \in 1 .. oRan'[Writer(p)], NEW q, Writes(oLog[Writer(p)][j], p, g, q),
              \A k \in j + 1 .. oRan'[Writer(p)] : ~ Touches(oLog[Writer(p)][k], p, g)
       PROVE  oMemory'[p][g] = q
  <2> DEFINE w == Writer(p)
  <2>1. w \in Lanes
    BY Kinds
  <2>2. ASSUME j \in 1 .. oRan[w], ~ Touches(op, p, g) PROVE oMemory'[p][g] = q
    <3>1. \A k \in j + 1 .. oRan[w] : k \in j + 1 .. oRan'[w]
      <4> HIDE DEF w
      <4>1. QED
        BY <1>2, <1>6, <2>1
    <3>2. oMemory[p][g] = q
      BY <1>10, <2>2, <3>1 DEF DeviceInv
    <3>3. op \in Tasks => oMemory'[p][g] = oMemory[p][g]
      BY <1>8, <2>2 DEF Touches
    <3>4. QED
      BY <1>4, <1>7, <3>2, <3>3
  <2>3. CASE w # s
    <3>1. oRan'[w] = oRan[w]
      BY <1>5, <2>1, <2>3
    <3>2. ~ Touches(op, p, g)
      BY <1>1, <1>3, <2>3 DEF Ordered, op
    <3>3. QED
      BY <2>2, <3>1, <3>2
  <2>4. CASE w = s /\ j <= oRan[s]
    <3>1. i \in j + 1 .. oRan'[w] /\ j \in 1 .. oRan[w]
      BY <1>2, <1>5, <2>1, <2>4
    <3>2. ~ Touches(op, p, g)
      BY <1>10, <2>4, <3>1 DEF op
    <3>3. QED
      BY <2>2, <3>1, <3>2
  <2>5. CASE w = s /\ ~ j <= oRan[s]
    <3>1. j = i
      BY <1>2, <1>5, <2>1, <2>5
    <3>2. op \in Tasks /\ op.to = p /\ op.group = g /\ op.pass = q
      BY <1>10, <2>5, <3>1 DEF Writes, op
    <3>3. oMemory'[p][g] = Offload!Written(op)
      BY <1>8, <3>2
    <3>4. Offload!Written(op) = q
      <4>1. CASE op.from = "none"
        BY <3>2, <4>1 DEF Offload!Written, Offload!NoPlace
      <4>2. CASE op.from # "none"
        <5>1. ActivationsIntact
          BY Intact
        <5>2. ~ Offload!IsWait(op)
          BY <3>2, Kinds
        <5>3. Offload!Pending(s) /\ s \in Offload!Streams
          BY <1>2, <1>3 DEF Offload!Pending, Lanes
        <5>4. oMemory[op.from][op.group] = op.pass
          BY <1>3, <4>2, <5>1, <5>2, <5>3
             DEF ActivationsIntact, Offload!ActivationsIntact, Offload!NoPlace
        <5>5. QED
          BY <3>2, <4>2, <5>4 DEF Offload!Written, Offload!NoPlace
      <4>3. QED
        BY <4>1, <4>2
    <3>5. QED
      BY <3>3, <3>4
  <2>6. QED
    BY <2>3, <2>4, <2>5
<1>11. QED
  BY <1>3, <1>6, <1>9, <1>10 DEF DeviceInv, Offload!Groups, Offload!Places

\* The host puts more on the streams.
LEMMA DeviceStays ==
  ASSUME DeviceInv, Extends(oLog', oLog), UNCHANGED <<oRan, oMemory>>
  PROVE  DeviceInv'
<1>1. \A s \in Lanes : /\ Len(oLog[s]) \in Nat /\ Len(oLog'[s]) \in Nat
                       /\ Len(oLog[s]) <= Len(oLog'[s]) /\ oRan[s] \in Nat
                       /\ oRan[s] <= Len(oLog[s])
                       /\ \A i \in 1 .. Len(oLog[s]) : oLog'[s][i] = oLog[s][i]
  BY DEF Extends, DeviceInv
<1>2. \A s \in Lanes : \A i \in 1 .. oRan[s] : i \in 1 .. Len(oLog[s]) /\ oLog'[s][i] = oLog[s][i]
  BY <1>1
<1>3. Respects(oLog', oRan)
  <2> SUFFICES ASSUME NEW v \in Lanes, NEW k \in 1 .. Len(oLog'[v]), k <= oRan[v],
                      oLog'[v][k] \in Waits
               PROVE  oRan[oLog'[v][k].on] >= oLog'[v][k].upTo
    BY DEF Respects
  <2>1. k \in 1 .. oRan[v]
    BY <1>1
  <2>2. QED
    BY <1>2, <2>1 DEF DeviceInv, Respects
<1>4. ASSUME NEW p \in Offload!Places, NEW g \in Offload!Groups,
             NEW j \in 1 .. oRan[Writer(p)], NEW q, Writes(oLog'[Writer(p)][j], p, g, q),
             \A k \in j + 1 .. oRan[Writer(p)] : ~ Touches(oLog'[Writer(p)][k], p, g)
      PROVE  oMemory[p][g] = q
  <2> DEFINE w == Writer(p)
  <2>1. w \in Lanes
    BY Kinds
  <2>2. Writes(oLog[w][j], p, g, q)
    BY <1>2, <1>4, <2>1
  <2>3. \A k \in j + 1 .. oRan[w] : ~ Touches(oLog[w][k], p, g)
    <3>1. \A k \in j + 1 .. oRan[w] : k \in 1 .. oRan[w]
      OBVIOUS
    <3>2. QED
      BY <1>2, <1>4, <2>1, <3>1
  <2>4. QED
    BY <2>2, <2>3 DEF DeviceInv
<1>5. QED
  BY <1>1, <1>3, <1>4 DEF DeviceInv, Offload!Groups, Offload!Places

\* When training starts nothing has run.
LEMMA DeviceInitially == Offload!Init /\ HostInv => DeviceInv
<1> SUFFICES ASSUME Offload!Init, HostInv PROVE DeviceInv
  OBVIOUS
<1>1. oRan = [s \in Lanes |-> 0]
  BY DEF Offload!Init, Lanes
<1>2. \A s \in Lanes : oRan[s] = 0 /\ Len(oLog[s]) \in Nat
  BY <1>1 DEF HostInv, Sound, Ordered, Logs
<1>3. \A p \in Offload!Places : \A j \in 1 .. oRan[Writer(p)] : FALSE
  BY <1>2, Kinds
<1>4. Respects(oLog, oRan)
  BY <1>2 DEF Respects
<1>5. QED
  BY <1>1, <1>2, <1>3, <1>4 DEF DeviceInv

OffloadInv == Handled /\ HostInv /\ DeviceInv

\* Host and device start like that, ...
LEMMA OffloadInitially == Offload!Init => OffloadInv
BY HandledInitially, HostInitially, DeviceInitially DEF OffloadInv

\* ... keep it at every step, ...
LEMMA OffloadNext == OffloadInv /\ [Gpu(Offload!Next)]_oVars => OffloadInv'
<1> SUFFICES ASSUME OffloadInv, [Gpu(Offload!Next)]_oVars PROVE OffloadInv'
  OBVIOUS
<1>1. Handled /\ HostInv /\ DeviceInv
  BY DEF OffloadInv
<1>2. CASE UNCHANGED oVars
  <2>1. UNCHANGED <<oPc, oPass, oCurrent, oOffloaded, oState, oBuf, oLog, oRan, oMemory>>
    BY <1>2 DEF oVars
  <2>2. Handled'
    BY <1>1, <2>1 DEF Handled, Offload!Groups
  <2>3. HostInv'
    BY <1>1, <2>1, HostPrimed DEF HostInv
  <2>4. Extends(oLog', oLog)
    BY <1>1, <2>1, ExtendsItself DEF HostInv, Sound, Ordered
  <2>5. DeviceInv'
    BY <1>1, <2>1, <2>4, DeviceStays
  <2>6. QED
    BY <2>2, <2>3, <2>5 DEF OffloadInv
<1>3. CASE Offload!Host
  <2>1. UNCHANGED <<oRan, oMemory>>
    BY <1>3 DEF Offload!Host, Offload!TensorPush, Offload!CommitForward,
       Offload!CommitBackward, Offload!TensorPop, Offload!device
  <2>2. DeviceInv'
    BY <1>1, <1>3, <2>1, HostExtends, DeviceStays
  <2>3. Handled'
    BY <1>1, <1>3, HandledPush, HandledCommit, HandledUncommit, HandledPop DEF Offload!Host
  <2>4. HostInv'
    BY <1>1, <1>3, HostPush, HostCommit, HostUncommit, HostPop DEF Offload!Host
  <2>5. QED
    BY <2>2, <2>3, <2>4 DEF OffloadInv
<1>4. ASSUME NEW s \in Lanes, Offload!Run(s) PROVE OffloadInv'
  <2>1. UNCHANGED <<oPc, oPass, oCurrent, oOffloaded, oState, oBuf, oLog>>
    BY <1>4 DEF Offload!Run
  <2>2. Handled'
    BY <1>1, <2>1 DEF Handled, Offload!Groups
  <2>3. HostInv'
    BY <1>1, <2>1, HostPrimed DEF HostInv
  <2>4. DeviceInv'
    BY <1>1, <1>4, DeviceRuns
  <2>5. QED
    BY <2>2, <2>3, <2>4 DEF OffloadInv
<1>5. QED
  BY <1>2, <1>3, <1>4 DEF Gpu, Offload!Next, Offload!Over, Offload!vars, oVars, Lanes

\* ... and so it is always.
LEMMA OffloadAlways == MCSpec => []OffloadInv
<1>1. MCInit => OffloadInv
  BY OffloadInitially DEF MCInit
<1>2. OffloadInv /\ [MCNext]_MCVars => OffloadInv'
  <2>1. [MCNext]_MCVars => [Gpu(Offload!Next)]_oVars
    BY DEF MCNext, MCVars, Job, Reward, Driving, Controlling, oVars
  <2>2. QED
    BY <2>1, OffloadNext
<1>3. QED
  BY <1>1, <1>2, PTL DEF MCSpec

\* Whatever the number of layers and of micro-batches, and whenever the streams
\* run what is put on them, no copy and no layer's backward reads a tensor too
\* early or after its memory was given away.
THEOREM ActivationsStayIntact == MCSpec => []ActivationsIntact
<1>1. OffloadInv => ActivationsIntact
  BY Intact DEF OffloadInv
<1>2. QED
  BY <1>1, OffloadAlways, PTL

\* And never are the tensors of more than two layers in GPU memory.
THEOREM TwoGroupsAtMost == MCSpec => []TwoGroupsInMemory
<1>1. OffloadInv => TwoGroupsInMemory
  <2> SUFFICES ASSUME OffloadInv
               PROVE  Offload!Cardinality(Offload!Held("fwd") \cup Offload!Held("back")) <= 2
    BY DEF TwoGroupsInMemory, Offload!TwoGroupsInMemory
  <2>1. PICK a, b : Offload!Held("fwd") \cup Offload!Held("back") \in SUBSET {a, b}
    BY TwoHeld DEF OffloadInv
  <2>2. Cardinality(Offload!Held("fwd") \cup Offload!Held("back")) <= 2
    BY <2>1, AtMostTwo
  <2>3. \A S : Offload!Cardinality(S) = Cardinality(S)
    BY DEF Offload!Cardinality, Cardinality, Offload!IsFiniteSet, IsFiniteSet
  <2>4. QED
    BY <2>2, <2>3
<1>2. QED
  BY <1>1, OffloadAlways, PTL

------------------------------------------------------------------------------
(* Why neither the host nor a stream gets stuck.                             *)

\* A group whose tensors are on the CPU is in the mapping, ...
Mapped == \A g \in Offload!Groups : oState[g] = "cpu" => g \in oMapping

\* ... and a wait is for what was on another stream before it: what it waits for
\* did not wait for it. Copies out and copies back have nothing to do with each
\* other.
Grounded(l) ==
  \A s \in Lanes : \A i \in 1 .. Len(l[s]) : l[s][i] \in Waits =>
    /\ l[s][i].on # s /\ "compute" \in {s, l[s][i].on}
    /\ l[s][i].upTo <= Len(l[l[s][i].on])
    /\ \A j \in 1 .. l[s][i].upTo :
         l[l[s][i].on][j] \in Waits /\ l[l[s][i].on][j].on = s => l[l[s][i].on][j].upTo < i

\* A log that is so and has one more entry, ...
LEMMA GroundedMore ==
  ASSUME NEW l \in Logs, Grounded(l), NEW s \in Lanes, NEW e \in Tasks \cup Waits,
         e \in Waits => e.on # s /\ "compute" \in {s, e.on} /\ e.upTo = Len(l[e.on])
  PROVE  More(l, s, e) \in Logs /\ Grounded(More(l, s, e))
<1> DEFINE m == More(l, s, e)
<1>1. Continues(m, l, s, e)
  BY OneMore
<1> HIDE DEF m
<1>2. /\ m \in Logs
      /\ \A t \in Lanes : Len(l[t]) \in Nat
      /\ \A t \in Lanes : Len(m[t]) = IF t = s THEN Len(l[t]) + 1 ELSE Len(l[t])
      /\ \A t \in Lanes : \A i \in 1 .. Len(l[t]) : m[t][i] = l[t][i]
      /\ m[s][Len(l[s]) + 1] = e
  BY <1>1 DEF Continues
<1>3. ASSUME NEW t \in Lanes, NEW i \in 1 .. Len(m[t]), m[t][i] \in Waits
      PROVE  LET w == m[t][i]
             IN  /\ w.on # t /\ "compute" \in {t, w.on} /\ w.upTo <= Len(m[w.on])
                 /\ \A j \in 1 .. w.upTo :
                      m[w.on][j] \in Waits /\ m[w.on][j].on = t => m[w.on][j].upTo < i
  <2> DEFINE w == m[t][i]
             u == w.on
  <2>1. u \in Lanes /\ w.upTo \in Nat
    BY <1>3, Kinds
  <2>2. i \in 1 .. Len(l[t]) \/ (t = s /\ i = Len(l[s]) + 1)
    BY <1>2
  <2>3. u # t /\ "compute" \in {t, u} /\ w.upTo <= Len(l[u])
    <3>1. CASE i \in 1 .. Len(l[t])
      <4>1. l[t][i] = w /\ l[t][i] \in Waits
        BY <1>2, <1>3, <3>1
      <4> HIDE DEF w
      <4>2. QED
        BY <3>1, <4>1 DEF Grounded
    <3>2. CASE t = s /\ i = Len(l[s]) + 1
      <4>1. w = e /\ e \in Waits
        BY <1>2, <1>3, <3>2
      <4>2. e.on # s /\ "compute" \in {s, e.on} /\ e.upTo = Len(l[e.on])
        BY <4>1
      <4>3. u = e.on /\ w.upTo = e.upTo /\ t = s
        BY <3>2, <4>1
      <4>4. Len(l[u]) \in Nat
        BY <1>2, <2>1
      <4> HIDE DEF w, u
      <4>5. QED
        BY <4>2, <4>3, <4>4
    <3>3. QED
      BY <2>2, <3>1, <3>2
  <2>4. Len(l[u]) <= Len(m[u])
    BY <1>2, <2>1, SMTT(40)
  <2>5. ASSUME NEW j \in 1 .. w.upTo, m[u][j] \in Waits, m[u][j].on = t
        PROVE  m[u][j].upTo < i
    <3>1. j \in 1 .. Len(l[u]) /\ m[u][j] = l[u][j]
      <4>1. j \in 1 .. Len(l[u])
        BY <1>2, <2>1, <2>3
      <4>2. QED
        BY <1>2, <2>1, <4>1
    <3>2. CASE i \in 1 .. Len(l[t])
      <4>1. l[t][i] = w /\ l[t][i] \in Waits
        BY <1>2, <1>3, <3>2
      <4>2. l[u][j] \in Waits /\ l[u][j].on = t
        BY <2>5, <3>1
      <4> HIDE DEF w
      <4>3. l[u][j].upTo < i
        BY <3>2, <4>1, <4>2 DEF Grounded
      <4>4. QED
        BY <3>1, <4>3
    <3>3. CASE t = s /\ i = Len(l[s]) + 1
      <4>1. l[u][j].upTo <= Len(l[t])
        BY <2>1, <2>5, <3>1, SMTT(40) DEF Grounded
      <4>2. l[u][j].upTo \in Nat /\ Len(l[t]) \in Nat
        BY <1>2, <2>5, <3>1, Kinds
      <4>3. QED
        BY <3>1, <3>3, <4>1, <4>2, SMTT(40)
    <3>4. QED
      BY <2>2, <3>2, <3>3
  <2>6. w.upTo <= Len(m[u])
    BY <1>2, <2>1, <2>3, <2>4
  <2>7. QED
    BY <2>3, <2>5, <2>6
<1>4. QED
  BY <1>2, <1>3 DEF Grounded, m

\* ... an operation ...
LEMMA GroundedTask ==
  ASSUME NEW l \in Logs, Grounded(l), NEW s \in Lanes, NEW from \in Offload!Places \cup {"none"},
         NEW to \in Offload!Places \cup {"none"}, NEW g \in Offload!Groups,
         NEW over \in SUBSET Cells, oPass \in Nat
  PROVE  /\ More(l, s, Offload!Operation(from, to, g, over)) \in Logs
         /\ Grounded(More(l, s, Offload!Operation(from, to, g, over)))
<1>1. Offload!Operation(from, to, g, over) \in Tasks
  BY OperationIs DEF IsTask
<1>2. Offload!Operation(from, to, g, over) \notin Waits
  BY <1>1, Kinds
<1>3. QED
  BY <1>1, <1>2, GroundedMore

\* ... or a wait, is so too.
LEMMA GroundedWait ==
  ASSUME NEW l \in Logs, Grounded(l), NEW s \in Lanes, NEW t \in Lanes, s # t,
         "compute" \in {s, t}
  PROVE  Offload!WaitFor(l, s, t) \in Logs /\ Grounded(Offload!WaitFor(l, s, t))
<1> DEFINE e == Offload!Wait(t, Len(l[t]))
<1>1. Offload!WaitFor(l, s, t) = More(l, s, e)
  BY DEF Offload!WaitFor, More
<1>2. e \in Waits /\ e.on = t /\ e.upTo = Len(l[t])
  BY DEF Offload!Wait, Waits, Logs
<1> HIDE DEF e
<1>3. QED
  BY <1>1, <1>2, GroundedMore

\* So are two.
LEMMA GroundedBothWays ==
  ASSUME NEW l \in Logs, Grounded(l), NEW s \in {"d2h", "h2d"}
  PROVE  Offload!BothWays(l, s) \in Logs /\ Grounded(Offload!BothWays(l, s))
<1> DEFINE k == Offload!WaitFor(l, s, "compute")
<1>1. s \in Lanes /\ "compute" \in Lanes /\ s # "compute"
  BY LanesAre
<1>2. k \in Logs /\ Grounded(k)
  BY <1>1, GroundedWait
<1>3. Offload!BothWays(l, s) = Offload!WaitFor(k, "compute", s)
  BY DEF Offload!BothWays
<1> HIDE DEF k
<1>4. QED
  BY <1>1, <1>2, <1>3, GroundedWait

\* What the host puts on the streams keeps it.
LEMMA HostGrounds ==
  ASSUME Handled, HostInv, Grounded(oLog), Offload!Host
  PROVE  Grounded(oLog')
<1>1. oLog \in Logs /\ oPass \in Nat
  BY DEF HostInv, Sound, Ordered
<1>2. /\ "compute" \in Lanes /\ "d2h" \in Lanes /\ "h2d" \in Lanes
      /\ "fwd" \in Offload!Places /\ "cpu" \in Offload!Places /\ "back" \in Offload!Places
  BY LanesAre
<1>3. \A p \in Offload!Places : Offload!Reusable(p) \in SUBSET Cells
  BY DEF Offload!Reusable, Cells
<1>4. {} \in SUBSET Cells
  OBVIOUS
<1>5. ASSUME NEW l \in Logs, Grounded(l), NEW g \in Offload!Groups
      PROVE  /\ Offload!CopyOut(l, g) \in Logs /\ Grounded(Offload!CopyOut(l, g))
             /\ Offload!CopyBack(l, g) \in Logs /\ Grounded(Offload!CopyBack(l, g))
  <2>1. /\ Offload!CopyOut(l, g) = IF oState[g] = "fwd"
             THEN More(l, "d2h", Offload!Operation("fwd", "cpu", g, {})) ELSE l
        /\ Offload!CopyBack(l, g) = IF oState[g] = "cpu"
             THEN More(l, "h2d", Offload!Operation("cpu", "back", g, Offload!Reusable("back")))
             ELSE l
    BY DEF Offload!CopyOut, Offload!CopyBack, More
  <2>2. /\ More(l, "d2h", Offload!Operation("fwd", "cpu", g, {})) \in Logs
        /\ Grounded(More(l, "d2h", Offload!Operation("fwd", "cpu", g, {})))
    BY <1>1, <1>2, <1>4, <1>5, GroundedTask
  <2>3. /\ More(l, "h2d", Offload!Operation("cpu", "back", g, Offload!Reusable("back"))) \in Logs
        /\ Grounded(More(l, "h2d", Offload!Operation("cpu", "back", g, Offload!Reusable("back"))))
    BY <1>1, <1>2, <1>3, <1>5, GroundedTask
  <2>4. QED
    BY <1>5, <2>1, <2>2, <2>3
<1>6. CASE Offload!TensorPush
  <2>1. oCurrent \in Offload!Groups
    BY <1>6, ManyLayers DEF Offload!TensorPush, Handled
  <2>2. oLog' = More(oLog, "compute",
                     Offload!Operation("none", "fwd", oCurrent, Offload!Reusable("fwd")))
    BY <1>6 DEF Offload!TensorPush, Offload!NoPlace, More
  <2>3. QED
    BY <1>1, <1>2, <1>3, <2>1, <2>2, GroundedTask
<1>7. CASE Offload!TensorPop
  <2>1. oCurrent \in Offload!Groups /\ oState[oCurrent] \in Offload!Places
    BY <1>2, <1>7, ManyLayers DEF Offload!TensorPop, Handled
  <2>2. oLog' = More(oLog, "compute",
                     Offload!Operation(oState[oCurrent], "none", oCurrent, Offload!Reusable("fwd")))
    BY <1>7 DEF Offload!TensorPop, Offload!NoPlace, More
  <2>3. QED
    BY <1>1, <1>2, <1>3, <2>1, <2>2, GroundedTask
<1>8. CASE Offload!CommitForward
  <2> DEFINE k == Offload!WaitFor(oLog, "d2h", "compute")
             kicked == IF oCurrent = 0 THEN Offload!CopyOut(k, 0) ELSE oLog
             synced == IF Offload!AtWindowEnd THEN Offload!BothWays(kicked, "d2h") ELSE kicked
  <2>1. oLog' = IF Offload!AtWindowEnd /\ oOffloaded < Last - 1
                  THEN Offload!CopyOut(synced, oOffloaded + 1) ELSE synced
    BY <1>8 DEF Offload!CommitForward, Last
  <2>2. 0 \in Offload!Groups /\ (oOffloaded < Last - 1 => oOffloaded + 1 \in Offload!Groups)
    BY <1>8, ManyLayers DEF Offload!CommitForward, Handled
  <2>3. k \in Logs /\ Grounded(k)
    BY <1>1, <1>2, GroundedWait
  <2> HIDE DEF k
  <2>4. kicked \in Logs /\ Grounded(kicked)
    BY <1>1, <1>5, <2>2, <2>3
  <2> HIDE DEF kicked
  <2>5. synced \in Logs /\ Grounded(synced)
    BY <2>4, GroundedBothWays
  <2> HIDE DEF synced
  <2>6. QED
    BY <1>5, <2>1, <2>2, <2>5
<1>9. CASE Offload!CommitBackward
  <2> DEFINE layer == oCurrent - 1
             group == oOffloaded - 1
             k == Offload!BothWays(oLog, "h2d")
             reloaded == IF Offload!WindowEnd(group) = layer THEN Offload!CopyBack(k, group) ELSE oLog
  <2>1. oLog' = IF layer = 0 THEN Offload!WaitFor(reloaded, "compute", "h2d") ELSE reloaded
    BY <1>9 DEF Offload!CommitBackward
  <2>2. group \in Offload!Groups
    <3>1. oOffloaded - 1 \in 0 .. Last - 1
      BY <1>9, Uncommitting DEF Offload!CommitBackward
    <3>2. QED
      BY <3>1, ManyLayers
  <2>3. k \in Logs /\ Grounded(k)
    BY <1>1, GroundedBothWays
  <2> HIDE DEF k, group, layer
  <2>4. reloaded \in Logs /\ Grounded(reloaded)
    BY <1>1, <1>5, <2>2, <2>3
  <2> HIDE DEF reloaded
  <2>5. QED
    BY <1>2, <2>1, <2>4, GroundedWait
<1>10. QED
  BY <1>6, <1>7, <1>8, <1>9 DEF Offload!Host

\* What a commit copies out it enters in the mapping, and what it takes out of the
\* mapping it copies back.
LEMMA HostMaps ==
  ASSUME Handled, Mapped, Offload!Host
  PROVE  Mapped'
<1>1. Offload!Groups' = Offload!Groups
  BY DEF Offload!Groups
<1>2. CASE Offload!TensorPush
  <2>1. /\ oState' = [oState EXCEPT ![oCurrent] = "fwd"] /\ oMapping' = oMapping
        /\ oState = [g \in Offload!Groups |-> oState[g]]
    BY <1>2 DEF Offload!TensorPush, Handled
  <2>2. QED
    BY <1>1, <2>1 DEF Mapped
<1>3. CASE Offload!CommitForward
  BY <1>1, <1>3 DEF Offload!CommitForward, Mapped
<1>4. CASE Offload!CommitBackward
  <2> DEFINE group == oOffloaded - 1
             returns == Offload!WindowEnd(group) = oCurrent - 1
  <2>1. /\ oState' = [g \in Offload!Groups |->
              IF returns /\ g = group /\ oState[g] = "cpu" THEN "back" ELSE oState[g]]
        /\ oMapping' = IF returns THEN oMapping \ {group} ELSE oMapping
    BY <1>4 DEF Offload!CommitBackward
  <2> HIDE DEF returns, group
  <2>2. QED
    BY <1>1, <2>1 DEF Mapped
<1>5. CASE Offload!TensorPop
  <2>1. /\ oState' = [oState EXCEPT ![oCurrent] = "none"] /\ oMapping' = oMapping
        /\ oState = [g \in Offload!Groups |-> oState[g]]
    BY <1>5 DEF Offload!TensorPop, Handled
  <2>2. QED
    BY <1>1, <2>1 DEF Mapped
<1>6. QED
  BY <1>2, <1>3, <1>4, <1>5 DEF Offload!Host

\* So every hook finds what it looks for, ...
LEMMA HooksFind == Handled /\ Mapped => Offload!HooksFindTheirGroups
<1> SUFFICES ASSUME Handled, Mapped PROVE Offload!HooksFindTheirGroups
  OBVIOUS
<1>1. oPc = "push" => oState[oCurrent] = "none"
  BY ManyLayers DEF Handled
<1>2. oPc = "commit" => oOffloaded < Last
  BY ManyLayers DEF Handled
<1>3. ASSUME oPc = "uncommit"
      PROVE  /\ oOffloaded > 0
             /\ Offload!WindowEnd(oOffloaded - 1) = oCurrent - 1 => oOffloaded - 1 \in oMapping
  <2>1. oOffloaded \in Int /\ oOffloaded - 1 \in 0 .. Last - 1
    BY <1>3, Uncommitting, ManyLayers
  <2>2. ASSUME Offload!WindowEnd(oOffloaded - 1) = oCurrent - 1
        PROVE  oOffloaded - 1 \in oMapping
    <3>1. /\ oOffloaded - 1 = oCurrent - 2 /\ oCurrent \in 1 .. ModelLayers
          /\ oState = [g \in Offload!Groups |->
               IF g < oCurrent - 1 THEN "cpu" ELSE IF g > oCurrent - 1 THEN "none"
               ELSE IF g = Last THEN "fwd" ELSE "back"]
      BY <1>3, <2>2, Uncommitting
    <3>2. oOffloaded - 1 \in Offload!Groups /\ oOffloaded - 1 < oCurrent - 1
      BY <2>1, <3>1, ManyLayers
    <3>3. QED
      BY <3>1, <3>2 DEF Mapped
  <2>3. QED
    BY <2>1, <2>2, ManyLayers
<1>4. oPc = "pop" => oState[oCurrent] \in {"fwd", "back"}
  BY ManyLayers DEF Handled
<1>5. QED
  BY <1>1, <1>2, <1>3, <1>4 DEF Offload!HooksFindTheirGroups, Last

\* ... and of the streams with something left to run one need not wait: a copy that
\* waits for the computation waits for less than the computation has run, if the
\* computation in turn waits for that copy.
LEMMA StreamsRun == HostInv /\ DeviceInv /\ Grounded(oLog) => Offload!SomeStreamRuns
<1> DEFINE Blocked(s) == /\ Offload!Pending(s) /\ Offload!IsWait(Offload!First(s))
                         /\ ~ (oRan[Offload!First(s).on] >= Offload!First(s).upTo)
<1> SUFFICES ASSUME HostInv, DeviceInv, Grounded(oLog), NEW x \in Lanes, Offload!Pending(x),
                    \A s \in Lanes : Offload!Pending(s) => Blocked(s)
             PROVE  FALSE
  BY DEF Offload!SomeStreamRuns, Lanes
<1>1. \A t \in Lanes : /\ oLog[t] \in Seq(Tasks \cup Waits)
                       /\ Len(oLog[t]) \in Nat /\ oRan[t] \in Nat /\ oRan[t] <= Len(oLog[t])
  BY DEF HostInv, Sound, Ordered, Logs, DeviceInv
<1>2. ASSUME NEW s \in Lanes, Blocked(s)
      PROVE  /\ oRan[s] + 1 \in 1 .. Len(oLog[s]) /\ oLog[s][oRan[s] + 1] \in Waits
             /\ LET w == oLog[s][oRan[s] + 1]
                IN  /\ w.on \in Lanes /\ w.on # s /\ "compute" \in {s, w.on}
                    /\ w.upTo \in Nat /\ oRan[w.on] < w.upTo /\ w.upTo <= Len(oLog[w.on])
                    /\ \A j \in 1 .. w.upTo :
                         oLog[w.on][j] \in Waits /\ oLog[w.on][j].on = s =>
                           oLog[w.on][j].upTo < oRan[s] + 1
  <2> DEFINE i == oRan[s] + 1
             w == oLog[s][i]
  <2>1. i \in 1 .. Len(oLog[s]) /\ Offload!First(s) = w
    BY <1>1, <1>2 DEF Offload!Pending, Offload!First
  <2>2. w \in Tasks \cup Waits
    <3>1. oLog[s] \in Seq(Tasks \cup Waits)
      BY <1>1
    <3> HIDE DEF Tasks, Waits
    <3>2. QED
      BY <2>1, <3>1
  <2>3. w \in Waits
    BY <1>2, <2>1, <2>2, Kinds
  <2>4. w.on \in Lanes /\ w.upTo \in Nat /\ oRan[w.on] < w.upTo
    BY <1>1, <1>2, <2>1, <2>3, Kinds, SMTT(40)
  <2>5. /\ w.on # s /\ "compute" \in {s, w.on} /\ w.upTo <= Len(oLog[w.on])
        /\ \A j \in 1 .. w.upTo :
             oLog[w.on][j] \in Waits /\ oLog[w.on][j].on = s => oLog[w.on][j].upTo < i
    BY <2>1, <2>3 DEF Grounded
  <2>6. QED
    BY <2>1, <2>3, <2>4, <2>5, Zenon
<1> HIDE DEF Blocked
<1>3. ASSUME NEW s \in Lanes, Blocked(s)
      PROVE  \E t \in Lanes : /\ t # s /\ "compute" \in {s, t} /\ Blocked(t)
                              /\ oLog[s][oRan[s] + 1].on = t
                              /\ oRan[t] < oLog[s][oRan[s] + 1].upTo
  <2> DEFINE t == oLog[s][oRan[s] + 1].on
             n == oLog[s][oRan[s] + 1].upTo
  <2>1. t \in Lanes /\ t # s /\ "compute" \in {s, t} /\ n \in Nat /\ oRan[t] < n
        /\ n <= Len(oLog[t])
    BY <1>2, <1>3
  <2> HIDE DEF t, n
  <2>2. Offload!Pending(t)
    BY <1>1, <2>1 DEF Offload!Pending
  <2>3. Blocked(t)
    BY <2>1, <2>2
  <2>4. QED
    BY <2>1, <2>3 DEF t, n
<1>4. Blocked("compute")
  <2>1. Blocked(x)
    OBVIOUS
  <2>2. QED
    BY <1>3, <2>1
<1>5. "compute" \in Lanes
  BY LanesAre
<1>6. PICK t \in Lanes : /\ t # "compute" /\ Blocked(t)
                         /\ oLog["compute"][oRan["compute"] + 1].on = t
                         /\ oRan[t] < oLog["compute"][oRan["compute"] + 1].upTo
  BY <1>3, <1>4, <1>5
<1>7. /\ oLog[t][oRan[t] + 1].on = "compute"
      /\ oRan["compute"] < oLog[t][oRan[t] + 1].upTo
  BY <1>3, <1>6
<1> DEFINE j == oRan[t] + 1
           n == oLog["compute"][oRan["compute"] + 1].upTo
<1>8. n \in Nat /\ j \in 1 .. n /\ oLog[t][j] \in Waits /\ oLog[t][j].upTo \in Nat
  <2>1. n \in Nat /\ oRan[t] < n
    BY <1>2, <1>4, <1>5, <1>6, SMTT(40)
  <2>2. oLog[t][j] \in Waits /\ oLog[t][j].upTo \in Nat
    BY <1>2, <1>6, SMTT(40)
  <2> HIDE DEF n
  <2>3. QED
    BY <1>1, <2>1, <2>2, SMTT(40)
<1>9. oLog[t][j].upTo < oRan["compute"] + 1
  BY <1>2, <1>4, <1>5, <1>6, <1>7, <1>8
<1> HIDE DEF j, n
<1>10. QED
  BY <1>1, <1>5, <1>7, <1>8, <1>9, SMTT(40) DEF j

\* Whatever the number of layers and of micro-batches, every hook finds the tensors,
\* the window and the mapping it asks for, and as long as something is left to run
\* some stream need not wait: the safety half of PassesEnd
\* (on_group_commit_forward, on_group_commit_backward, tensor_push, tensor_pop).
THEOREM OffloadNeverSticks == MCSpec => []Offload!NothingStuck
<1> DEFINE Inv == Mapped /\ Grounded(oLog)
<1>1. MCInit => Inv
  <2>1. Offload!Init => Mapped
    BY DEF Offload!Init, Mapped
  <2>2. Offload!Init => Grounded(oLog)
    <3> SUFFICES ASSUME Offload!Init PROVE Grounded(oLog)
      OBVIOUS
    <3>1. \A s \in Lanes : oLog[s] = <<>> /\ Len(oLog[s]) = 0
      BY DEF Offload!Init, Lanes
    <3>2. QED
      BY <3>1 DEF Grounded
  <2>3. QED
    BY <2>1, <2>2 DEF MCInit
<1>2. OffloadInv /\ Inv /\ [MCNext]_MCVars => Inv'
  <2> SUFFICES ASSUME OffloadInv, Inv, [MCNext]_MCVars PROVE Inv'
    OBVIOUS
  <2>1. Handled /\ HostInv
    BY DEF OffloadInv
  <2>2. CASE UNCHANGED <<oState, oMapping, oLog>>
    BY <2>2 DEF Mapped, Grounded, Offload!Groups
  <2>3. CASE Offload!Host
    BY <2>1, <2>3, HostMaps, HostGrounds DEF Grounded
  <2>4. Offload!Host \/ UNCHANGED <<oState, oMapping, oLog>>
    BY DEF MCNext, MCVars, Job, Gpu, Reward, Driving, Controlling, Offload!Next, Offload!Over,
       Offload!Run, Offload!vars, oVars
  <2>5. QED
    BY <2>2, <2>3, <2>4
<1>3. OffloadInv /\ Inv => Offload!NothingStuck
  BY HooksFind, StreamsRun DEF OffloadInv, Offload!NothingStuck
<1>4. QED
  BY <1>1, <1>2, <1>3, OffloadAlways, PTL DEF MCSpec

------------------------------------------------------------------------------
(* The rows of the batch (BatchFlow).  The batch is a permutation of the     *)
(* samples that were asked for, every column of it is of the same samples,  *)
(* and what the ranks work on are blocks of it; what each operation does to *)
(* rows is in PartitionProofs.                                              *)

Parting == INSTANCE PartitionProofs WITH
  NumItems <- Flow!Rows, K <- World, EqualSize <- TRUE, length <- Flow!Lengths, pool <- bPool

Batch == Flow!Rows

Sample == [prompt : Nat, id : Nat, len : 1 .. MaxLen]

\* What the constants of a batch are.
LEMMA FlowConstants ==
  /\ Prompts \in Nat \ {0} /\ N \in Nat \ {0} /\ Batch = Prompts * N /\ Batch \in Nat \ {0}
  /\ AgentWorkers \in Nat \ {0} /\ World \in Nat \ {0} /\ MicroSize \in Nat \ {0}
  /\ MiniPrompts \in Nat \ {0} /\ Epochs \in Nat \ {0} /\ MaxLen \in Nat \ {0}
  /\ ValRows \in Nat /\ Batch % AgentWorkers = 0 /\ Batch % World = 0
  /\ \A p \in SpSizes : p \in Nat \ {0} /\ World % p = 0 /\ MiniPrompts * N >= World \div p
  /\ Calls \in Seq(STRING \ {"uid", "responses", "advantages"}) /\ Len(Calls) \in Nat \ {0}
<1>1. Flow!BatchFlowAssumption
  BY StepAssumption
<1>2. /\ Prompts \in Nat \ {0} /\ N \in Nat \ {0}
      /\ AgentWorkers \in Nat \ {0} /\ World \in Nat \ {0} /\ MicroSize \in Nat \ {0}
      /\ MiniPrompts \in Nat \ {0} /\ Epochs \in Nat \ {0} /\ MaxLen \in Nat \ {0}
  BY <1>1 DEF Flow!BatchFlowAssumption
<1>3. Batch = Prompts * N /\ Batch \in Nat \ {0}
  BY <1>2, SMTT(30) DEF Flow!Rows, Batch
<1>4. Calls \in Seq(STRING \ {"uid", "responses", "advantages"}) /\ Calls # <<>>
  BY <1>1 DEF Flow!BatchFlowAssumption
<1>5. Len(Calls) \in Nat \ {0}
  BY <1>4
<1>6. /\ ValRows \in Nat /\ Batch % AgentWorkers = 0 /\ Batch % World = 0
      /\ \A p \in SpSizes : p \in Nat \ {0} /\ World % p = 0 /\ MiniPrompts * N >= World \div p
  BY <1>1 DEF Flow!BatchFlowAssumption, Batch
<1>7. QED
  BY <1>2, <1>3, <1>4, <1>5, <1>6

\* The operations on rows are those PartitionProofs is about.
LEMMA SameOperations ==
  /\ \A a, b : Flow!CeilDiv(a, b) = Parting!CeilDiv(a, b)
  /\ \A s, n : Flow!Repeated(s, n) = Parting!Repeated(s, n)
  /\ \A s, n : Flow!ChunkSize(s, n) = Parting!ChunkSize(s, n)
  /\ \A s, n, c : Flow!Chunk(s, n, c) = Parting!Chunk(s, n, c)
  /\ \A parts, n : Flow!Concat(parts, n) = Parting!Concat(parts, n)
  /\ \A s, d : Flow!PadSize(s, d) = Parting!PadSize(s, d)
  /\ \A s, d : Flow!Padded(s, d) = Parting!Padded(s, d)
  /\ \A s, n : Flow!Unpadded(s, n) = Parting!Unpadded(s, n)
  /\ \A s, idx : Flow!Reordered(s, idx) = Parting!Reordered(s, idx)
  /\ \A s, idx : Flow!Restored(s, idx) = Parting!Restored(s, idx)
  /\ \A part : Flow!Flattened(part) = Parting!Flattened(part)
<1>3. \A part : Flow!Flattened(part) = Parting!Flattened(part)
  BY DEF Flow!Flattened, Parting!Flattened, Flow!Place, Parting!Place,
     Flow!Cardinality, Parting!Cardinality, Flow!IsFiniteSet, Parting!IsFiniteSet
<1>4. \A parts, n : Flow!Concat(parts, n) = Parting!Concat(parts, n)
  BY Zenon DEF Flow!Concat, Parting!Concat
<1>5. QED
  BY <1>3, <1>4, Zenon
  DEF Flow!CeilDiv, Parting!CeilDiv, Flow!Repeated, Parting!Repeated,
      Flow!ChunkSize, Parting!ChunkSize, Flow!Chunk, Parting!Chunk,
      Flow!PadSize, Parting!PadSize, Flow!Padded, Parting!Padded,
      Flow!Unpadded, Parting!Unpadded, Flow!Reordered, Parting!Reordered,
      Flow!ReverseIdx, Parting!ReverseIdx, Flow!Restored, Parting!Restored

\* A number that a divisor leaves nothing of.
LEMMA WholeBlocks ==
  ASSUME NEW n \in Nat, NEW d \in Nat \ {0}, n % d = 0
  PROVE  n \div d \in Nat /\ n = d * (n \div d)
<1>1. n = d * (n \div d) + (n % d) /\ n \div d \in Nat
  BY Parting!Remainder
<1>2. d * (n \div d) \in Nat
  BY <1>1, SMTT(30)
<1> DEFINE x == d * (n \div d)
<1> HIDE DEF x
<1>3. QED
  BY <1>1, <1>2 DEF x

ShardSize == Batch \div Flow!Dp

\* The batch divides into shards, and a mini-batch has rows of each.
LEMMA ShardsDivide ==
  ASSUME bSp \in SpSizes
  PROVE  /\ bSp \in Nat \ {0} /\ Flow!Dp \in Nat \ {0} /\ World = Flow!Dp * bSp
         /\ ShardSize \in Nat \ {0} /\ Batch = Flow!Dp * ShardSize
         /\ Flow!MiniSize \in Nat \ {0}
<1> DEFINE d == Flow!Dp
           k == Batch \div World
           w == bSp * k
           m == MiniPrompts * N
<1>1. /\ bSp \in Nat \ {0} /\ World % bSp = 0 /\ m >= World \div bSp
      /\ World \in Nat \ {0} /\ Batch \in Nat \ {0} /\ Batch % World = 0
  BY FlowConstants
<1>2. d \in Nat /\ World = bSp * d
  BY <1>1, WholeBlocks DEF Flow!Dp
<1>3. k \in Nat /\ Batch = World * k
  BY <1>1, WholeBlocks
<1>4. d # 0 /\ k # 0
  <2> HIDE DEF d, k
  <2>1. bSp * 0 = 0 /\ World * 0 = 0
    BY <1>1
  <2>2. QED
    BY <1>1, <1>2, <1>3, <2>1
<1>5. w \in Nat \ {0} /\ Batch = w * d /\ Batch = d * w /\ World = d * bSp
  <2> HIDE DEF d, k
  <2>1. w \in Nat \ {0}
    BY <1>1, <1>3, <1>4, SMTT(30)
  <2>2. (bSp * d) * k = (bSp * k) * d /\ (bSp * k) * d = d * (bSp * k) /\ bSp * d = d * bSp
    BY <1>1, <1>2, <1>3, SMTT(30)
  <2>3. QED
    BY <1>2, <1>3, <2>1, <2>2
<1>6. ShardSize = w
  <2> HIDE DEF d, w
  <2>1. (w * d) \div d = w
    BY <1>2, <1>4, <1>5, SMTT(30)
  <2>2. QED
    BY <1>5, <2>1 DEF ShardSize, d
<1>7. Flow!MiniSize \in Nat \ {0}
  <2>1. m \in Nat
    BY FlowConstants, SMTT(30)
  <2>2. m >= d
    BY <1>1 DEF Flow!Dp
  <2>3. Flow!MiniSize = m \div d
    BY DEF Flow!MiniSize
  <2> HIDE DEF d, m
  <2>4. ~ (m < 1 * d)
    BY <1>2, <2>1, <2>2
  <2>5. m \div d \in Nat /\ ~ (m \div d < 1)
    BY <1>2, <1>4, <2>1, <2>4, BlockBelow, Parting!Remainder
  <2>6. QED
    BY <2>3, <2>5
<1>8. QED
  BY <1>1, <1>2, <1>4, <1>5, <1>6, <1>7 DEF d

\* Every sample of the batch is there once, and belongs to its prompt.
TrueBatch(s) ==
  /\ s \in Seq(Sample) /\ Len(s) = Batch
  /\ \A i \in 1 .. Batch : s[i].id \in 1 .. Batch /\ s[i].prompt = (s[i].id - 1) \div N + 1
  /\ \A i, j \in 1 .. Batch : s[i].id = s[j].id => i = j
  /\ \A k \in 1 .. Batch : \E i \in 1 .. Batch : s[i].id = k

\* The samples of the prompt of row i.
GroupOf(s, i) == {s[j] : j \in {k \in 1 .. Batch : s[k].prompt = s[i].prompt}}

\* A prompt has N samples.
LEMMA GroupsHaveN ==
  ASSUME NEW s, TrueBatch(s), NEW i \in 1 .. Batch
  PROVE  Cardinality(GroupOf(s, i)) = N /\ \A x \in GroupOf(s, i) : x.prompt = s[i].prompt
<1> DEFINE b == (s[i].id - 1) \div N
           a == b * N
           f == [k \in 1 .. N |-> CHOOSE x \in GroupOf(s, i) : x.id = a + k]
<1>0. N \in Nat \ {0} /\ Prompts \in Nat /\ Batch = Prompts * N /\ Batch \in Nat
  BY FlowConstants
<1>1. /\ \A j \in 1 .. Batch : s[j].id \in 1 .. Batch /\ s[j].prompt = (s[j].id - 1) \div N + 1
      /\ \A j, k \in 1 .. Batch : s[j].id = s[k].id => j = k
      /\ \A k \in 1 .. Batch : \E j \in 1 .. Batch : s[j].id = k
  BY DEF TrueBatch
<1>2. b \in Nat /\ b < Prompts /\ s[i].prompt = b + 1
  <2> DEFINE x == s[i].id - 1
             y == s[i].id
  <2>0. y \in 1 .. Batch
    BY <1>1
  <2>1. x \in Nat /\ x < Prompts * N
    <3> DEFINE p == Prompts * N
    <3>1. Batch = p
      BY <1>0
    <3> HIDE DEF y, p
    <3>2. y - 1 \in Nat /\ y - 1 < p
      BY <1>0, <2>0, <3>1
    <3>3. QED
      BY <3>2 DEF y, p
  <2>2. s[i].prompt = x \div N + 1
    BY <1>1
  <2> HIDE DEF x
  <2>3. x \div N \in Nat /\ x \div N < Prompts
    BY <1>0, <2>1, BlockBelow, Parting!Remainder
  <2>4. QED
    BY <2>2, <2>3 DEF x
<1>3. a \in Nat /\ a + N <= Batch
  BY <1>0, <1>2, BlocksApart
<1>4. \A j \in 1 .. Batch : s[j].prompt = s[i].prompt <=> s[j].id \in a + 1 .. a + N
  <2> SUFFICES ASSUME NEW j \in 1 .. Batch
               PROVE  s[j].prompt = s[i].prompt <=> s[j].id \in a + 1 .. a + N
    OBVIOUS
  <2> DEFINE x == s[j].id - 1
             y == s[j].id
  <2>1. x \in Nat /\ s[j].id = x + 1 /\ s[j].prompt = x \div N + 1
    <3>1. y \in 1 .. Batch /\ s[j].prompt = x \div N + 1
      BY <1>1
    <3> HIDE DEF y
    <3>2. y - 1 \in Nat /\ y = (y - 1) + 1
      BY <1>0, <3>1
    <3>3. QED
      BY <3>1, <3>2 DEF y
  <2> HIDE DEF x, b
  <2>2. x \div N \in Nat /\ a <= x /\ x < a + N <=> x \div N = b
    BY <1>0, <1>2, <2>1, BlockOf
  <2>3. x \div N \in Nat
    BY <1>0, <2>1, Parting!Remainder
  <2> HIDE DEF a
  <2>4. QED
    BY <1>0, <1>2, <1>3, <2>1, <2>2, <2>3
<1> HIDE DEF a, b
<1>5. \A x \in GroupOf(s, i) : \E j \in 1 .. Batch : x = s[j] /\ s[j].prompt = s[i].prompt
                                                /\ s[j].id \in a + 1 .. a + N
  BY <1>4 DEF GroupOf
<1>6. ASSUME NEW k \in 1 .. N
      PROVE  f[k] \in GroupOf(s, i) /\ f[k].id = a + k
  <2>1. a + k \in 1 .. Batch /\ a + k \in a + 1 .. a + N
    BY <1>0, <1>3
  <2>2. PICK j \in 1 .. Batch : s[j].id = a + k
    BY <1>1, <2>1
  <2>3. s[j] \in GroupOf(s, i)
    BY <1>4, <2>1, <2>2 DEF GroupOf
  <2>4. f[k] = CHOOSE x \in GroupOf(s, i) : x.id = a + k
    OBVIOUS
  <2> HIDE DEF f
  <2>5. QED
    BY <2>2, <2>3, <2>4
<1>7. f \in [1 .. N -> GroupOf(s, i)]
  <2>1. f = [k \in 1 .. N |-> f[k]]
    OBVIOUS
  <2> HIDE DEF f
  <2>2. QED
    BY <1>6, <2>1
<1> HIDE DEF f
<1>8. \A k, l \in 1 .. N : f[k] = f[l] => k = l
  <2> SUFFICES ASSUME NEW k \in 1 .. N, NEW l \in 1 .. N, f[k] = f[l] PROVE k = l
    OBVIOUS
  <2>1. a + k = a + l
    BY <1>6
  <2>2. QED
    BY <1>3, <2>1
<1>9. \A z \in GroupOf(s, i) : \E k \in 1 .. N : f[k] = z
  <2> SUFFICES ASSUME NEW z \in GroupOf(s, i) PROVE \E k \in 1 .. N : f[k] = z
    OBVIOUS
  <2>1. PICK j \in 1 .. Batch : z = s[j] /\ s[j].id \in a + 1 .. a + N
    BY <1>5
  <2> DEFINE k == s[j].id - a
  <2>2. k \in 1 .. N /\ a + k = s[j].id
    BY <1>0, <1>3, <2>1
  <2> HIDE DEF k
  <2>3. PICK l \in 1 .. Batch : f[k] = s[l]
    BY <1>5, <1>6, <2>2
  <2>4. s[l].id = s[j].id
    BY <1>6, <2>2, <2>3
  <2>5. QED
    BY <1>1, <2>1, <2>2, <2>3, <2>4
<1>10. IsFiniteSet(1 .. N) /\ Cardinality(1 .. N) = N
  BY <1>0, FirstNumbers
<1>11. Cardinality(GroupOf(s, i)) = N
  <2> DEFINE G == GroupOf(s, i)
             K == 1 .. N
  <2>1. IsFiniteSet(K) /\ f \in [K -> G] /\ Cardinality(K) = N
    BY <1>7, <1>10
  <2>2. (\A x, y \in K : f[x] = f[y] => x = y) /\ \A z \in G : \E x \in K : f[x] = z
    BY <1>8, <1>9
  <2> HIDE DEF G, K
  <2>3. Cardinality(G) = Cardinality(K)
    BY <2>1, <2>2, SameCount
  <2>4. QED
    BY <2>1, <2>3 DEF G
<1>12. QED
  BY <1>5, <1>11

------------------------------------------------------------------------------
(* The invariant of a step, by its parts.                                  *)

FlowTyped ==
  /\ bPc \in {"generate", "balance", "reward", "call", "advantage", "update", "done"}
  /\ bKind \in {"train", "validate"} /\ bSp \in SpSizes /\ bDynamic \in BOOLEAN
  /\ bKind = "validate" => bPc \in {"generate", "done"}
  /\ bCall \in 1 .. Len(Calls)

\* What agent worker w answers: of every row it was given, in its place.
IsAnswer(w, s, size) ==
  /\ s \in Seq(Sample) /\ Len(s) = size
  /\ \A k \in 1 .. size : /\ s[k].prompt = Flow!Asked[Parting!RowAt(w, size, k)]
                          /\ s[k].id = Parting!RowAt(w, size, k)

Asking ==
  bPc = "generate" =>
    /\ \E n \in Nat \ {0} : /\ bColumns = [uid |-> [i \in 1 .. n |-> i]]
                            /\ bKind = "train" => n = Prompts
    /\ \A w \in 1 .. AgentWorkers :
         bAnswers[w] # <<>> =>
           IsAnswer(w, bAnswers[w], Flow!ChunkSize(Flow!Asked, AgentWorkers))

Computed == DOMAIN bColumns \ {"uid", "advantages"}

AdvantagesOf(s) == [i \in 1 .. Batch |-> [of |-> s[i], group |-> GroupOf(s, i)]]

\* The batch is one, and every column is of it.
Batched ==
  bKind = "train" /\ bPc # "generate" =>
    /\ {"uid", "responses"} \subseteq DOMAIN bColumns
    /\ TrueBatch(Flow!Samples)
    /\ bColumns["uid"] = [i \in 1 .. Batch |-> Flow!Samples[i].prompt]
    /\ \A c \in Computed : bColumns[c] = Flow!Samples
    /\ "advantages" \in DOMAIN bColumns =>
         bPc \in {"update", "done"} /\ bColumns["advantages"] = AdvantagesOf(Flow!Samples)

\* The reward task has the rows of the batch.
Rewarded ==
  bKind = "train" =>
    IF bPc \in {"generate", "balance", "reward"} THEN bFuture = Flow!NoTask
    ELSE \E d \in BOOLEAN : bFuture = [rows |-> Flow!Samples, done |-> d]

\* The partition is one while the batch is balanced.
Parted ==
  /\ bPc = "balance" => Parting!KKInv /\ IsFiniteSet(bPool)
  /\ bPc = "generate" => bPool = {}

\* Micro-batches name every row of the work once.
Microed ==
  \A r \in Flow!Ranks :
    bRowOrder[r] # <<>> => /\ bPc \in {"call", "update"}
                           /\ Parting!NamesOnce(bRowOrder[r], Len(Flow!Work(r)))

\* The rows behind, shard by shard, have taken part once more than those ahead.
Trained ==
  /\ bPc \notin {"update", "done"} =>
       bEpoch = 1 /\ bMini = 1 /\ bTrained = [i \in 1 .. Batch |-> 0]
  /\ bPc = "update" =>
       /\ bEpoch \in 1 .. Epochs /\ bMini \in 1 .. Flow!Minis
       /\ bTrained \in [1 .. Batch -> Nat]
       /\ \A r \in Flow!Ranks, j \in 1 .. ShardSize :
            bTrained[Flow!Samples[Parting!RowAt(r, ShardSize, j)].id] =
              IF j <= (bMini - 1) * Flow!MiniSize THEN bEpoch ELSE bEpoch - 1
  /\ bPc = "done" /\ bKind = "train" => \A i \in 1 .. Batch : bTrained[i] = Epochs

\* A batch of validation is aligned when it is over.
Validated ==
  bPc = "done" /\ bKind = "validate" =>
    /\ DOMAIN bColumns = {"uid", "responses"}
    /\ \E n \in Nat : /\ Flow!Samples \in Seq(Sample) /\ Len(Flow!Samples) = n
                      /\ bColumns["uid"] = [i \in 1 .. n |-> Flow!Samples[i].prompt]

FlowInv ==
  /\ FlowTyped /\ Asking /\ Batched /\ Rewarded /\ Parted /\ Microed /\ Trained
  /\ Validated

\* What the agent workers are asked for: whole chunks of rows.
LEMMA AskedRows ==
  ASSUME NEW n \in Nat \ {0}, bColumns = [uid |-> [i \in 1 .. n |-> i]],
         bKind = "train" => n = Prompts, FlowTyped
  PROVE  /\ Parting!Cut(Nat, Flow!Asked, AgentWorkers,
                        Flow!ChunkSize(Flow!Asked, AgentWorkers))
         /\ bKind = "train" => /\ Len(Flow!Asked) = Batch
                               /\ \A k \in 1 .. Batch : Flow!Asked[k] = (k - 1) \div N + 1
         /\ bKind = "validate" => Flow!Asked = Parting!Padded([i \in 1 .. n |-> i], AgentWorkers)
<1> DEFINE u == [i \in 1 .. n |-> i]
           A == Flow!Asked
<1>1. u \in Seq(Nat) /\ Len(u) = n /\ bColumns.uid = u /\ \A i \in 1 .. n : u[i] = i
  OBVIOUS
<1>2. bKind \in {"train", "validate"}
  BY DEF FlowTyped
<1> HIDE DEF u
<1>3. CASE bKind = "train"
  <2> DEFINE F == [k \in 1 .. Batch |-> u[(k - 1) \div N + 1]]
  <2>1. A = F
    BY <1>1, <1>3, FlowConstants DEF Flow!Asked, Flow!Repeated
  <2>2. ASSUME NEW k \in 1 .. Batch
        PROVE  (k - 1) \div N + 1 \in 1 .. n /\ (k - 1) \div N + 1 \in Nat
    <3> DEFINE x == k - 1
               p == Prompts * N
    <3>0. Batch = p /\ n = Prompts /\ N \in Nat \ {0} /\ Prompts \in Nat /\ Batch \in Nat
      BY <1>3, FlowConstants
    <3> HIDE DEF p
    <3>1. x \in Nat /\ x < p
      BY <3>0
    <3> HIDE DEF x
    <3>2. x \div N \in Nat /\ x \div N < Prompts
      BY <3>0, <3>1, BlockBelow, Parting!Remainder DEF p
    <3>3. QED
      BY <3>0, <3>2 DEF x
  <2>3. ASSUME NEW k \in 1 .. Batch
        PROVE  F[k] = (k - 1) \div N + 1 /\ F[k] \in Nat
    BY <1>1, <2>2
  <2>4. F \in Seq(Nat) /\ Len(F) = Batch
    <3>1. F = [k \in 1 .. Batch |-> F[k]] /\ Batch \in Nat
      BY FlowConstants
    <3> HIDE DEF F
    <3>2. QED
      BY <2>3, <3>1, SMTT(40)
  <2> HIDE DEF F
  <2>5. Flow!ChunkSize(A, AgentWorkers) = Batch \div AgentWorkers
    BY <2>1, <2>4 DEF Flow!ChunkSize
  <2>6. Batch \div AgentWorkers \in Nat /\ Batch = AgentWorkers * (Batch \div AgentWorkers)
    BY FlowConstants, WholeBlocks
  <2> DEFINE q == Batch \div AgentWorkers
  <2>7. q # 0
    <3>1. AgentWorkers * 0 = 0 /\ Batch # 0
      BY FlowConstants
    <3> HIDE DEF q
    <3>2. QED
      BY <2>6, <3>1 DEF q
  <2>8. Parting!Cut(Nat, A, AgentWorkers, q)
    <3>1. A \in Seq(Nat) /\ Len(A) = AgentWorkers * q /\ q \in Nat \ {0}
      BY <2>1, <2>4, <2>6, <2>7
    <3> HIDE DEF A, q
    <3>2. QED
      BY <3>1, FlowConstants, Zenon DEF Parting!Cut, Parting!Total
  <2>9. QED
    BY <1>3, <2>1, <2>3, <2>4, <2>5, <2>8
<1>4. CASE bKind = "validate"
  <2>0. AgentWorkers \in Nat \ {0}
    BY FlowConstants
  <2>1. A = Parting!Padded(u, AgentWorkers)
    BY <1>1, <1>4, SameOperations DEF Flow!Asked
  <2>2. /\ A \in Seq(Nat) /\ Parting!PadSize(u, AgentWorkers) \in Nat
        /\ Len(A) = n + Parting!PadSize(u, AgentWorkers)
    BY <1>1, <2>0, <2>1, Parting!PaddedRows
  <2>3. Len(A) % AgentWorkers = 0
    BY <1>1, <2>0, <2>1, Parting!PaddedDivides
  <2> DEFINE q == Len(A) \div AgentWorkers
  <2>4. Flow!ChunkSize(A, AgentWorkers) = q
    BY DEF Flow!ChunkSize
  <2>5. q \in Nat /\ Len(A) = AgentWorkers * q
    <3>1. Len(A) \in Nat
      BY <2>2
    <3>2. QED
      BY <2>0, <2>3, <3>1, WholeBlocks
  <2>6. q # 0
    <3>1. AgentWorkers * 0 = 0 /\ Len(A) # 0
      BY <2>0, <2>2
    <3> HIDE DEF q
    <3>2. QED
      BY <2>5, <3>1
  <2>7. Parting!Cut(Nat, A, AgentWorkers, q)
    <3>1. A \in Seq(Nat) /\ Len(A) = AgentWorkers * q /\ q \in Nat \ {0}
      BY <2>2, <2>5, <2>6
    <3> HIDE DEF A, q
    <3>2. QED
      BY <2>0, <3>1, Zenon DEF Parting!Cut, Parting!Total
  <2>8. QED
    BY <1>4, <2>1, <2>4, <2>7 DEF u
<1>5. QED
  BY <1>2, <1>3, <1>4

\* The invariant holds at first, ...
LEMMA FlowInitially == Flow!Init => FlowInv
<1> SUFFICES ASSUME Flow!Init PROVE FlowInv
  OBVIOUS
<1>1. /\ bPc = "generate" /\ bKind \in {"train", "validate"} /\ bSp \in SpSizes
      /\ bDynamic \in BOOLEAN /\ bCall = 1 /\ bPool = {} /\ bFuture = Flow!NoTask
      /\ bAnswers = [w \in 1 .. AgentWorkers |-> <<>>]
      /\ bRowOrder = [r \in Flow!Ranks |-> <<>>] /\ bEpoch = 1 /\ bMini = 1
      /\ bTrained = [i \in 1 .. Batch |-> 0]
  BY DEF Flow!Init, Batch
<1>2. FlowTyped
  BY <1>1, FlowConstants DEF FlowTyped
<1>3. PICK n \in IF bKind = "train" THEN {Prompts} ELSE 1 .. ValRows :
        bColumns = [uid |-> [i \in 1 .. n |-> i]]
  BY DEF Flow!Init
<1>4. n \in Nat \ {0} /\ (bKind = "train" => n = Prompts)
  BY <1>3, FlowConstants
<1>5. Asking
  BY <1>1, <1>3, <1>4 DEF Asking
<1>6. Batched /\ Rewarded /\ Parted /\ Microed /\ Trained /\ Validated
  BY <1>1 DEF Batched, Rewarded, Parted, Microed, Trained, Validated
<1>7. QED
  BY <1>2, <1>5, <1>6 DEF FlowInv

\* ... while nothing changes of the micro-batches, ...
LEMMA MicroedKept ==
  ASSUME Microed, UNCHANGED <<bRowOrder, bPc, bColumns, bSp, bMini>>
  PROVE  Microed'
BY DEF Microed, Flow!Ranks, Flow!Dp, Flow!Work, Flow!Shard, Flow!MiniSize

\* ... nor of what is trained, ...
LEMMA TrainedKept ==
  ASSUME Trained, UNCHANGED <<bPc, bKind, bColumns, bSp, bEpoch, bMini, bTrained>>
  PROVE  Trained'
BY DEF Trained, Flow!Ranks, Flow!Dp, Flow!Minis, Flow!Shard, Flow!MiniSize, ShardSize,
       Flow!Samples

\* ... of the batch, ...
LEMMA BatchedKept ==
  ASSUME Batched, UNCHANGED <<bPc, bKind, bColumns>>
  PROVE  Batched'
BY DEF Batched, Flow!Samples, Computed

\* ... of the reward task, ...
LEMMA RewardedKept ==
  ASSUME Rewarded, UNCHANGED <<bPc, bKind, bColumns, bFuture>>
  PROVE  Rewarded'
BY DEF Rewarded, Flow!Samples

\* ... of a validated batch, ...
LEMMA ValidatedKept ==
  ASSUME Validated, UNCHANGED <<bPc, bKind, bColumns>>
  PROVE  Validated'
BY DEF Validated, Flow!Samples

\* ... of the partition, ...
LEMMA PartedKept ==
  ASSUME Parted, UNCHANGED <<bPc, bColumns, bPool>>
  PROVE  Parted'
<1>1. ASSUME bPc' = "balance" PROVE Parting!KKInv' /\ IsFiniteSet(bPool)'
  <2>1. Parting!KKInv /\ IsFiniteSet(bPool)
    BY <1>1 DEF Parted
  <2>2. UNCHANGED <<Flow!Lengths, bPool>>
    BY DEF Flow!Lengths
  <2>3. QED
    BY <2>1, <2>2, Parting!KKStutter DEF Parting!vars
<1>2. QED
  BY <1>1 DEF Parted

\* ... or of the request, ...
LEMMA AskingKept ==
  ASSUME Asking, UNCHANGED <<bPc, bKind, bColumns, bAnswers>>
  PROVE  Asking'
BY DEF Asking, Flow!Asked, IsAnswer

\* ... if an agent worker answers, ...
LEMMA FlowAnswers ==
  ASSUME FlowInv, NEW w \in 1 .. AgentWorkers, Flow!Answer(w)
  PROVE  FlowInv'
<1>1. /\ bPc = "generate" /\ bAnswers[w] = <<>>
      /\ UNCHANGED <<bPc, bKind, bSp, bDynamic, bColumns, bPool, bFuture, bCall, bRowOrder,
                     bLeft, bEntered, bEpoch, bMini, bTrained>>
  BY DEF Flow!Answer, Flow!config, Flow!ranksRun, Flow!steps
<1>2. /\ FlowTyped' /\ Batched' /\ Rewarded' /\ Parted' /\ Microed' /\ Trained' /\ Validated'
  <2>1. FlowTyped'
    BY <1>1 DEF FlowInv, FlowTyped
  <2>2. QED
    BY <1>1, <2>1, BatchedKept, RewardedKept, PartedKept, MicroedKept, TrainedKept,
       ValidatedKept DEF FlowInv
<1> DEFINE size == Flow!ChunkSize(Flow!Asked, AgentWorkers)
           A == Flow!Asked
<1>3. PICK n \in Nat \ {0} : bColumns = [uid |-> [i \in 1 .. n |-> i]]
                             /\ (bKind = "train" => n = Prompts)
  BY <1>1 DEF FlowInv, Asking
<1>3a. Parting!Cut(Nat, A, AgentWorkers, size)
  BY <1>3, AskedRows DEF FlowInv
<1>4. A \in Seq(Nat) /\ size \in Nat \ {0}
  BY <1>3a, Zenon DEF Parting!Cut
<1>5. A' = A /\ size' = size
  BY <1>1 DEF Flow!Asked
<1>6. PICK len \in [1 .. size -> 1 .. MaxLen] :
        bAnswers' = [bAnswers EXCEPT ![w] =
          [k \in 1 .. size |-> [prompt |-> Flow!Chunk(A, AgentWorkers, w)[k],
                                id |-> (w - 1) * size + k, len |-> len[k]]]]
  BY DEF Flow!Answer
<1> DEFINE s == [k \in 1 .. size |-> [prompt |-> Flow!Chunk(A, AgentWorkers, w)[k],
                                      id |-> (w - 1) * size + k, len |-> len[k]]]
<1>7. IsAnswer(w, s, size)
  <2>0. Flow!Chunk(A, AgentWorkers, w) = Parting!Chunk(A, AgentWorkers, w)
    BY SameOperations
  <2> HIDE DEF A, size
  <2>1. ASSUME NEW k \in 1 .. size
        PROVE  /\ s[k] \in Sample /\ s[k].prompt = A[Parting!RowAt(w, size, k)]
               /\ s[k].id = Parting!RowAt(w, size, k)
    <3>0. Parting!RowAt(w, size, k) \in 1 .. Len(A)
      BY <1>3a, Parting!ChunkRow
    <3>1. Parting!Chunk(A, AgentWorkers, w)[k] = A[Parting!RowAt(w, size, k)]
      BY <1>3a, Parting!ChunkRow
    <3>2. s[k] = [prompt |-> Flow!Chunk(A, AgentWorkers, w)[k],
                  id |-> (w - 1) * size + k, len |-> len[k]]
      OBVIOUS
    <3>3. Parting!RowAt(w, size, k) = (w - 1) * size + k
      BY DEF Parting!RowAt
    <3> HIDE DEF s
    <3>4. s[k] = [prompt |-> A[Parting!RowAt(w, size, k)],
                  id |-> Parting!RowAt(w, size, k), len |-> len[k]]
      BY <2>0, <3>1, <3>2, <3>3
    <3>5. A[Parting!RowAt(w, size, k)] \in Nat /\ Parting!RowAt(w, size, k) \in Nat
      BY <1>4, <3>0
    <3>6. len[k] \in 1 .. MaxLen
      BY <1>6
    <3>7. QED
      BY <3>4, <3>5, <3>6 DEF Sample
  <2>2. s = [k \in 1 .. size |-> s[k]] /\ DOMAIN s = 1 .. size
    OBVIOUS
  <2> HIDE DEF s
  <2>3. s \in [1 .. size -> Sample]
    BY <2>1, <2>2
  <2>4. s \in Seq(Sample) /\ Len(s) = size
    BY <1>4, <2>3
  <2>5. QED
    BY <2>1, <2>4 DEF IsAnswer, A
<1>8. Asking'
  <2> HIDE DEF s
  <2>1. ASSUME NEW v \in 1 .. AgentWorkers, bAnswers'[v] # <<>>
        PROVE  IsAnswer(v, bAnswers'[v], size)
    <3>1. CASE v = w
      <4>1. bAnswers'[v] = s \/ bAnswers'[v] = bAnswers[w]
        BY <1>6, <3>1 DEF s
      <4>2. QED
        BY <1>1, <1>7, <2>1, <3>1, <4>1
    <3>2. CASE v # w
      <4>1. bAnswers'[v] = bAnswers[v]
        BY <1>6, <3>2
      <4>2. QED
        BY <1>1, <2>1, <4>1 DEF FlowInv, Asking
    <3>3. QED
      BY <3>1, <3>2
  <2>2. \A v, t : IsAnswer(v, t, size)' <=> IsAnswer(v, t, size)
    BY <1>5 DEF IsAnswer
  <2>3. QED
    BY <1>1, <1>3, <1>5, <2>1, <2>2 DEF Asking
<1>9. QED
  BY <1>2, <1>8 DEF FlowInv

\* What the agent workers have answered, put together: a row for every row that
\* they were asked for.
LEMMA Answered ==
  ASSUME FlowInv, Flow!Generated
  PROVE  LET s == Flow!Concat(bAnswers, AgentWorkers)
         IN  /\ s \in Seq(Sample) /\ Len(s) = Len(Flow!Asked)
             /\ \A k \in 1 .. Len(s) : s[k].prompt = Flow!Asked[k] /\ s[k].id = k
<1> DEFINE A == Flow!Asked
           size == Flow!ChunkSize(A, AgentWorkers)
           s == Flow!Concat(bAnswers, AgentWorkers)
<1>1. bPc = "generate" /\ \A w \in 1 .. AgentWorkers : bAnswers[w] # <<>>
  BY DEF Flow!Generated
<1>2. PICK n \in Nat \ {0} : bColumns = [uid |-> [i \in 1 .. n |-> i]]
                             /\ (bKind = "train" => n = Prompts)
  BY <1>1 DEF FlowInv, Asking
<1>3. Parting!Cut(Nat, A, AgentWorkers, size)
  BY <1>2, AskedRows DEF FlowInv
<1>4. \A w \in 1 .. AgentWorkers : IsAnswer(w, bAnswers[w], size)
  BY <1>1 DEF FlowInv, Asking
<1> HIDE DEF A, size, s
<1>5. /\ size \in Nat \ {0} /\ AgentWorkers \in Nat /\ Len(A) = Parting!Total(AgentWorkers, size)
  BY <1>3 DEF Parting!Cut
<1>6. \A w \in 1 .. AgentWorkers : bAnswers[w] \in Seq(Sample) /\ Len(bAnswers[w]) = size
  BY <1>4, Zenon DEF IsAnswer
<1>7. s = Parting!Concat(bAnswers, AgentWorkers)
  BY SameOperations DEF s
<1>8. /\ s \in Seq(Sample) /\ Len(s) = Parting!Total(AgentWorkers, size)
      /\ \A w \in 1 .. AgentWorkers, j \in 1 .. size :
           s[Parting!RowAt(w, size, j)] = bAnswers[w][j]
  <2> DEFINE t == Parting!Concat(bAnswers, AgentWorkers)
  <2>1. t \in Seq(Sample) /\ Len(t) = Parting!Total(AgentWorkers, size)
    BY <1>5, <1>6, Parting!ConcatParts, SMTT(40)
  <2>2. \A w \in 1 .. AgentWorkers, j \in 1 .. size : t[Parting!RowAt(w, size, j)] = bAnswers[w][j]
    BY <1>5, <1>6, Parting!ConcatParts, SMTT(40)
  <2>3. QED
    BY <1>7, <2>1, <2>2, Zenon
<1>9. ASSUME NEW k \in 1 .. Len(s)
      PROVE  s[k].prompt = A[k] /\ s[k].id = k
  <2>0. \A m \in 1 .. Parting!Total(AgentWorkers, size) :
          \E w \in 1 .. AgentWorkers, j \in 1 .. size : m = Parting!RowAt(w, size, j)
    BY <1>5, Parting!RowsInParts
  <2>1. PICK w \in 1 .. AgentWorkers, j \in 1 .. size : k = Parting!RowAt(w, size, j)
    BY <1>8, <2>0
  <2>2. s[k] = bAnswers[w][j]
    BY <1>8, <2>1
  <2>3. /\ bAnswers[w][j].prompt = A[Parting!RowAt(w, size, j)]
        /\ bAnswers[w][j].id = Parting!RowAt(w, size, j)
    BY <1>4, Zenon DEF IsAnswer, A
  <2>4. QED
    BY <2>1, <2>2, <2>3
<1>10. QED
  BY <1>5, <1>8, <1>9 DEF s, A

\* While the prompts are not answered no task and no micro-batches are there.
LEMMA NotYet ==
  ASSUME FlowInv, bPc = "generate"
  PROVE  /\ bPool = {} /\ bEpoch = 1 /\ bMini = 1 /\ bTrained = [i \in 1 .. Batch |-> 0]
         /\ \A r \in Flow!Ranks : bRowOrder[r] = <<>>
         /\ bKind = "train" => bFuture = Flow!NoTask
BY DEF FlowInv, Parted, Trained, Microed, Rewarded

\* ... if a batch is united with its answers, ...
LEMMA FlowUnites ==
  ASSUME FlowInv, Flow!UnionTrain
  PROVE  FlowInv'
<1> DEFINE s == Flow!Concat(bAnswers, AgentWorkers)
           A == Flow!Asked
<1>1. /\ Flow!Generated /\ bPc = "generate" /\ bKind = "train" /\ bPc' = "balance"
      /\ bColumns' = [uid |-> A, responses |-> s]
      /\ UNCHANGED <<bKind, bSp, bDynamic, bPool, bFuture, bCall, bRowOrder, bLeft, bEntered,
                     bEpoch, bMini, bTrained>>
  BY DEF Flow!UnionTrain, Flow!Generated, Flow!config, Flow!ranksRun, Flow!steps, Flow!Asked
<1>2. PICK n \in Nat \ {0} : bColumns = [uid |-> [i \in 1 .. n |-> i]] /\ n = Prompts
  BY <1>1 DEF FlowInv, Asking
<1>3. Len(A) = Batch /\ \A k \in 1 .. Batch : A[k] = (k - 1) \div N + 1
  BY <1>1, <1>2, AskedRows DEF FlowInv
<1>4. /\ s \in Seq(Sample) /\ Len(s) = Batch
      /\ \A k \in 1 .. Batch : s[k].prompt = A[k] /\ s[k].id = k
  BY <1>1, <1>3, Answered
<1>5. A \in Seq(Nat)
  BY <1>1, <1>2, AskedRows DEF FlowInv, Parting!Cut
<1> HIDE DEF s, A
<1>6. Flow!Samples' = s /\ bColumns'["uid"] = A /\ DOMAIN bColumns' = {"uid", "responses"}
  BY <1>1 DEF Flow!Samples
<1>7. TrueBatch(s)
  BY <1>3, <1>4 DEF TrueBatch
<1>8. A = [i \in 1 .. Batch |-> s[i].prompt]
  BY <1>3, <1>4, <1>5
<1>9. Batched'
  <2>1. \A c \in Computed' : bColumns'[c] = s
    BY <1>1 DEF Computed
  <2>2. QED
    BY <1>1, <1>6, <1>7, <1>8, <2>1 DEF Batched
<1>10. FlowTyped' /\ Asking' /\ Rewarded' /\ Microed' /\ Trained' /\ Validated'
  <2>1. FlowTyped' /\ Asking' /\ Validated'
    BY <1>1 DEF FlowInv, FlowTyped, Asking, Validated
  <2>2. Rewarded' /\ Trained'
    BY <1>1, NotYet DEF Rewarded, Trained
  <2>3. Microed'
    BY <1>1, NotYet DEF Microed, Flow!Ranks, Flow!Dp
  <2>4. QED
    BY <2>1, <2>2, <2>3
<1>11. Parted'
  <2>1. Parting!KarmarkarKarpAssumption
    BY StepAssumption DEF Parting!KarmarkarKarpAssumption,
       Flow!Balancing!KarmarkarKarpAssumption
  <2>2. Flow!Lengths' = [i \in DOMAIN s |-> s[i].len]
    BY <1>1 DEF Flow!Lengths
  <2>3. Flow!Lengths' \in [1 .. Batch -> 1 .. MaxLen]
    <3>1. \A i \in 1 .. Batch : s[i] \in Sample
      BY <1>4
    <3>2. \A i \in 1 .. Batch : s[i].len \in 1 .. MaxLen
      BY <3>1 DEF Sample
    <3>3. DOMAIN s = 1 .. Batch
      BY <1>4
    <3>4. QED
      BY <2>2, <3>2, <3>3
  <2>4. bPool' = {}
    BY <1>1, NotYet
  <2>5. Parting!KKInv'
    BY <2>1, <2>3, <2>4 DEF Parting!KKInv, Parting!Lengths, Parting!ItemsOnce,
       Parting!Items, Batch, Parting!KarmarkarKarpAssumption
  <2>6. IsFiniteSet(bPool)'
    BY <2>4, FS_EmptySet
  <2>7. QED
    BY <1>1, <2>5, <2>6 DEF Parted
<1>12. QED
  BY <1>9, <1>10, <1>11 DEF FlowInv

\* ... also one of validation, whose padding goes, ...
LEMMA FlowValidates ==
  ASSUME FlowInv, Flow!UnionValidate
  PROVE  FlowInv'
<1> DEFINE s == Flow!Concat(bAnswers, AgentWorkers)
           A == Flow!Asked
<1>1. /\ Flow!Generated /\ bPc = "generate" /\ bKind = "validate" /\ bPc' = "done"
      /\ bColumns' = Flow!With("responses",
           Flow!Unpadded(s, Flow!PadSize(bColumns.uid, AgentWorkers)))
      /\ UNCHANGED <<bKind, bSp, bDynamic, bPool, bFuture, bCall, bRowOrder, bLeft, bEntered,
                     bEpoch, bMini, bTrained>>
  BY DEF Flow!UnionValidate, Flow!Generated, Flow!config, Flow!ranksRun, Flow!steps
<1>2. PICK n \in Nat \ {0} : bColumns = [uid |-> [i \in 1 .. n |-> i]]
  BY <1>1 DEF FlowInv, Asking
<1> DEFINE u == [i \in 1 .. n |-> i]
           p == Parting!PadSize(u, AgentWorkers)
           t == Flow!Unpadded(s, p)
<1>3. bColumns.uid = u /\ u \in Seq(Nat) /\ Len(u) = n /\ \A i \in 1 .. n : u[i] = i
  BY <1>2
<1>4. A = Parting!Padded(u, AgentWorkers)
  BY <1>1, <1>2, AskedRows DEF FlowInv
<1> HIDE DEF u
<1>5. p \in Nat /\ Len(A) = n + p /\ \A i \in 1 .. n : A[i] = i
  <2>1. AgentWorkers \in Nat \ {0}
    BY FlowConstants
  <2> DEFINE v == Parting!Padded(u, AgentWorkers)
  <2>2. p \in Nat
    BY <1>3, <2>1, Parting!PaddedRows
  <2>3. Len(v) = Len(u) + p
    BY <1>3, <2>1, Parting!PaddedRows
  <2>4. ASSUME NEW i \in 1 .. Len(u) PROVE v[i] = u[i]
    BY <1>3, <2>1, Parting!PaddedRow
  <2> HIDE DEF p, A, v
  <2>5. A = v
    BY <1>4 DEF v
  <2>6. QED
    BY <1>3, <2>2, <2>3, <2>4, <2>5
<1> HIDE DEF A
<1>6. /\ s \in Seq(Sample) /\ Len(s) = Len(A)
      /\ \A k \in 1 .. Len(s) : s[k].prompt = A[k] /\ s[k].id = k
  BY <1>1, Answered DEF A
<1> HIDE DEF s, p
<1>7. t \in Seq(Sample) /\ Len(t) = n /\ \A i \in 1 .. n : t[i] = s[i]
  <2>1. t = SubSeq(s, 1, n)
    <3>1. Len(s) - p = n
      BY <1>5, <1>6
    <3>2. QED
      BY <3>1 DEF Flow!Unpadded
  <2>2. /\ \A i \in 1 .. n : s[i] \in Sample /\ 1 + i - 1 = i
        /\ n - 1 + 1 = n /\ n \in Int /\ 1 \in Int /\ 1 <= n
    BY <1>5, <1>6
  <2>3. SubSeq(s, 1, n) \in Seq(Sample) /\ Len(SubSeq(s, 1, n)) = n
        /\ \A i \in 1 .. n : SubSeq(s, 1, n)[i] = s[i]
    BY <2>2, SubSeqProperties
  <2> HIDE DEF t
  <2>4. QED
    BY <2>1, <2>3
<1>8. bColumns' = [c \in {"uid", "responses"} |-> IF c = "responses" THEN t ELSE u]
  <2>1. Flow!PadSize(bColumns.uid, AgentWorkers) = p
    BY <1>3, SameOperations DEF p
  <2>2. DOMAIN bColumns = {"uid"} /\ bColumns["uid"] = u
    BY <1>2 DEF u
  <2>3. bColumns' = [c \in DOMAIN bColumns \cup {"responses"} |->
                       IF c = "responses" THEN t ELSE bColumns[c]]
    BY <1>1, <2>1 DEF Flow!With
  <2>4. DOMAIN bColumns \cup {"responses"} = {"uid", "responses"}
    BY <2>2
  <2> HIDE DEF t, u
  <2>5. QED
    BY <2>2, <2>3, <2>4
<1> HIDE DEF t
<1>9. Validated'
  <2>1. Flow!Samples' = t /\ bColumns'["uid"] = u /\ DOMAIN bColumns' = {"uid", "responses"}
    BY <1>8 DEF Flow!Samples
  <2>2. u = [i \in 1 .. n |-> t[i].prompt]
    <3>1. \A i \in 1 .. n : i \in 1 .. Len(s)
      BY <1>5, <1>6
    <3>2. \A i \in 1 .. n : t[i].prompt = i
      BY <1>5, <1>6, <1>7, <3>1
    <3>3. QED
      BY <3>2 DEF u
  <2>3. QED
    BY <1>1, <1>7, <2>1, <2>2 DEF Validated
<1>10. FlowTyped' /\ Asking' /\ Batched' /\ Rewarded' /\ Microed' /\ Trained' /\ Parted'
  <2>1. FlowTyped' /\ Asking' /\ Batched' /\ Rewarded' /\ Trained' /\ Parted'
    BY <1>1 DEF FlowInv, FlowTyped, Asking, Batched, Rewarded, Trained, Parted
  <2>2. Microed'
    BY <1>1, NotYet DEF Microed, Flow!Ranks, Flow!Dp
  <2>3. QED
    BY <2>1, <2>2
<1>11. QED
  BY <1>9, <1>10 DEF FlowInv

\* ... if the reward task starts, ...
LEMMA FlowRewards ==
  ASSUME FlowInv, Flow!LaunchReward
  PROVE  FlowInv'
<1>1. /\ bPc = "reward" /\ bPc' = "call"
      /\ bFuture' = [rows |-> Flow!Samples, done |-> FALSE]
      /\ UNCHANGED <<bKind, bSp, bDynamic, bColumns, bPool, bCall, bRowOrder, bLeft, bEntered,
                     bEpoch, bMini, bTrained>>
  BY DEF Flow!LaunchReward, Flow!config, Flow!ranksRun, Flow!steps, Flow!Samples
<1>2. FlowTyped' /\ Asking' /\ Parted' /\ Trained' /\ Validated'
  BY <1>1 DEF FlowInv, FlowTyped, Asking, Parted, Trained, Validated
<1>3. Batched'
  BY <1>1 DEF FlowInv, Batched, Computed, Flow!Samples
<1>4. Rewarded'
  BY <1>1 DEF Rewarded, Flow!Samples
<1>5. Microed'
  BY <1>1 DEF FlowInv, Microed, Flow!Ranks, Flow!Dp
<1>6. QED
  BY <1>2, <1>3, <1>4, <1>5 DEF FlowInv

\* ... and ends, ...
LEMMA FlowScored ==
  ASSUME FlowInv, Flow!RewardDone
  PROVE  FlowInv'
<1>1. /\ bFuture # Flow!NoTask /\ bFuture' = [bFuture EXCEPT !.done = TRUE]
      /\ UNCHANGED <<bPc, bKind, bSp, bDynamic, bColumns, bAnswers, bPool, bCall, bRowOrder,
                     bLeft, bEntered, bEpoch, bMini, bTrained>>
  BY DEF Flow!RewardDone, Flow!config, Flow!ranksRun, Flow!steps
<1>2. Rewarded'
  <2> SUFFICES ASSUME bKind = "train" PROVE Rewarded'
    BY <1>1 DEF Rewarded
  <2>1. bPc \notin {"generate", "balance", "reward"}
    BY <1>1 DEF FlowInv, Rewarded
  <2>0. PICK d \in BOOLEAN : bFuture = [rows |-> Flow!Samples, done |-> d]
    BY <1>1, <2>1 DEF FlowInv, Rewarded
  <2>a. bFuture' = [rows |-> Flow!Samples, done |-> TRUE]
    BY <1>1, <2>0
  <2>b. Flow!Samples' = Flow!Samples
    BY <1>1 DEF Flow!Samples
  <2>2. bFuture' = [rows |-> Flow!Samples', done |-> TRUE]
    BY <2>a, <2>b
  <2>3. QED
    BY <1>1, <2>1, <2>2, Zenon DEF Rewarded
<1>3. FlowTyped'
  BY <1>1 DEF FlowInv, FlowTyped
<1>4. QED
  BY <1>1, <1>2, <1>3, AskingKept, BatchedKept, PartedKept, MicroedKept, TrainedKept,
     ValidatedKept DEF FlowInv

\* Balancing is what PartitionProofs is about.
LEMMA SameBalancing ==
  /\ Flow!Balancing!Fill => Parting!Fill
  /\ Flow!Balancing!Merge => Parting!Merge
  /\ Flow!Balancing!IsDone => Parting!IsDone
<1>1. \A S : Flow!Balancing!Cardinality(S) = Parting!Cardinality(S)
  BY DEF Flow!Balancing!Cardinality, Parting!Cardinality, Flow!Balancing!IsFiniteSet,
     Parting!IsFiniteSet
<1>2. Flow!Balancing!IsDone => Parting!IsDone
  BY <1>1 DEF Flow!Balancing!IsDone, Parting!IsDone
<1>3. Flow!Balancing!Fill => Parting!Fill
  <2>1. /\ Flow!Balancing!Items = Parting!Items /\ Flow!Balancing!Parts = Parting!Parts
        /\ Flow!Balancing!EmptySet = Parting!EmptySet
    BY DEF Flow!Balancing!Items, Parting!Items, Flow!Balancing!Parts, Parting!Parts,
       Flow!Balancing!EmptySet, Parting!EmptySet
  <2>2. \A i : Flow!Balancing!SetOf(i) = Parting!SetOf(i)
    BY DEF Flow!Balancing!SetOf, Parting!SetOf
  <2>3. Flow!Balancing!Sorted = Parting!Sorted
    BY DEF Flow!Balancing!Sorted, Parting!Sorted, Flow!Balancing!Turn, Parting!Turn,
       Flow!Balancing!Before, Parting!Before, Flow!Balancing!Items, Parting!Items,
       Flow!Balancing!Cardinality, Parting!Cardinality, Flow!Balancing!IsFiniteSet,
       Parting!IsFiniteSet
  <2>5. \A g : Flow!Balancing!Neighbours(g) = Parting!Neighbours(g)
    BY <2>1, <2>2, <2>3, Zenon DEF Flow!Balancing!Neighbours, Parting!Neighbours
  <2>6. \A i : Flow!Balancing!Alone(i) = Parting!Alone(i)
    BY <2>1, <2>2, Zenon DEF Flow!Balancing!Alone, Parting!Alone
  <2>7. QED
    BY <2>1, <2>5, <2>6, Zenon DEF Flow!Balancing!Fill, Parting!Fill
<1>4. Flow!Balancing!Merge => Parting!Merge
  <2>1. Flow!Balancing!Parts = Parting!Parts
    BY DEF Flow!Balancing!Parts, Parting!Parts
  <2>2. \A a, b : Flow!Balancing!Less(a, b) = Parting!Less(a, b)
    BY <1>1, Zenon DEF Flow!Balancing!Less, Parting!Less
  <2>3. \A s, t : Flow!Balancing!Precedes(s, t) = Parting!Precedes(s, t)
    BY <2>2, Zenon DEF Flow!Balancing!Precedes, Parting!Precedes, Flow!Balancing!Spread,
       Parting!Spread
  <2>4. \A s, P : Flow!Balancing!Top(s, P) = Parting!Top(s, P)
    BY <2>3, Zenon DEF Flow!Balancing!Top, Parting!Top
  <2>5. \A s, t : Flow!Balancing!Crossed(s, t) = Parting!Crossed(s, t)
    BY <2>1, Zenon DEF Flow!Balancing!Crossed, Parting!Crossed, Flow!Balancing!Joined,
       Parting!Joined
  <2>6. \A s : Flow!Balancing!Decreasing(s) = Parting!Decreasing(s)
    BY <2>1, <2>2, Zenon DEF Flow!Balancing!Decreasing, Parting!Decreasing
  <2>7. \A S : Flow!Balancing!Bijections(S) = Parting!Bijections(S)
    BY Zenon DEF Flow!Balancing!Bijections, Parting!Bijections
  <2>8. \A s : Flow!Balancing!Arranged(s) = Parting!Arranged(s)
    BY <2>1, <2>6, <2>7, Zenon DEF Flow!Balancing!Arranged, Parting!Arranged
  <2>9. QED
    BY <2>4, <2>5, <2>8, Zenon DEF Flow!Balancing!Merge, Parting!Merge
<1>5. QED
  BY <1>2, <1>3, <1>4

\* ... while it is balanced, ...
LEMMA FlowBalances ==
  ASSUME FlowInv, Flow!Balance
  PROVE  FlowInv'
<1>1. /\ bPc = "balance" /\ (Flow!Balancing!Fill \/ Flow!Balancing!Merge)
      /\ UNCHANGED <<bPc, bKind, bSp, bDynamic, bColumns, bAnswers, bFuture, bCall, bRowOrder,
                     bLeft, bEntered, bEpoch, bMini, bTrained>>
  BY DEF Flow!Balance, Flow!config, Flow!ranksRun, Flow!steps
<1>2. Parting!KKInv /\ IsFiniteSet(bPool)
  BY <1>1 DEF FlowInv, Parted
<1>3. CASE Flow!Balancing!Fill
  <2>1. Parting!Fill
    BY <1>3, SameBalancing
  <2>2. Parting!KKInv'
    BY <1>2, <2>1, Parting!KKFill
  <2>3. IsFiniteSet(bPool')
    <3> DEFINE G == 0 .. Batch \div World - 1
    <3>1. bPool' = {Parting!Neighbours(g) : g \in G}
      BY <2>1 DEF Parting!Fill, Batch
    <3>2. IsFiniteSet(G)
      <4>1. Batch \div World \in Nat
        BY FlowConstants, WholeBlocks
      <4>2. 0 \in Int /\ Batch \div World - 1 \in Int
        BY <4>1
      <4>3. QED
        BY <4>2, FS_Interval
    <3> DEFINE f == [g \in G |-> Parting!Neighbours(g)]
    <3>3. f \in [G -> bPool'] /\ \A z \in bPool' : \E g \in G : f[g] = z
      <4> HIDE DEF G
      <4>1. \A g \in G : f[g] = Parting!Neighbours(g)
        OBVIOUS
      <4>2. f = [g \in G |-> f[g]]
        OBVIOUS
      <4> HIDE DEF f
      <4>3. QED
        BY <3>1, <4>1, <4>2
    <3> HIDE DEF G, f
    <3>4. f \in Surjection(G, bPool')
      BY <3>3, Zenon DEF Surjection
    <3>5. QED
      BY <3>2, <3>4, FS_Surjection
  <2>4. Parted'
    BY <1>1, <2>2, <2>3 DEF Parted
  <2>5. QED
    BY <1>1, <2>4, BatchedKept, RewardedKept, MicroedKept, TrainedKept, ValidatedKept,
       AskingKept DEF FlowInv, FlowTyped
<1>4. CASE Flow!Balancing!Merge
  <2>1. Parting!Merge
    BY <1>4, SameBalancing
  <2>2. Parting!KKInv'
    BY <1>2, <2>1, Parting!KKMerge
  <2>3. IsFiniteSet(bPool')
    <3>1. PICK s, t, u : bPool' = (bPool \ {s, t}) \cup {u}
      BY <2>1 DEF Parting!Merge
    <3>2. IsFiniteSet(bPool \ {s, t})
      BY <1>2, FS_Subset
    <3>3. QED
      BY <3>1, <3>2, FS_AddElement
  <2>4. Parted'
    BY <1>1, <2>2, <2>3 DEF Parted
  <2>5. QED
    BY <1>1, <2>4, BatchedKept, RewardedKept, MicroedKept, TrainedKept, ValidatedKept,
       AskingKept DEF FlowInv, FlowTyped
<1>5. QED
  BY <1>1, <1>3, <1>4

\* The rows of a batch in another order are the batch.
LEMMA ReorderedBatch ==
  ASSUME NEW s, TrueBatch(s), NEW idx, Parting!NamesOnce(idx, Batch)
  PROVE  /\ TrueBatch(Flow!Reordered(s, idx))
         /\ Flow!Reordered(s, idx) = [k \in 1 .. Batch |-> s[idx[k]]]
         /\ \A k \in 1 .. Batch : idx[k] \in 1 .. Batch
<1> DEFINE t == [k \in 1 .. Batch |-> s[idx[k]]]
<1>1. /\ idx \in [1 .. Batch -> 1 .. Batch]
      /\ \A k, l \in 1 .. Batch : idx[k] = idx[l] => k = l
      /\ \A i \in 1 .. Batch : \E k \in 1 .. Batch : idx[k] = i
  BY Zenon DEF Parting!NamesOnce
<1>2. Len(idx) = Batch
  BY <1>1, FlowConstants
<1>3. Flow!Reordered(s, idx) = t
  BY <1>2 DEF Flow!Reordered
<1>4. /\ s \in Seq(Sample) /\ Len(s) = Batch
      /\ \A i \in 1 .. Batch : s[i].id \in 1 .. Batch /\ s[i].prompt = (s[i].id - 1) \div N + 1
      /\ \A i, j \in 1 .. Batch : s[i].id = s[j].id => i = j
      /\ \A k \in 1 .. Batch : \E i \in 1 .. Batch : s[i].id = k
  BY Zenon DEF TrueBatch
<1>5. \A k \in 1 .. Batch : idx[k] \in 1 .. Batch /\ t[k] = s[idx[k]]
  BY <1>1
<1>6. t \in Seq(Sample) /\ Len(t) = Batch
  <2>1. \A k \in 1 .. Batch : t[k] \in Sample
    BY <1>4, <1>5
  <2>2. t = [k \in 1 .. Batch |-> t[k]]
    OBVIOUS
  <2> HIDE DEF t
  <2>3. t \in [1 .. Batch -> Sample] /\ Batch \in Nat
    BY <2>1, <2>2, FlowConstants
  <2>4. QED
    BY <2>3
<1> HIDE DEF t
<1> DEFINE D == 1 .. Batch
           Good(x) == x.id \in 1 .. Batch /\ x.prompt = (x.id - 1) \div N + 1
<1>7. \A i \in D : Good(t[i])
  <2>1. (\A i \in D : Good(s[i])) /\ \A k \in D : idx[k] \in D /\ t[k] = s[idx[k]]
    BY <1>4, <1>5, Zenon
  <2> HIDE DEF D, Good
  <2>2. QED
    BY <2>1
<1>8. \A i, j \in D : t[i].id = t[j].id => i = j
  <2>1. /\ \A k \in D : idx[k] \in D /\ t[k] = s[idx[k]]
        /\ \A k, l \in D : idx[k] = idx[l] => k = l
        /\ \A i, j \in D : s[i].id = s[j].id => i = j
    BY <1>1, <1>4, <1>5, Zenon
  <2> HIDE DEF D
  <2>2. QED
    BY <2>1
<1>9. ASSUME NEW k \in 1 .. Batch PROVE \E i \in 1 .. Batch : t[i].id = k
  <2>1. PICK j \in 1 .. Batch : s[j].id = k
    BY <1>4
  <2>2. PICK i \in 1 .. Batch : idx[i] = j
    BY <1>1
  <2>3. t[i].id = k
    BY <1>5, <2>1, <2>2
  <2>4. QED
    BY <2>3
<1>10. TrueBatch(t)
  BY <1>6, <1>7, <1>8, <1>9, Zenon DEF TrueBatch
<1>11. QED
  BY <1>3, <1>5, <1>10 DEF t

\* The partition that is left when balancing ends names every row once.
LEMMA OrderIs ==
  ASSUME Parting!KKInv, IsFiniteSet(bPool), Flow!Balancing!IsDone, NEW s \in bPool
  PROVE  /\ Parting!NamesOnce(Flow!Order(s), Batch) /\ bPool = {s} /\ Parting!IsState(s)
         /\ \A i \in 1 .. Batch : \E p \in 1 .. World : i \in s[p].items
<1>1. Parting!IsDone
  BY SameBalancing
<1>2. Cardinality(bPool) = 1
  BY <1>1 DEF Parting!IsDone, Parting!Cardinality, Cardinality, Parting!IsFiniteSet, IsFiniteSet
<1>3. bPool = {s}
  <2>1. PICK x : bPool = {x}
    BY <1>2, FS_Singleton
  <2>2. QED
    BY <2>1
<1>4. \A i \in 1 .. Batch : \E p \in 1 .. World : i \in s[p].items
  <2>1. \A i \in Parting!Items : \E t \in bPool, p \in Parting!Parts : i \in t[p].items
    BY <1>3 DEF Parting!KKInv, Parting!ItemsOnce
  <2>2. QED
    BY <1>3, <2>1 DEF Parting!Items, Parting!Parts, Batch
<1>5. Parting!IsState(s)
  BY DEF Parting!KKInv
<1> DEFINE part == [i \in 1 .. Batch |-> CHOOSE p \in 1 .. World : i \in s[p].items]
<1>6. part \in [1 .. Batch -> Int] /\ Batch \in Nat
  <2>1. \A i \in 1 .. Batch : (CHOOSE p \in 1 .. World : i \in s[p].items) \in 1 .. World
    BY <1>4
  <2>2. \A i \in 1 .. Batch : (CHOOSE p \in 1 .. World : i \in s[p].items) \in Int
    BY <2>1
  <2>3. QED
    BY <2>2, FlowConstants
<1>7. Flow!Order(s) = Parting!Flattened(part)
  BY SameOperations DEF Flow!Order, Batch
<1> HIDE DEF part
<1>8. Parting!NamesOnce(Parting!Flattened(part), Batch)
  BY <1>6, Parting!FlattenedNamesOnce
<1>9. QED
  BY <1>3, <1>4, <1>5, <1>7, <1>8

\* ... if its rows take the order of the parts, ...
LEMMA FlowReorders ==
  ASSUME FlowInv, Flow!Reorder
  PROVE  FlowInv'
<1>1. /\ bPc = "balance" /\ Flow!Balancing!IsDone /\ bPool' = {} /\ bPc' = "reward"
      /\ UNCHANGED <<bKind, bSp, bDynamic, bAnswers, bFuture, bCall, bRowOrder, bLeft,
                     bEntered, bEpoch, bMini, bTrained>>
  BY DEF Flow!Reorder, Flow!config, Flow!ranksRun, Flow!steps
<1>2. PICK s \in bPool :
        bColumns' = [c \in DOMAIN bColumns |-> Flow!Reordered(bColumns[c], Flow!Order(s))]
  BY DEF Flow!Reorder
<1> DEFINE idx == Flow!Order(s)
           S == Flow!Samples
           t == Flow!Reordered(S, idx)
<1>3. bKind = "train"
  BY <1>1 DEF FlowInv, FlowTyped
<1>4. Parting!NamesOnce(idx, Batch)
  BY <1>1, OrderIs DEF FlowInv, Parted
<1>5. /\ {"uid", "responses"} \subseteq DOMAIN bColumns /\ TrueBatch(S)
      /\ bColumns["uid"] = [i \in 1 .. Batch |-> S[i].prompt]
      /\ \A c \in Computed : bColumns[c] = S
      /\ "advantages" \notin DOMAIN bColumns
  BY <1>1, <1>3 DEF FlowInv, Batched
<1> HIDE DEF idx
<1>6. TrueBatch(t) /\ t = [k \in 1 .. Batch |-> S[idx[k]]]
      /\ \A k \in 1 .. Batch : idx[k] \in 1 .. Batch
  BY <1>4, <1>5, ReorderedBatch
<1>7. /\ DOMAIN bColumns' = DOMAIN bColumns
      /\ \A c \in DOMAIN bColumns : bColumns'[c] = Flow!Reordered(bColumns[c], idx)
  BY <1>2 DEF idx
<1>8. Flow!Samples' = t
  BY <1>5, <1>7 DEF Flow!Samples
<1> HIDE DEF S, t
<1>9. bColumns'["uid"] = [k \in 1 .. Batch |-> t[k].prompt]
  <2>1. bColumns'["uid"] = Flow!Reordered(bColumns["uid"], idx)
    BY <1>5, <1>7
  <2>2. Len(idx) = Batch
    BY <1>4, FlowConstants DEF Parting!NamesOnce
  <2>3. bColumns'["uid"] = [k \in 1 .. Batch |-> bColumns["uid"][idx[k]]]
    BY <2>1, <2>2, Zenon DEF Flow!Reordered
  <2>4. \A k \in 1 .. Batch : bColumns["uid"][idx[k]] = t[k].prompt
    BY <1>5, <1>6
  <2>5. QED
    BY <2>3, <2>4
<1>10. \A c \in Computed' : bColumns'[c] = t
  <2>1. Computed' = Computed
    BY <1>7 DEF Computed
  <2>2. QED
    BY <1>5, <1>7, <2>1 DEF Computed, t
<1>11. Batched'
  BY <1>5, <1>6, <1>7, <1>8, <1>9, <1>10 DEF Batched
<1>12. FlowTyped' /\ Asking' /\ Rewarded' /\ Parted' /\ Trained' /\ Validated'
  BY <1>1, <1>3 DEF FlowInv, FlowTyped, Asking, Rewarded, Parted, Trained, Validated
<1>13. Microed'
  BY <1>1 DEF FlowInv, Microed, Flow!Ranks, Flow!Dp
<1>14. QED
  BY <1>11, <1>12, <1>13 DEF FlowInv

\* The mini-batches of a shard: all but the last are whole, and none is empty.
LEMMA MiniBounds ==
  ASSUME NEW size \in Nat \ {0}, NEW ms \in Nat \ {0}, NEW m \in 1 .. Flow!CeilDiv(size, ms)
  PROVE  /\ (m - 1) * ms \in Nat /\ m * ms = (m - 1) * ms + ms /\ (m - 1) * ms < size
         /\ m = Flow!CeilDiv(size, ms) <=> m * ms >= size
<1> DEFINE q == (size + ms - 1) \div ms
           x == (m - 1) * ms
           y == m * ms
           z == q * ms
<1>1. Flow!CeilDiv(size, ms) = q
  BY DEF Flow!CeilDiv
<1>2. size + ms - 1 \in Nat
  OBVIOUS
<1>3. q \in Nat /\ z <= size + ms - 1 /\ size + ms - 1 < z + ms
  BY <1>2, BlockOf
<1> HIDE DEF q
<1>4. m \in Nat /\ m - 1 \in Nat /\ m <= q /\ m >= 1
  BY <1>1, <1>3
<1>5. x \in Nat /\ y = x + ms /\ y \in Nat /\ z \in Nat
  BY <1>3, <1>4, SMTT(30)
<1>6. m < q => y + ms <= z
  BY <1>3, <1>4, BlocksApart
<1>7. m = q => y = z
  OBVIOUS
<1> HIDE DEF x, y, z
<1>8. x < size /\ (m = q <=> y >= size)
  BY <1>2, <1>3, <1>4, <1>5, <1>6, <1>7
<1>9. QED
  BY <1>1, <1>5, <1>8 DEF x, y

\* The shard of a rank.
LEMMA ShardIs ==
  ASSUME TrueBatch(Flow!Samples), bSp \in SpSizes
  PROVE  /\ Parting!Cut(Sample, Flow!Samples, Flow!Dp, ShardSize)
         /\ \A r \in Flow!Ranks :
              /\ Flow!Shard(r) = Parting!Chunk(Flow!Samples, Flow!Dp, r)
              /\ Flow!Shard(r) \in Seq(Sample) /\ Len(Flow!Shard(r)) = ShardSize
<1> DEFINE S == Flow!Samples
           d == Flow!Dp
<1>1. S \in Seq(Sample) /\ Len(S) = Batch
  BY Zenon DEF TrueBatch
<1>2. d \in Nat \ {0} /\ ShardSize \in Nat \ {0} /\ Batch = d * ShardSize
  BY ShardsDivide
<1>3. Parting!Cut(Sample, S, d, ShardSize)
  <2> HIDE DEF S, d
  <2>1. Len(S) = Parting!Total(d, ShardSize)
    BY <1>1, <1>2, Zenon DEF Parting!Total
  <2>2. QED
    BY <1>1, <1>2, <2>1, Zenon DEF Parting!Cut
<1>4. ASSUME NEW r \in Flow!Ranks
      PROVE  /\ Flow!Shard(r) = Parting!Chunk(S, d, r)
             /\ Flow!Shard(r) \in Seq(Sample) /\ Len(Flow!Shard(r)) = ShardSize
  <2>1. Flow!Shard(r) = Parting!Chunk(S, d, r)
    BY SameOperations DEF Flow!Shard, Flow!Samples
  <2>2. r \in 1 .. d
    BY DEF Flow!Ranks
  <2> HIDE DEF S, d
  <2>3. Parting!Chunk(S, d, r) \in Seq(Sample)
    BY <1>3, <2>2, Parting!ChunkIs
  <2>4. Len(Parting!Chunk(S, d, r)) = ShardSize
    BY <1>3, <2>2, Parting!ChunkIs
  <2>5. QED
    BY <2>1, <2>3, <2>4
<1>5. QED
  BY <1>3, <1>4

\* A row of it.
LEMMA ShardRow ==
  ASSUME TrueBatch(Flow!Samples), bSp \in SpSizes, NEW r \in Flow!Ranks, NEW j \in 1 .. ShardSize
  PROVE  /\ Parting!RowAt(r, ShardSize, j) \in 1 .. Batch
         /\ Flow!Shard(r)[j] = Flow!Samples[Parting!RowAt(r, ShardSize, j)]
<1> DEFINE S == Flow!Samples
           d == Flow!Dp
<1>1. Parting!Cut(Sample, S, d, ShardSize) /\ Flow!Shard(r) = Parting!Chunk(S, d, r)
  BY ShardIs
<1>2. r \in 1 .. d /\ Len(S) = Batch
  BY DEF Flow!Ranks, TrueBatch
<1> HIDE DEF S, d
<1>3. Parting!RowAt(r, ShardSize, j) \in 1 .. Len(S)
  BY <1>1, <1>2, Parting!ChunkRow
<1>4. Parting!Chunk(S, d, r)[j] = S[Parting!RowAt(r, ShardSize, j)]
  BY <1>1, <1>2, Parting!ChunkRow
<1>5. QED
  BY <1>1, <1>2, <1>3, <1>4 DEF S

\* What a rank works on are rows of its shard.
LEMMA WorkIs ==
  ASSUME FlowInv, bPc \in {"call", "update"}, NEW r \in Flow!Ranks
  PROVE  /\ bKind = "train" /\ TrueBatch(Flow!Samples) /\ bSp \in SpSizes
         /\ Flow!Work(r) \in Seq(Sample)
         /\ bPc = "call" => Flow!Work(r) = Flow!Shard(r)
         /\ bPc = "update" =>
              LET lo == (bMini - 1) * Flow!MiniSize
                  hi == IF bMini * Flow!MiniSize < ShardSize THEN bMini * Flow!MiniSize
                        ELSE ShardSize
              IN  /\ lo \in Nat /\ hi \in Nat /\ lo < hi /\ hi <= ShardSize
                  /\ Len(Flow!Work(r)) = hi - lo
                  /\ \A k \in 1 .. hi - lo : Flow!Work(r)[k] = Flow!Shard(r)[lo + k]
<1>1. bKind = "train" /\ bSp \in SpSizes /\ TrueBatch(Flow!Samples)
  BY DEF FlowInv, FlowTyped, Batched
<1>2. /\ Flow!Shard(r) \in Seq(Sample) /\ Len(Flow!Shard(r)) = ShardSize
      /\ ShardSize \in Nat \ {0} /\ Flow!MiniSize \in Nat \ {0}
      /\ Flow!Dp \in Nat \ {0}
  BY <1>1, ShardIs, ShardsDivide
<1>3. CASE bPc = "call"
  BY <1>1, <1>2, <1>3 DEF Flow!Work
<1>4. CASE bPc = "update"
  <2> DEFINE ms == Flow!MiniSize
             lo == (bMini - 1) * ms
             y == bMini * ms
             hi == IF y < ShardSize THEN y ELSE ShardSize
             S == Flow!Shard(r)
             W == Flow!Work(r)
  <2>1. bMini \in 1 .. Flow!CeilDiv(ShardSize, ms)
    <3>1. 1 \in Flow!Ranks
      BY <1>2 DEF Flow!Ranks
    <3>2. Len(Flow!Shard(1)) = ShardSize
      BY <1>1, <3>1, ShardIs
    <3>3. Flow!Minis = Flow!CeilDiv(ShardSize, ms)
      BY <3>2 DEF Flow!Minis, Flow!Splits
    <3>4. QED
      BY <1>4, <3>3 DEF FlowInv, Trained
  <2>2. lo \in Nat /\ y = lo + ms /\ lo < ShardSize
    BY <1>2, <2>1, MiniBounds
  <2>3. W = SubSeq(S, lo + 1, hi)
    BY <1>2, <1>4 DEF Flow!Work, Flow!Split
  <2> HIDE DEF lo, y, ms, S, W
  <2>4. lo \in Nat /\ hi \in Nat /\ lo < hi /\ hi <= ShardSize
    BY <1>2, <2>2 DEF ms
  <2> HIDE DEF hi
  <2> DEFINE a == lo + 1
             T == SubSeq(S, a, hi)
  <2>5. /\ a \in Int /\ hi \in Int /\ hi - a + 1 = hi - lo /\ a <= hi
        /\ \A k \in a .. hi : S[k] \in Sample
        /\ \A k \in 1 .. hi - lo : a + k - 1 = lo + k
    BY <1>2, <2>4 DEF S
  <2>6. W = T
    BY <2>3
  <2> HIDE DEF a, T
  <2>7. T \in Seq(Sample) /\ Len(T) = hi - lo /\ \A k \in 1 .. hi - lo : T[k] = S[lo + k]
    <3>1. /\ SubSeq(S, a, hi) \in Seq(Sample)
          /\ Len(SubSeq(S, a, hi)) = IF a <= hi THEN hi - a + 1 ELSE 0
          /\ \A k \in 1 .. hi - a + 1 : SubSeq(S, a, hi)[k] = S[a + k - 1]
      BY <2>5, SubSeqProperties
    <3>2. QED
      BY <2>5, <3>1 DEF T
  <2>8. QED
    BY <1>1, <1>4, <2>4, <2>6, <2>7 DEF lo, hi, y, ms, S, W
<1>5. QED
  BY <1>3, <1>4

\* ... if a rank makes its micro-batches, ...
LEMMA FlowPrepares ==
  ASSUME FlowInv, NEW r \in Flow!Ranks, Flow!Prepare(r)
  PROVE  FlowInv'
<1> DEFINE W == Flow!Work(r)
<1>1. /\ bPc \in {"call", "update"}
      /\ UNCHANGED <<bPc, bKind, bSp, bDynamic, bColumns, bAnswers, bPool, bFuture, bCall,
                     bEntered, bEpoch, bMini, bTrained>>
  BY DEF Flow!Prepare, Flow!config, Flow!steps
<1>2. PICK n : \E f \in Flow!Partitions(W, n) :
                 bRowOrder' = [bRowOrder EXCEPT ![r] = Flow!Flattened(f)]
  BY DEF Flow!Prepare
<1>3. PICK f \in Flow!Partitions(W, n) :
        bRowOrder' = [bRowOrder EXCEPT ![r] = Flow!Flattened(f)]
  BY <1>2
<1>4. W \in Seq(Sample) /\ Len(W) \in Nat
  <2>1. W \in Seq(Sample)
    BY <1>1, WorkIs
  <2> HIDE DEF W
  <2>2. QED
    BY <2>1
<1> HIDE DEF W
<1>5. f \in [1 .. Len(W) -> Int]
  <2>1. CASE bDynamic
    <3>1. f \in [1 .. Len(W) -> 1 .. n]
      BY <2>1 DEF Flow!Partitions
    <3>2. \A x \in 1 .. n : x \in Int
      OBVIOUS
    <3>3. QED
      BY <3>1, <3>2
  <2>2. CASE ~ bDynamic
    <3>1. f = [i \in 1 .. Len(W) |-> (i - 1) \div MicroSize + 1]
      BY <2>2 DEF Flow!Partitions
    <3>2. \A i \in 1 .. Len(W) : (i - 1) \div MicroSize + 1 \in Int
      <4>1. MicroSize \in Nat \ {0}
        BY FlowConstants
      <4>2. ASSUME NEW i \in 1 .. Len(W) PROVE (i - 1) \div MicroSize \in Nat
        <5>1. i - 1 \in Nat
          BY <1>4
        <5>2. QED
          BY <4>1, <5>1, Parting!Remainder
      <4>3. QED
        BY <4>2
    <3>3. QED
      BY <3>1, <3>2
  <2>3. QED
    BY <2>1, <2>2
<1>6. Parting!NamesOnce(Flow!Flattened(f), Len(W))
  BY <1>4, <1>5, Parting!FlattenedNamesOnce, SameOperations
<1>7. Microed'
  <2>1. Flow!Ranks' = Flow!Ranks /\ \A q : Flow!Work(q)' = Flow!Work(q)
    BY <1>1 DEF Flow!Ranks, Flow!Dp, Flow!Work, Flow!Shard, Flow!MiniSize
  <2>2. ASSUME NEW q \in Flow!Ranks, bRowOrder'[q] # <<>>
        PROVE  Parting!NamesOnce(bRowOrder'[q], Len(Flow!Work(q)))
    <3>1. CASE bRowOrder'[q] = bRowOrder[q]
      BY <2>2, <3>1 DEF FlowInv, Microed
    <3>2. CASE bRowOrder'[q] # bRowOrder[q]
      <4>1. q = r /\ bRowOrder'[q] = Flow!Flattened(f)
        BY <1>3, <3>2
      <4>2. QED
        BY <1>6, <4>1 DEF W
    <3>3. QED
      BY <3>1, <3>2
  <2>3. QED
    BY <1>1, <2>1, <2>2 DEF Microed
<1>8. FlowTyped'
  BY <1>1 DEF FlowInv, FlowTyped
<1>9. QED
  BY <1>1, <1>7, <1>8, AskingKept, BatchedKept, RewardedKept, PartedKept, TrainedKept,
     ValidatedKept DEF FlowInv

\* ... if it goes through one, or nothing of it changes, ...
LEMMA FlowForward ==
  ASSUME FlowInv,
         UNCHANGED <<bPc, bKind, bSp, bDynamic, bColumns, bAnswers, bPool, bFuture, bCall,
                     bRowOrder, bEpoch, bMini, bTrained>>
  PROVE  FlowInv'
<1>1. FlowTyped'
  BY DEF FlowInv, FlowTyped
<1>2. QED
  BY <1>1, AskingKept, BatchedKept, RewardedKept, PartedKept, MicroedKept, TrainedKept,
     ValidatedKept DEF FlowInv

\* Through a call, and a step of the optimizer, all ranks have micro-batches of
\* all their rows.
LEMMA AllThrough ==
  ASSUME FlowInv, Flow!Through, NEW r \in Flow!Ranks
  PROVE  bPc \in {"call", "update"} /\ Parting!NamesOnce(bRowOrder[r], Len(Flow!Work(r)))
BY DEF FlowInv, Microed, Flow!Through

\* The output of a rank is in the order of its shard.
LEMMA OutputIs ==
  ASSUME FlowInv, bPc = "call", Flow!Through, NEW r \in Flow!Ranks
  PROVE  Flow!Output(r) = Flow!Shard(r)
<1> DEFINE W == Flow!Work(r)
<1>1. W = Flow!Shard(r) /\ W \in Seq(Sample)
  BY WorkIs
<1>2. Parting!NamesOnce(bRowOrder[r], Len(W))
  BY AllThrough
<1> HIDE DEF W
<1>3. Len(W) \in Nat
  BY <1>1
<1>4. Parting!Restored(Parting!Reordered(W, bRowOrder[r]), bRowOrder[r]) = W
  BY <1>1, <1>2, <1>3, Parting!RestoreUndoes
<1>5. Flow!Restored(Flow!Reordered(W, bRowOrder[r]), bRowOrder[r]) = W
  BY <1>4, SameOperations
<1>6. QED
  BY <1>1, <1>5 DEF Flow!Output, W

\* The workers of a data-parallel rank are neighbours, the first of them has its
\* output collected.
LEMMA RankSteps ==
  ASSUME bSp \in SpSizes
  PROVE  /\ \A w \in 1 .. World : Flow!DpRank(w) \in 1 .. Flow!Dp
         /\ Flow!DpRank(1) = 1 /\ Flow!IsCollect(1) /\ Flow!DpRank(World) = Flow!Dp
         /\ \A w \in 2 .. World :
              Flow!DpRank(w - 1) = IF Flow!IsCollect(w) THEN Flow!DpRank(w) - 1 ELSE Flow!DpRank(w)
<1> DEFINE d == Flow!Dp
<1>1. bSp \in Nat \ {0} /\ d \in Nat \ {0} /\ World = d * bSp /\ World \in Nat \ {0}
  BY ShardsDivide, FlowConstants
<1> HIDE DEF d
<1>2. ASSUME NEW w \in 1 .. World PROVE Flow!DpRank(w) \in 1 .. d
  <2>1. w - 1 \in Nat /\ w - 1 < d * bSp
    BY <1>1
  <2> DEFINE x == w - 1
  <2> HIDE DEF x
  <2>2. x \div bSp < d /\ x \div bSp \in Nat
    BY <1>1, <2>1, BlockBelow, Parting!Remainder DEF x
  <2>3. x \div bSp + 1 \in 1 .. d
    BY <1>1, <2>2
  <2>4. QED
    BY <2>3 DEF Flow!DpRank, x
<1>3. Flow!DpRank(1) = 1 /\ Flow!IsCollect(1)
  <2>1. 0 \div bSp = 0 /\ 0 % bSp = 0
    BY <1>1, SMTT(30)
  <2>2. QED
    BY <2>1 DEF Flow!DpRank, Flow!IsCollect
<1>4. Flow!DpRank(World) = d
  <2> DEFINE x == World - 1
             a == (d - 1) * bSp
  <2>1. World = a + bSp /\ a \in Nat /\ d - 1 \in Nat
    BY <1>1, SMTT(30)
  <2> HIDE DEF a
  <2>2. x \in Nat /\ a <= x /\ x < a + bSp
    BY <1>1, <2>1
  <2> HIDE DEF x
  <2>3. x \div bSp = d - 1
    BY <1>1, <2>1, <2>2, BlockOf DEF a
  <2>4. QED
    BY <1>1, <2>3 DEF Flow!DpRank, x
<1>5. ASSUME NEW w \in 2 .. World
      PROVE  Flow!DpRank(w - 1) = IF Flow!IsCollect(w) THEN Flow!DpRank(w) - 1
                                  ELSE Flow!DpRank(w)
  <2> DEFINE x == w - 1
             q == x \div bSp
             t == x % bSp
             y == w - 2
             a == q * bSp
  <2>1. x \in Nat /\ x >= 1 /\ y \in Nat /\ y = x - 1 /\ (w - 1) - 1 = y
    BY <1>1
  <2> HIDE DEF x, y
  <2>2. q \in Nat /\ t \in 0 .. bSp - 1 /\ x = bSp * q + t
    BY <1>1, <2>1, Parting!Remainder
  <2>3. a \in Nat /\ x = a + t
    BY <1>1, <2>2, SMTT(30)
  <2> HIDE DEF t
  <2>4. CASE t # 0
    <3> HIDE DEF a, q
    <3>1. a <= y /\ y < a + bSp
      BY <1>1, <2>1, <2>2, <2>3, <2>4
    <3>2. y \div bSp = q
      BY <1>1, <2>1, <2>2, <3>1, BlockOf DEF a
    <3>3. ~ Flow!IsCollect(w)
      BY <2>4 DEF Flow!IsCollect, t, x
    <3>4. Flow!DpRank(w - 1) = y \div bSp + 1 /\ Flow!DpRank(w) = q + 1
      BY <2>1 DEF Flow!DpRank, q, x
    <3>5. QED
      BY <3>2, <3>3, <3>4
  <2>5. CASE t = 0
    <3> DEFINE b == (q - 1) * bSp
    <3>1. q # 0
      <4>1. 0 * bSp = 0
        BY <1>1
      <4> HIDE DEF q
      <4>2. QED
        BY <2>1, <2>3, <2>5, <4>1
    <3> HIDE DEF q
    <3>2. b \in Nat /\ a = b + bSp /\ q - 1 \in Nat
      BY <1>1, <2>2, <3>1, SMTT(30)
    <3> HIDE DEF a, b
    <3>3. b <= y /\ y < b + bSp
      BY <1>1, <2>1, <2>3, <2>5, <3>2
    <3>4. y \div bSp = q - 1
      BY <1>1, <2>1, <3>2, <3>3, BlockOf DEF b
    <3>5. Flow!IsCollect(w)
      BY <2>5 DEF Flow!IsCollect, t, x
    <3>6. Flow!DpRank(w - 1) = y \div bSp + 1 /\ Flow!DpRank(w) = q + 1
      BY <2>1 DEF Flow!DpRank, q, x
    <3>7. QED
      BY <2>2, <3>4, <3>5, <3>6
  <2>6. QED
    BY <2>4, <2>5
<1>6. QED
  BY <1>2, <1>3, <1>4, <1>5 DEF d

\* What is collected is the batch, in its order.
LEMMA CollectedIs ==
  ASSUME FlowInv, bPc = "call", Flow!Through
  PROVE  Flow!Collected = Flow!Samples
<1> DEFINE S == Flow!Samples
           d == Flow!Dp
           k == ShardSize
           parts == [w \in 1 .. World |->
                       IF Flow!IsCollect(w) THEN Flow!Output(Flow!DpRank(w)) ELSE <<>>]
           e == [w \in 0 .. World |-> IF w = 0 THEN 0 ELSE Flow!DpRank(w) * k]
<1>1. /\ bSp \in SpSizes /\ TrueBatch(S) /\ S \in Seq(Sample) /\ Len(S) = Batch
  <2>1. bPc \in {"call", "update"}
    OBVIOUS
  <2>2. bKind = "train" /\ bSp \in SpSizes
    BY DEF FlowInv, FlowTyped
  <2>3. TrueBatch(S)
    BY <2>2 DEF FlowInv, Batched
  <2>4. QED
    BY <2>2, <2>3, Zenon DEF TrueBatch
<1>2. d \in Nat \ {0} /\ k \in Nat \ {0} /\ Batch = d * k /\ World \in Nat \ {0} /\ Batch \in Nat
  BY <1>1, ShardsDivide, FlowConstants
<1>3. \A w \in 1 .. World : Flow!DpRank(w) \in 1 .. d
  BY <1>1, RankSteps
<1>4. ASSUME NEW r \in 1 .. d
      PROVE  /\ Flow!Output(r) = SubSeq(S, (r - 1) * k + 1, r * k)
             /\ (r - 1) * k \in Nat /\ r * k = (r - 1) * k + k /\ r * k \in 0 .. Batch
  <2>1. r \in Flow!Ranks
    BY DEF Flow!Ranks
  <2>2. Flow!Output(r) = Flow!Shard(r)
    BY <2>1, OutputIs
  <2>3. Flow!Shard(r) = Parting!Chunk(S, d, r) /\ Parting!Cut(Sample, S, d, k)
    BY <1>1, <2>1, ShardIs
  <2> HIDE DEF S, d, k
  <2>4. Parting!ChunkSize(S, d) = k
    BY <1>4, <2>3, Parting!ChunkIs
  <2>5. Parting!Chunk(S, d, r) = SubSeq(S, (r - 1) * k + 1, r * k)
    BY <2>4, Zenon DEF Parting!Chunk
  <2> DEFINE a == (r - 1) * k
             b == r * k
             c == d * k
  <2>6. a \in Nat /\ b = a + k
    BY <1>2, <1>4, SMTT(30)
  <2>7. a + k <= c
    <3>1. r - 1 \in Nat /\ r - 1 < d
      BY <1>2
    <3>2. QED
      BY <1>2, <3>1, BlocksApart
  <2>8. Batch = c
    BY <1>2
  <2> HIDE DEF a, b, c
  <2>9. b \in 0 .. Batch
    BY <1>2, <2>6, <2>7, <2>8
  <2>10. QED
    BY <2>2, <2>3, <2>5, <2>6, <2>9 DEF a, b
<1> HIDE DEF S, d, k
<1>5. /\ e \in [0 .. World -> 0 .. Len(S)] /\ e[0] = 0
      /\ \A w \in 1 .. World : e[w] = Flow!DpRank(w) * k
  <2>1. \A w \in 1 .. World : Flow!DpRank(w) * k \in 0 .. Batch
    BY <1>3, <1>4
  <2>2. \A w \in 0 .. World : (IF w = 0 THEN 0 ELSE Flow!DpRank(w) * k) \in 0 .. Batch
    <3>1. ASSUME NEW w \in 0 .. World
          PROVE  (IF w = 0 THEN 0 ELSE Flow!DpRank(w) * k) \in 0 .. Batch
      <4>1. CASE w = 0
        BY <1>2, <4>1
      <4>2. CASE w # 0
        <5>1. w \in 1 .. World
          BY <4>2
        <5>2. QED
          BY <2>1, <4>2, <5>1
      <4>3. QED
        BY <4>1, <4>2
    <3>2. QED
      BY <3>1
  <2>3. e \in [0 .. World -> 0 .. Batch]
    BY <2>2
  <2>4. \A w \in 1 .. World : w \in 0 .. World /\ w # 0
    OBVIOUS
  <2>5. 0 \in 0 .. World
    BY <1>2
  <2>6. QED
    BY <1>1, <2>3, <2>4, <2>5
<1>6. ASSUME NEW w \in 1 .. World
      PROVE  e[w - 1] = IF Flow!IsCollect(w) THEN (Flow!DpRank(w) - 1) * k
                        ELSE Flow!DpRank(w) * k
  <2>1. CASE w = 1
    <3>1. Flow!DpRank(w) = 1 /\ Flow!IsCollect(w)
      BY <1>1, <2>1, RankSteps
    <3>2. (1 - 1) * k = 0 /\ w - 1 = 0
      BY <1>2, <2>1
    <3> HIDE DEF e
    <3>3. QED
      BY <1>5, <3>1, <3>2
  <2>2. CASE w # 1
    <3>1. w \in 2 .. World /\ w - 1 \in 1 .. World
      BY <1>2, <2>2
    <3>2. Flow!DpRank(w - 1) = IF Flow!IsCollect(w) THEN Flow!DpRank(w) - 1
                               ELSE Flow!DpRank(w)
      BY <1>1, <3>1, RankSteps
    <3>3. e[w - 1] = Flow!DpRank(w - 1) * k
      BY <1>5, <3>1
    <3> HIDE DEF e
    <3>4. QED
      BY <3>2, <3>3
  <2>3. QED
    BY <2>1, <2>2
<1>7. ASSUME NEW w \in 1 .. World
      PROVE  e[w - 1] <= e[w] /\ parts[w] = SubSeq(S, e[w - 1] + 1, e[w])
  <2> DEFINE r == Flow!DpRank(w)
             a == (r - 1) * k
             b == r * k
  <2>1. r \in 1 .. d
    BY <1>3
  <2>2. a \in Nat /\ b = a + k /\ Flow!Output(r) = SubSeq(S, a + 1, b)
    BY <1>4, <2>1
  <2>3. e[w] = b /\ e[w - 1] = (IF Flow!IsCollect(w) THEN a ELSE b)
    BY <1>5, <1>6
  <2>4. parts[w] = IF Flow!IsCollect(w) THEN Flow!Output(r) ELSE <<>>
    OBVIOUS
  <2> HIDE DEF r, a, b, e, parts
  <2>5. SubSeq(S, b + 1, b) = <<>>
    <3>1. b \in Int /\ b + 1 \in Int /\ ~ (b + 1 <= b)
          /\ \A i \in b + 1 .. b : S[i] \in Sample
      BY <1>2, <2>2
    <3>2. /\ SubSeq(S, b + 1, b) \in Seq(Sample)
          /\ Len(SubSeq(S, b + 1, b)) = IF b + 1 <= b THEN b - (b + 1) + 1 ELSE 0
      BY <3>1, SubSeqProperties
    <3>3. QED
      BY <3>1, <3>2
  <2>6. QED
    BY <1>2, <2>2, <2>3, <2>4, <2>5
<1>8. Parting!Concat(parts, World) = SubSeq(S, 1, e[World])
  <2> HIDE DEF e, parts
  <2>1. World \in Nat
    BY <1>2
  <2>2. QED
    BY <1>1, <1>5, <1>7, <2>1, Parting!ConcatCuts
<1>9. e[World] = Batch
  <2>1. Flow!DpRank(World) = d /\ World \in 1 .. World
    BY <1>1, <1>2, RankSteps DEF d
  <2> HIDE DEF e
  <2>2. QED
    BY <1>2, <1>5, <2>1
<1>10. SubSeq(S, 1, Batch) = S
  BY <1>1, SubSeqFull
<1>11. Flow!Collected = Parting!Concat(parts, World)
  BY SameOperations DEF Flow!Collected
<1>12. QED
  BY <1>8, <1>9, <1>10, <1>11 DEF S

\* There is a first mini-batch.
LEMMA SomeMinis ==
  ASSUME NEW size \in Nat \ {0}, NEW ms \in Nat \ {0}
  PROVE  1 \in 1 .. Flow!CeilDiv(size, ms)
<1> DEFINE q == (size + ms - 1) \div ms
<1>1. size + ms - 1 \in Nat /\ ~ (size + ms - 1 < 1 * ms)
  BY SMTT(30)
<1>2. q \in Nat /\ ~ (q < 1)
  BY <1>1, BlockBelow, Parting!Remainder
<1>3. QED
  BY <1>2 DEF Flow!CeilDiv

\* ... if a call returns, ...
LEMMA FlowCalls ==
  ASSUME FlowInv, Flow!CallReturns
  PROVE  FlowInv'
<1> DEFINE S == Flow!Samples
           name == Calls[bCall]
<1>1. /\ bPc = "call" /\ Flow!Through /\ bColumns' = Flow!With(name, Flow!Collected)
      /\ \/ bCall = Len(Calls) /\ bPc' = "advantage" /\ bCall' = bCall
         \/ bCall # Len(Calls) /\ bPc' = "call" /\ bCall' = bCall + 1
      /\ bRowOrder' = [r \in Flow!Ranks |-> <<>>]
      /\ UNCHANGED <<bKind, bSp, bDynamic, bAnswers, bPool, bFuture, bEpoch, bMini, bTrained>>
  BY DEF Flow!CallReturns, Flow!config, Flow!steps
<1>2. bKind = "train" /\ bCall \in 1 .. Len(Calls)
  BY <1>1 DEF FlowInv, FlowTyped
<1>3. /\ {"uid", "responses"} \subseteq DOMAIN bColumns /\ TrueBatch(S)
      /\ bColumns["uid"] = [i \in 1 .. Batch |-> S[i].prompt]
      /\ \A c \in Computed : bColumns[c] = S
      /\ "advantages" \notin DOMAIN bColumns
  BY <1>1, <1>2 DEF FlowInv, Batched
<1>4. name \notin {"uid", "responses", "advantages"}
  <2>1. Calls \in Seq(STRING \ {"uid", "responses", "advantages"})
    BY FlowConstants
  <2>2. QED
    BY <1>2, <2>1
<1>5. Flow!Collected = S
  BY <1>1, CollectedIs
<1> HIDE DEF name
<1>6. bColumns' = [c \in DOMAIN bColumns \cup {name} |-> IF c = name THEN S ELSE bColumns[c]]
  BY <1>1, <1>5 DEF Flow!With
<1>7. DOMAIN bColumns' = DOMAIN bColumns \cup {name}
  BY <1>6
<1>8. \A c \in DOMAIN bColumns' : bColumns'[c] = IF c = name THEN S ELSE bColumns[c]
  BY <1>6
<1> HIDE DEF S
<1>9. bColumns'["responses"] = bColumns["responses"] /\ bColumns'["uid"] = bColumns["uid"]
  BY <1>3, <1>4, <1>7, <1>8
<1>10. Flow!Samples' = S
  BY <1>9 DEF Flow!Samples, S
<1>11. Batched'
  <2>1. \A c \in Computed' : bColumns'[c] = S
    BY <1>3, <1>7, <1>8 DEF Computed
  <2>2. {"uid", "responses"} \subseteq DOMAIN bColumns' /\ "advantages" \notin DOMAIN bColumns'
    BY <1>3, <1>4, <1>7
  <2>3. QED
    BY <1>3, <1>9, <1>10, <2>1, <2>2 DEF Batched
<1>12. FlowTyped'
  <2>1. bCall' \in 1 .. Len(Calls)
    BY <1>1, <1>2, FlowConstants
  <2>2. QED
    BY <1>1, <1>2, <2>1 DEF FlowInv, FlowTyped
<1>13. Rewarded'
  BY <1>1, <1>2, <1>10 DEF FlowInv, Rewarded, S
<1>14. Asking' /\ Parted' /\ Trained' /\ Validated'
  BY <1>1, <1>2 DEF FlowInv, Asking, Parted, Trained, Validated
<1>15. Microed'
  BY <1>1 DEF Microed, Flow!Ranks, Flow!Dp
<1>16. QED
  BY <1>11, <1>12, <1>13, <1>14, <1>15 DEF FlowInv

\* ... if the advantages are computed, ...
LEMMA FlowAdvantages ==
  ASSUME FlowInv, Flow!Advantage
  PROVE  FlowInv'
<1> DEFINE S == Flow!Samples
           uid == bColumns["uid"]
           adv(rows) == [i \in 1 .. Batch |->
             [of |-> rows[i], group |-> {rows[j] : j \in {k \in 1 .. Batch : uid[k] = uid[i]}}]]
<1>1. /\ bPc = "advantage" /\ bPc' = "update"
      /\ bColumns' = Flow!With("advantages", adv(bFuture.rows))
      /\ UNCHANGED <<bKind, bSp, bDynamic, bAnswers, bPool, bFuture, bCall, bRowOrder, bLeft,
                     bEntered, bEpoch, bMini, bTrained>>
  BY DEF Flow!Advantage, Flow!config, Flow!ranksRun, Flow!steps, Batch
<1>2. bKind = "train" /\ bSp \in SpSizes
  BY <1>1 DEF FlowInv, FlowTyped
<1>3. /\ {"uid", "responses"} \subseteq DOMAIN bColumns /\ TrueBatch(S)
      /\ uid = [i \in 1 .. Batch |-> S[i].prompt]
      /\ \A c \in Computed : bColumns[c] = S
  BY <1>1, <1>2 DEF FlowInv, Batched
<1>4. bFuture.rows = S
  BY <1>1, <1>2 DEF FlowInv, Rewarded
<1>5. adv(S) = AdvantagesOf(S)
  <2> HIDE DEF S, uid
  <2>1. ASSUME NEW i \in 1 .. Batch
        PROVE  {S[j] : j \in {k \in 1 .. Batch : uid[k] = uid[i]}} = GroupOf(S, i)
    <3>1. {k \in 1 .. Batch : uid[k] = uid[i]} = {k \in 1 .. Batch : S[k].prompt = S[i].prompt}
      BY <1>3
    <3>2. QED
      BY <3>1, Zenon DEF GroupOf
  <2>2. QED
    BY <2>1 DEF AdvantagesOf
<1> HIDE DEF S, adv, uid
<1>6. bColumns' = Flow!With("advantages", AdvantagesOf(S))
  BY <1>1, <1>4, <1>5
<1>7. bColumns' = [c \in DOMAIN bColumns \cup {"advantages"} |->
                     IF c = "advantages" THEN AdvantagesOf(S) ELSE bColumns[c]]
  BY <1>6 DEF Flow!With
<1>8. DOMAIN bColumns' = DOMAIN bColumns \cup {"advantages"}
  BY <1>7
<1>9. \A c \in DOMAIN bColumns' :
        bColumns'[c] = IF c = "advantages" THEN AdvantagesOf(S) ELSE bColumns[c]
  BY <1>7
<1>10. bColumns'["responses"] = bColumns["responses"] /\ bColumns'["uid"] = uid
  BY <1>3, <1>8, <1>9 DEF uid
<1>11. Flow!Samples' = S
  BY <1>10 DEF Flow!Samples, S
<1>12. Batched'
  <2>1. \A c \in Computed' : bColumns'[c] = S
    BY <1>3, <1>8, <1>9 DEF Computed
  <2>2. bColumns'["advantages"] = AdvantagesOf(S)
    BY <1>8, <1>9
  <2>3. {"uid", "responses"} \subseteq DOMAIN bColumns'
    BY <1>3, <1>8
  <2>4. QED
    BY <1>1, <1>3, <1>10, <1>11, <2>1, <2>2, <2>3 DEF Batched
<1>13. /\ bEpoch = 1 /\ bMini = 1 /\ bTrained = [i \in 1 .. Batch |-> 0]
  BY <1>1 DEF FlowInv, Trained
<1>14. Trained'
  <2>1. /\ Flow!Dp \in Nat \ {0} /\ ShardSize \in Nat \ {0} /\ Flow!MiniSize \in Nat \ {0}
        /\ Epochs \in Nat \ {0} /\ Batch \in Nat
    BY <1>2, ShardsDivide, FlowConstants
  <2>2. 1 \in Flow!Ranks
    BY <2>1 DEF Flow!Ranks
  <2>3. Len(Flow!Shard(1)) = ShardSize
    BY <1>2, <1>3, <2>2, ShardIs DEF S
  <2>4. Flow!Minis = Flow!CeilDiv(ShardSize, Flow!MiniSize)
    BY <2>3 DEF Flow!Minis, Flow!Splits
  <2>5. 1 \in 1 .. Flow!CeilDiv(ShardSize, Flow!MiniSize)
    BY <2>1, SomeMinis
  <2>6. UNCHANGED <<Flow!Ranks, ShardSize, Flow!Minis, Flow!MiniSize, Flow!Samples>>
    BY <1>1, <1>10, <1>11 DEF Flow!Ranks, Flow!Dp, ShardSize, Flow!Minis, Flow!MiniSize,
         Flow!Shard, Flow!Splits, S
  <2>7. ASSUME NEW r \in Flow!Ranks, NEW j \in 1 .. ShardSize
        PROVE  bTrained[S[Parting!RowAt(r, ShardSize, j)].id] =
                 IF j <= (bMini - 1) * Flow!MiniSize THEN bEpoch ELSE bEpoch - 1
    <3>1. Parting!RowAt(r, ShardSize, j) \in 1 .. Batch
      BY <1>2, <1>3, ShardRow DEF S
    <3>2. S[Parting!RowAt(r, ShardSize, j)].id \in 1 .. Batch
      BY <1>3, <3>1 DEF TrueBatch
    <3>3. bTrained[S[Parting!RowAt(r, ShardSize, j)].id] = 0
      BY <1>13, <3>2
    <3>4. (bMini - 1) * Flow!MiniSize = 0 /\ bEpoch - 1 = 0 /\ ~ (j <= 0)
      BY <1>13, <2>1
    <3>5. QED
      BY <3>3, <3>4
  <2>8. bTrained' \in [1 .. Batch -> Nat]
    BY <1>1, <1>13
  <2>9. bEpoch' \in 1 .. Epochs /\ bMini' \in 1 .. Flow!Minis'
    BY <1>1, <1>13, <2>1, <2>4, <2>5, <2>6
  <2>10. \A r \in Flow!Ranks', j \in 1 .. ShardSize' :
           bTrained'[Flow!Samples'[Parting!RowAt(r, ShardSize', j)].id] =
             IF j <= (bMini' - 1) * Flow!MiniSize' THEN bEpoch' ELSE bEpoch' - 1
    BY <1>1, <1>11, <2>6, <2>7
  <2>11. QED
    BY <1>1, <2>8, <2>9, <2>10 DEF Trained, Parting!RowAt
<1>15. Microed'
  <2>1. \A r \in Flow!Ranks : bRowOrder[r] = <<>>
    BY <1>1 DEF FlowInv, Microed
  <2>2. QED
    BY <1>1, <2>1 DEF Microed, Flow!Ranks, Flow!Dp
<1>16. Rewarded'
  BY <1>1, <1>2, <1>11 DEF FlowInv, Rewarded, S
<1>17. FlowTyped' /\ Asking' /\ Parted' /\ Validated'
  BY <1>1, <1>2 DEF FlowInv, FlowTyped, Asking, Parted, Validated
<1>18. QED
  BY <1>12, <1>14, <1>15, <1>16, <1>17 DEF FlowInv

\* The rows a rank takes a step on: its part of the mini-batch, whatever the
\* micro-batches.
LEMMA StepRows ==
  ASSUME FlowInv, bPc = "update", Flow!Through, NEW r \in Flow!Ranks,
         NEW lo, NEW hi, lo = (bMini - 1) * Flow!MiniSize,
         hi = IF bMini * Flow!MiniSize < ShardSize THEN bMini * Flow!MiniSize ELSE ShardSize
  PROVE  \A i : i \in Flow!RowsOf(Flow!Reordered(Flow!Work(r), bRowOrder[r])) <=>
                  \E j \in lo + 1 .. hi :
                    i = Flow!Samples[Parting!RowAt(r, ShardSize, j)].id
<1> DEFINE W == Flow!Work(r)
           idx == bRowOrder[r]
           S == Flow!Samples
           T == Flow!Reordered(W, idx)
<1>1. /\ TrueBatch(S) /\ bSp \in SpSizes /\ ShardSize \in Nat
      /\ lo \in Nat /\ hi \in Nat /\ lo < hi /\ hi <= ShardSize
      /\ Len(W) = hi - lo /\ \A k \in 1 .. hi - lo : W[k] = Flow!Shard(r)[lo + k]
  BY WorkIs, ShardsDivide
<1>2. Parting!NamesOnce(idx, Len(W))
  BY AllThrough
<1> HIDE DEF W, idx
<1>3. \A j \in 1 .. ShardSize : Flow!Shard(r)[j] = S[Parting!RowAt(r, ShardSize, j)]
  BY <1>1, ShardRow
<1>4. \A k \in 1 .. hi - lo : W[k] = S[Parting!RowAt(r, ShardSize, lo + k)]
  <2>1. ASSUME NEW k \in 1 .. hi - lo PROVE W[k] = S[Parting!RowAt(r, ShardSize, lo + k)]
    <3>1. lo + k \in 1 .. ShardSize
      BY <1>1
    <3>2. QED
      BY <1>1, <1>3, <3>1
  <2>2. QED
    BY <2>1
<1>5. /\ Len(idx) = hi - lo /\ \A k \in 1 .. hi - lo : idx[k] \in 1 .. hi - lo
      /\ \A i \in 1 .. hi - lo : \E k \in 1 .. hi - lo : idx[k] = i
  <2>1. /\ idx \in [1 .. hi - lo -> 1 .. hi - lo]
        /\ \A i \in 1 .. hi - lo : \E k \in 1 .. hi - lo : idx[k] = i
    BY <1>1, <1>2 DEF Parting!NamesOnce
  <2>2. hi - lo \in Nat
    BY <1>1
  <2> DEFINE n == hi - lo
  <2>3. n \in Nat /\ idx \in [1 .. n -> 1 .. n]
    BY <2>1, <2>2
  <2> HIDE DEF n
  <2>4. Len(idx) = n
    BY <2>3
  <2>5. \A k \in 1 .. n : idx[k] \in 1 .. n
    BY <2>3
  <2>6. QED
    BY <2>1, <2>4, <2>5, Zenon DEF n
<1>6. T = [k \in 1 .. hi - lo |-> W[idx[k]]]
  BY <1>5, Zenon DEF Flow!Reordered
<1>7. DOMAIN T = 1 .. hi - lo /\ \A k \in 1 .. hi - lo : T[k] = W[idx[k]]
  BY <1>6
<1> HIDE DEF T, S
<1>8. ASSUME NEW i, i \in Flow!RowsOf(T)
      PROVE  \E j \in lo + 1 .. hi : i = S[Parting!RowAt(r, ShardSize, j)].id
  <2>1. PICK k \in 1 .. hi - lo : i = T[k].id
    BY <1>7, <1>8, Zenon DEF Flow!RowsOf
  <2>2. idx[k] \in 1 .. hi - lo
    BY <1>5
  <2>3. T[k] = S[Parting!RowAt(r, ShardSize, lo + idx[k])]
    BY <1>4, <1>7, <2>2
  <2>4. lo + idx[k] \in lo + 1 .. hi
    BY <1>1, <2>2
  <2>5. QED
    BY <2>1, <2>3, <2>4
<1>9. ASSUME NEW i, NEW j \in lo + 1 .. hi, i = S[Parting!RowAt(r, ShardSize, j)].id
      PROVE  i \in Flow!RowsOf(T)
  <2>1. j - lo \in 1 .. hi - lo /\ lo + (j - lo) = j
    BY <1>1
  <2>2. PICK k \in 1 .. hi - lo : idx[k] = j - lo
    BY <1>5, <2>1
  <2>3. T[k] = S[Parting!RowAt(r, ShardSize, j)]
    BY <1>4, <1>7, <2>1, <2>2
  <2>4. QED
    BY <1>7, <1>9, <2>3, Zenon DEF Flow!RowsOf
<1>10. QED
  BY <1>8, <1>9 DEF T, W, idx, S

\* A sample takes part where it is, if the mini-batch has it.
LEMMA TakesPart ==
  ASSUME FlowInv, bPc = "update", Flow!Through, NEW r \in Flow!Ranks, NEW j \in 1 .. ShardSize,
         NEW lo, NEW hi, lo = (bMini - 1) * Flow!MiniSize,
         hi = IF bMini * Flow!MiniSize < ShardSize THEN bMini * Flow!MiniSize ELSE ShardSize,
         NEW i, i = Flow!Samples[Parting!RowAt(r, ShardSize, j)].id
  PROVE  Cardinality({q \in Flow!Ranks :
                        i \in Flow!RowsOf(Flow!Reordered(Flow!Work(q), bRowOrder[q]))})
           = IF lo < j /\ j <= hi THEN 1 ELSE 0
<1> DEFINE in(q) == i \in Flow!RowsOf(Flow!Reordered(Flow!Work(q), bRowOrder[q]))
           S == Flow!Samples
<1>1. /\ TrueBatch(S) /\ bSp \in SpSizes /\ lo \in Nat /\ hi \in Nat /\ hi <= ShardSize
      /\ ShardSize \in Nat \ {0} /\ Flow!Dp \in Nat \ {0}
  BY WorkIs, ShardsDivide
<1>2. ASSUME NEW q \in Flow!Ranks
      PROVE  in(q) <=> q = r /\ j \in lo + 1 .. hi
  <2>1. in(q) <=> \E l \in lo + 1 .. hi : i = S[Parting!RowAt(q, ShardSize, l)].id
    BY StepRows
  <2> HIDE DEF in
  <2>2. ASSUME NEW l \in lo + 1 .. hi, i = S[Parting!RowAt(q, ShardSize, l)].id
        PROVE  q = r /\ j = l
    <3>1. l \in 1 .. ShardSize
      BY <1>1
    <3>2. Parting!RowAt(q, ShardSize, l) \in 1 .. Batch
      BY <1>1, <3>1, ShardRow
    <3>3. Parting!RowAt(r, ShardSize, j) \in 1 .. Batch
      BY <1>1, ShardRow
    <3>4. Parting!RowAt(q, ShardSize, l) = Parting!RowAt(r, ShardSize, j)
      <4> DEFINE x == Parting!RowAt(q, ShardSize, l)
                 y == Parting!RowAt(r, ShardSize, j)
      <4>1. S[x].id = S[y].id /\ x \in 1 .. Batch /\ y \in 1 .. Batch
        BY <2>2, <3>2, <3>3
      <4> HIDE DEF x, y, S
      <4>2. x = y
        BY <1>1, <4>1 DEF TrueBatch
      <4>3. QED
        BY <4>2 DEF x, y
    <3>5. q \in 1 .. Flow!Dp /\ r \in 1 .. Flow!Dp
      BY DEF Flow!Ranks
    <3>6. Flow!Dp \in Nat
      BY <1>1
    <3>7. \A c, d \in 1 .. Flow!Dp : \A m, n \in 1 .. ShardSize :
            Parting!RowAt(c, ShardSize, m) = Parting!RowAt(d, ShardSize, n) => c = d /\ m = n
      BY <1>1, <3>6, Parting!RowsInParts
    <3>8. QED
      BY <3>1, <3>4, <3>5, <3>7, Zenon
  <2>3. QED
    BY <2>1, <2>2
<1>3. (j \in lo + 1 .. hi) <=> lo < j /\ j <= hi
  BY <1>1
<1> HIDE DEF in
<1>4. CASE lo < j /\ j <= hi
  <2>1. {q \in Flow!Ranks : in(q)} = {r}
    BY <1>2, <1>3, <1>4
  <2>2. Cardinality({r}) = 1
    BY FS_Singleton
  <2>3. QED
    BY <1>4, <2>1, <2>2 DEF in
<1>5. CASE ~ (lo < j /\ j <= hi)
  <2>1. {q \in Flow!Ranks : in(q)} = {}
    BY <1>2, <1>3, <1>5
  <2>2. Cardinality({}) = 0
    BY FS_EmptySet
  <2>3. QED
    BY <1>5, <2>1, <2>2 DEF in
<1>6. QED
  BY <1>4, <1>5

\* ... and if the ranks take a step of the optimizer.
LEMMA FlowSteps ==
  ASSUME FlowInv, Flow!OptimizerStep
  PROVE  FlowInv'
<1> DEFINE S == Flow!Samples
           ms == Flow!MiniSize
           lo == (bMini - 1) * ms
           y == bMini * ms
           hi == IF y < ShardSize THEN y ELSE ShardSize
           count(i) == Cardinality({q \in Flow!Ranks :
                         i \in Flow!RowsOf(Flow!Reordered(Flow!Work(q), bRowOrder[q]))})
           at(r, j) == S[Parting!RowAt(r, ShardSize, j)].id
<1>0. \A T : Flow!Cardinality(T) = Cardinality(T)
  BY DEF Flow!Cardinality, Cardinality, Flow!IsFiniteSet, IsFiniteSet
<1>1. /\ bPc = "update" /\ Flow!Through
      /\ bTrained' = [i \in 1 .. Batch |-> bTrained[i] + count(i)]
      /\ bRowOrder' = [r \in Flow!Ranks |-> <<>>]
      /\ UNCHANGED <<bKind, bSp, bDynamic, bColumns, bAnswers, bPool, bFuture, bCall>>
  <2>1. bTrained' = [i \in 1 .. Batch |-> bTrained[i] +
          Flow!Cardinality({q \in Flow!Ranks :
            i \in Flow!RowsOf(Flow!Reordered(Flow!Work(q), bRowOrder[q]))})]
    BY DEF Flow!OptimizerStep, Batch
  <2>2. QED
    BY <1>0, <2>1 DEF Flow!OptimizerStep, Flow!config
<1>2. \/ bMini # Flow!Minis /\ bMini' = bMini + 1 /\ bPc' = bPc /\ bEpoch' = bEpoch
      \/ /\ bMini = Flow!Minis /\ bEpoch < Epochs /\ bMini' = 1 /\ bEpoch' = bEpoch + 1
         /\ bPc' = bPc
      \/ /\ bMini = Flow!Minis /\ ~ (bEpoch < Epochs) /\ bPc' = "done"
         /\ bEpoch' = bEpoch /\ bMini' = bMini
  BY DEF Flow!OptimizerStep, Flow!IsLastMini
<1>3. /\ bKind = "train" /\ bSp \in SpSizes /\ TrueBatch(S)
      /\ ShardSize \in Nat \ {0} /\ ms \in Nat \ {0} /\ Flow!Dp \in Nat \ {0}
      /\ Batch \in Nat \ {0} /\ Epochs \in Nat \ {0} /\ Batch = Flow!Dp * ShardSize
  BY <1>1, ShardsDivide, FlowConstants DEF FlowInv, FlowTyped, Batched
<1>4. Flow!Minis = Flow!CeilDiv(ShardSize, ms)
  <2>1. 1 \in Flow!Ranks
    BY <1>3 DEF Flow!Ranks
  <2>2. Len(Flow!Shard(1)) = ShardSize
    BY <1>3, <2>1, ShardIs
  <2>3. QED
    BY <2>2 DEF Flow!Minis, Flow!Splits
<1>5. /\ bEpoch \in 1 .. Epochs /\ bMini \in 1 .. Flow!Minis /\ bTrained \in [1 .. Batch -> Nat]
      /\ \A r \in Flow!Ranks, j \in 1 .. ShardSize :
           bTrained[at(r, j)] = IF j <= lo THEN bEpoch ELSE bEpoch - 1
  BY <1>1 DEF FlowInv, Trained
<1>6. Flow!Minis \in Nat
  <2> DEFINE q == (ShardSize + ms - 1) \div ms
  <2>1. ShardSize + ms - 1 \in Nat
    BY <1>3
  <2>2. q \in Nat
    BY <1>3, <2>1, Parting!Remainder
  <2>3. QED
    BY <1>4, <2>2 DEF Flow!CeilDiv
<1>7. /\ lo \in Nat /\ y = lo + ms /\ lo < ShardSize
      /\ bMini = Flow!Minis <=> y >= ShardSize
  BY <1>3, <1>4, <1>5, MiniBounds
<1>8. hi \in Nat /\ lo < hi /\ hi <= ShardSize /\ (y < ShardSize => hi = y)
      /\ (y >= ShardSize => hi = ShardSize)
  <2> HIDE DEF y, lo, ms
  <2>1. QED
    BY <1>3, <1>7
<1>9. ASSUME NEW r \in Flow!Ranks, NEW j \in 1 .. ShardSize
      PROVE  /\ at(r, j) \in 1 .. Batch
             /\ count(at(r, j)) = IF lo < j /\ j <= hi THEN 1 ELSE 0
             /\ bTrained'[at(r, j)] = IF j <= hi THEN bEpoch ELSE bEpoch - 1
  <2>1. Parting!RowAt(r, ShardSize, j) \in 1 .. Batch
    BY <1>3, ShardRow
  <2>2. at(r, j) \in 1 .. Batch
    BY <1>3, <2>1 DEF TrueBatch
  <2>3. count(at(r, j)) = IF lo < j /\ j <= hi THEN 1 ELSE 0
    BY <1>1, TakesPart
  <2> HIDE DEF count, lo, hi, at
  <2>4. bTrained'[at(r, j)] = bTrained[at(r, j)] + count(at(r, j))
    BY <1>1, <2>2
  <2>5. bTrained[at(r, j)] = IF j <= lo THEN bEpoch ELSE bEpoch - 1
    BY <1>5
  <2>6. QED
    BY <1>3, <1>5, <1>7, <1>8, <2>2, <2>3, <2>4, <2>5
<1>10. ASSUME NEW i \in 1 .. Batch
       PROVE  \E r \in Flow!Ranks, j \in 1 .. ShardSize : i = at(r, j)
  <2>1. PICK k \in 1 .. Batch : S[k].id = i
    BY <1>3 DEF TrueBatch
  <2>2. k \in 1 .. Parting!Total(Flow!Dp, ShardSize)
    BY <1>3 DEF Parting!Total
  <2>3. PICK r \in 1 .. Flow!Dp, j \in 1 .. ShardSize : k = Parting!RowAt(r, ShardSize, j)
    <3>1. Flow!Dp \in Nat
      BY <1>3
    <3>2. QED
      BY <1>3, <2>2, <3>1, Parting!RowsInParts
  <2>4. QED
    BY <2>1, <2>3 DEF Flow!Ranks
<1>11. bTrained' \in [1 .. Batch -> Nat]
  <2>1. ASSUME NEW i \in 1 .. Batch PROVE count(i) \in Nat
    <3>1. PICK r \in Flow!Ranks, j \in 1 .. ShardSize : i = at(r, j)
      BY <1>10
    <3> HIDE DEF count, at
    <3>2. QED
      BY <1>9, <3>1
  <2> HIDE DEF count
  <2>2. QED
    BY <1>1, <1>5, <2>1
<1> HIDE DEF count, at, lo, hi, y, ms
<1>12. UNCHANGED <<Flow!Ranks, ShardSize, Flow!Minis, Flow!MiniSize, Flow!Samples>>
  BY <1>1 DEF Flow!Ranks, Flow!Dp, ShardSize, Flow!Minis, Flow!MiniSize, Flow!Shard,
     Flow!Splits, Flow!Samples
<1>13. bPc' = "update" => bEpoch' \in 1 .. Epochs /\ bMini' \in 1 .. Flow!Minis
  BY <1>1, <1>2, <1>3, <1>5, <1>6
<1>14. ASSUME bPc' = "update", NEW r \in Flow!Ranks, NEW j \in 1 .. ShardSize
       PROVE  bTrained'[at(r, j)] =
                IF j <= (bMini' - 1) * ms THEN bEpoch' ELSE bEpoch' - 1
  <2>1. bTrained'[at(r, j)] = IF j <= hi THEN bEpoch ELSE bEpoch - 1
    BY <1>9
  <2>2. CASE bMini # Flow!Minis
    <3>1. bMini' = bMini + 1 /\ bEpoch' = bEpoch
      BY <1>2, <2>2
    <3>2. (bMini' - 1) * ms = y
      <4>1. bMini' - 1 = bMini
        BY <1>5, <1>6, <3>1
      <4>2. QED
        BY <4>1 DEF y
    <3>3. hi = y
      BY <1>3, <1>7, <1>8, <2>2
    <3>4. QED
      BY <2>1, <3>1, <3>2, <3>3
  <2>3. CASE bMini = Flow!Minis
    <3>1. bMini' = 1 /\ bEpoch' = bEpoch + 1
      BY <1>2, <1>14, <2>3
    <3>2. (bMini' - 1) * ms = 0 /\ ~ (j <= 0)
      BY <1>3, <3>1
    <3>3. hi = ShardSize /\ j <= hi
      BY <1>3, <1>7, <1>8, <2>3
    <3>4. QED
      BY <1>3, <1>5, <2>1, <3>1, <3>2, <3>3
  <2>4. QED
    BY <2>2, <2>3
<1>15. ASSUME bPc' = "done", NEW i \in 1 .. Batch PROVE bTrained'[i] = Epochs
  <2>1. bMini = Flow!Minis /\ ~ (bEpoch < Epochs)
    BY <1>1, <1>2, <1>15
  <2>2. bEpoch = Epochs
    BY <1>3, <1>5, <2>1
  <2>3. PICK r \in Flow!Ranks, j \in 1 .. ShardSize : i = at(r, j)
    BY <1>10
  <2>4. j <= hi
    BY <1>3, <1>7, <1>8, <2>1
  <2>5. QED
    BY <1>9, <2>2, <2>3, <2>4
<1>16. Trained'
  <2>1. bPc' \in {"update", "done"}
    BY <1>1, <1>2
  <2>2. bPc' = "update" =>
          \A r \in Flow!Ranks', j \in 1 .. ShardSize' :
            bTrained'[Flow!Samples'[Parting!RowAt(r, ShardSize', j)].id] =
              IF j <= (bMini' - 1) * Flow!MiniSize' THEN bEpoch' ELSE bEpoch' - 1
    BY <1>12, <1>14 DEF at, S, ms
  <2>3. QED
    BY <1>11, <1>12, <1>13, <1>15, <2>1, <2>2 DEF Trained, Parting!RowAt
<1>17. FlowTyped' /\ Asking' /\ Rewarded' /\ Parted' /\ Validated'
  BY <1>1, <1>2, <1>3, <1>12 DEF FlowInv, FlowTyped, Asking, Rewarded, Parted, Validated
<1>18. Batched'
  BY <1>1, <1>2, <1>12 DEF FlowInv, Batched, Computed
<1>19. Microed'
  BY <1>1 DEF Microed, Flow!Ranks, Flow!Dp
<1>20. QED
  BY <1>16, <1>17, <1>18, <1>19 DEF FlowInv

\* A step keeps the invariant, ...
LEMMA FlowNext == FlowInv /\ [Job(Flow!Next)]_bVars => FlowInv'
<1> SUFFICES ASSUME FlowInv, [Job(Flow!Next)]_bVars PROVE FlowInv'
  OBVIOUS
<1>1. CASE UNCHANGED bVars
  BY <1>1, FlowForward DEF bVars
<1>2. CASE Flow!Next
  <2>1. ASSUME UNCHANGED Flow!vars PROVE FlowInv'
    BY <2>1, FlowForward DEF Flow!vars
  <2>2. ASSUME NEW w \in 1 .. AgentWorkers, Flow!Answer(w) PROVE FlowInv'
    BY <2>2, FlowAnswers
  <2>3. ASSUME NEW r \in Flow!Ranks, Flow!Forward(r) PROVE FlowInv'
    BY <2>3, FlowForward DEF Flow!Forward, Flow!config, Flow!steps
  <2>4. ASSUME NEW r \in Flow!Ranks, Flow!Prepare(r) PROVE FlowInv'
    BY <2>4, FlowPrepares
  <2>5. CASE Flow!RewardDone
    BY <2>5, FlowScored
  <2>6. CASE Flow!Driver
    BY <2>6, FlowUnites, FlowValidates, FlowBalances, FlowReorders, FlowRewards, FlowCalls,
       FlowAdvantages, FlowSteps DEF Flow!Driver
  <2>7. QED
    BY <1>2, <2>1, <2>2, <2>3, <2>4, <2>5, <2>6 DEF Flow!Next, Flow!Poll, Flow!Over
<1>3. QED
  BY <1>1, <1>2 DEF Job

\* ... and so it is always.
LEMMA FlowAlways == MCSpec => []FlowInv
<1>1. MCInit => FlowInv
  BY FlowInitially DEF MCInit
<1>2. FlowInv /\ [MCNext]_MCVars => FlowInv'
  <2>1. [MCNext]_MCVars => [Job(Flow!Next)]_bVars
    BY DEF MCNext, MCVars, Gpu, Reward, Driving, Controlling, bVars
  <2>2. QED
    BY <2>1, FlowNext
<1>3. QED
  BY <1>1, <1>2, PTL DEF MCSpec

\* Whatever the numbers of prompts, samples, agent workers, ranks and calls, and
\* whichever rows balancing and dynamic batching put where, in every row of the
\* batch all columns stay those of one sample, and advantages are computed among
\* the samples of its prompt.
THEOREM ColumnsStayAligned == MCSpec => []RowsAligned
<1>1. FlowInv => RowsAligned
  <2> SUFFICES ASSUME FlowInv, "responses" \in DOMAIN bColumns
               PROVE  Flow!RowsAligned
    BY DEF RowsAligned, Flow!RowsAligned
  <2> DEFINE S == Flow!Samples
             uid == bColumns["uid"]
             adv == bColumns["advantages"]
  <2>0. bPc # "generate"
    BY DEF FlowInv, Asking
  <2>1. CASE bKind = "train"
    <3>1. /\ {"uid", "responses"} \subseteq DOMAIN bColumns /\ TrueBatch(S)
          /\ uid = [i \in 1 .. Batch |-> S[i].prompt]
          /\ \A c \in DOMAIN bColumns \ {"uid", "advantages"} : bColumns[c] = S
          /\ "advantages" \in DOMAIN bColumns => adv = AdvantagesOf(S)
      BY <2>0, <2>1 DEF FlowInv, Batched, Computed
    <3>2. DOMAIN S = 1 .. Batch /\ Len(S) = Batch /\ Batch \in Nat
      BY <3>1, FlowConstants DEF TrueBatch
    <3> HIDE DEF S, uid, adv
    <3>3. Len(uid) = Batch /\ \A i \in 1 .. Batch : uid[i] = S[i].prompt
      BY <3>1, <3>2
    <3>4. ASSUME "advantages" \in DOMAIN bColumns
          PROVE  /\ Len(adv) = Batch
                 /\ \A i \in 1 .. Batch : adv[i].of = S[i] /\ adv[i].group = GroupOf(S, i)
      BY <3>1, <3>2, <3>4 DEF AdvantagesOf
    <3>5. ASSUME NEW c \in DOMAIN bColumns PROVE Len(bColumns[c]) = Len(S)
      BY <3>1, <3>2, <3>3, <3>4 DEF uid, adv
    <3>6. ASSUME NEW i \in 1 .. Batch, "advantages" \in DOMAIN bColumns
          PROVE  /\ adv[i].of = S[i]
                 /\ Flow!Cardinality(adv[i].group) = N
                 /\ \A x \in adv[i].group : x.prompt = S[i].prompt
      <4>1. \A T : Flow!Cardinality(T) = Cardinality(T)
        BY DEF Flow!Cardinality, Cardinality, Flow!IsFiniteSet, IsFiniteSet
      <4>2. Cardinality(GroupOf(S, i)) = N /\ \A x \in GroupOf(S, i) : x.prompt = S[i].prompt
        BY <3>1, GroupsHaveN
      <4>3. adv[i].of = S[i] /\ adv[i].group = GroupOf(S, i)
        BY <3>4, <3>6
      <4>4. QED
        BY <4>1, <4>2, <4>3
    <3>7. QED
      BY <3>1, <3>2, <3>3, <3>5, <3>6 DEF Flow!RowsAligned, S, uid, adv
  <2>2. CASE bKind = "validate"
    <3>1. DOMAIN bColumns = {"uid", "responses"}
      BY <2>0, <2>2 DEF FlowInv, FlowTyped, Validated
    <3>2. PICK n \in Nat : /\ S \in Seq(Sample) /\ Len(S) = n
                           /\ uid = [i \in 1 .. n |-> S[i].prompt]
      BY <2>0, <2>2 DEF FlowInv, FlowTyped, Validated
    <3> HIDE DEF uid
    <3>3. Len(uid) = n /\ DOMAIN S = 1 .. n /\ \A i \in 1 .. n : uid[i] = S[i].prompt
      BY <3>2
    <3>4. QED
      BY <3>1, <3>2, <3>3 DEF Flow!RowsAligned, Flow!Samples, uid
  <2>3. QED
    BY <2>1, <2>2 DEF FlowInv, FlowTyped
<1>2. QED
  BY <1>1, FlowAlways, PTL

\* Whatever the sizes of the batch, of mini- and micro-batches and of the worker
\* groups, in every epoch of the update every sample takes part in one optimizer
\* step, on one rank.
THEOREM SamplesTrainOnce == MCSpec => []SamplesTrainedOnce
<1>1. FlowInv => SamplesTrainedOnce
  <2> SUFFICES ASSUME FlowInv PROVE Flow!TrainedOnce
    BY DEF SamplesTrainedOnce
  <2>1. ASSUME bPc = "update", NEW i \in 1 .. Batch
        PROVE  bTrained[i] \in {bEpoch - 1, bEpoch}
    <3>1. bKind = "train" /\ bSp \in SpSizes
      BY <2>1 DEF FlowInv, FlowTyped
    <3>2. TrueBatch(Flow!Samples)
      BY <2>1, <3>1 DEF FlowInv, Batched
    <3>3. PICK k \in 1 .. Batch : Flow!Samples[k].id = i
      BY <3>2 DEF TrueBatch
    <3>4. PICK r \in Flow!Ranks, j \in 1 .. ShardSize : k = Parting!RowAt(r, ShardSize, j)
      <4>1. Flow!Dp \in Nat /\ ShardSize \in Nat \ {0} /\ Batch = Flow!Dp * ShardSize
        BY <3>1, ShardsDivide
      <4>2. k \in 1 .. Parting!Total(Flow!Dp, ShardSize)
        BY <4>1 DEF Parting!Total
      <4>3. QED
        BY <4>1, <4>2, Parting!RowsInParts DEF Flow!Ranks
    <3>5. bTrained[i] = IF j <= (bMini - 1) * Flow!MiniSize THEN bEpoch ELSE bEpoch - 1
      BY <2>1, <3>3, <3>4 DEF FlowInv, Trained
    <3>6. QED
      BY <3>5
  <2>2. QED
    BY <2>1 DEF Flow!TrainedOnce, FlowInv, Trained, Batch
<1>2. QED
  BY <1>1, FlowAlways, PTL

------------------------------------------------------------------------------
(* The tokens of the ranks.                                                *)

\* The tokens of a sequence of samples are the sum of their lengths.
LEMMA TokensAre ==
  ASSUME NEW x \in Seq(Sample), NEW n \in Nat, Len(x) = n,
         NEW f, f = [j \in 1 .. n |-> x[j].len]
  PROVE  Flow!Tokens(x) = SumOf(f, 1 .. n)
<1> DEFINE D == 1 .. n
           Body(F) == [T \in SUBSET D |-> IF T = {} THEN 0
                                          ELSE x[One(T)].len + F[T \ {One(T)}]]
           Sum(F) == [T \in SUBSET D |-> IF T = {} THEN 0 ELSE f[One(T)] + F[T \ {One(T)}]]
           G == CHOOSE F : F = Body(F)
           K == CHOOSE F : SumsUp(F, f, SUBSET D)
           h == [d \in D |-> d]
<1>1. DOMAIN x = D /\ \A j \in D : f[j] = x[j].len /\ f[j] \in Int
  <2>1. DOMAIN x = D /\ \A j \in D : x[j] \in Sample
    OBVIOUS
  <2>2. \A j \in D : x[j].len \in 1 .. MaxLen
    BY <2>1 DEF Sample
  <2>3. \A j \in D : f[j] = x[j].len
    OBVIOUS
  <2>4. QED
    BY <2>1, <2>2, <2>3
<1>2. Flow!Tokens(x) = G[D]
  <2>1. Flow!MapThenSumSet(LAMBDA i : x[i].len, D) = G[D]
    BY DEF Flow!MapThenSumSet, Flow!MapThenFoldSet, One
  <2> HIDE DEF G
  <2>2. QED
    BY <1>1, <2>1 DEF Flow!Tokens
<1>3. \A T \in SUBSET D : T # {} => x[One(T)].len = f[One(T)]
  <2>1. \A T \in SUBSET D : T # {} => One(T) \in D
    BY DEF One
  <2>2. QED
    BY <1>1, <2>1
<1>4. \A F : Body(F) = Sum(F)
  <2> HIDE DEF D
  <2>1. QED
    BY <1>3
<1>5. \A F : SumsUp(F, f, SUBSET D) <=> F = Body(F)
  <2>1. \A F : SumsUp(F, f, SUBSET D) <=> F = Sum(F)
    BY DEF SumsUp
  <2> HIDE DEF Body, Sum
  <2>2. QED
    BY <1>4, <2>1
<1>6. IsFiniteSet(D)
  BY FirstNumbers
<1>7. \E F : SumsUp(F, f, SUBSET D)
  BY <1>6, SumsExist
<1>8. SumsUp(G, f, SUBSET D)
  <2> HIDE DEF D, Body
  <2>1. \E F : F = Body(F)
    BY <1>5, <1>7
  <2>2. G = Body(G)
    BY <2>1, Zenon
  <2> HIDE DEF G
  <2>3. QED
    BY <1>5, <2>2
<1>9. SumsUp(K, f, SUBSET D) /\ SumOf(f, D) = K[D]
  BY <1>7, Zenon DEF SumOf
<1>10. Carries(h, D, f, D, f) /\ {h[d] : d \in D} = D
  <2> HIDE DEF D
  <2>1. QED
    BY <1>1 DEF Carries
<1>11. G[D] = K[D]
  <2> HIDE DEF D, Body, Sum, G, K, h
  <2>1. D \in SUBSET D /\ SumsUp(G, f, SUBSET D) /\ SumsUp(K, f, SUBSET D)
    BY <1>8, <1>9
  <2> DEFINE image == {h[d] : d \in D}
  <2>2. G[D] = K[image]
    BY <1>6, <1>10, <2>1, SumMoved, SMTT(30)
  <2>3. QED
    BY <1>10, <2>2
<1>12. QED
  BY <1>2, <1>9, <1>11

\* The lengths of the samples that share r of a batch has.
LengthsOf(t, r, size) == [j \in 1 .. size |-> t[Parting!RowAt(r, size, j)].len]

\* The shares of a batch differ by no more than two samples do, p times.
SharesEven(t, shares, p, size) ==
  \A q, r \in 1 .. shares : \E i, j \in 1 .. Batch :
    SumOf(LengthsOf(t, q, size), 1 .. size) - SumOf(LengthsOf(t, r, size), 1 .. size)
      <= p * (t[i].len - t[j].len)

\* While the batch is balanced the sums of parts are those of their samples; from
\* then on the shards are even.
Evened ==
  /\ bPc = "balance" => Parting!KKSums
  /\ bKind = "train" /\ bPc \notin {"generate", "balance"} =>
       SharesEven(Flow!Samples, Flow!Dp, bSp, ShardSize)

\* So the ranks are balanced.
LEMMA EvenedRanks == FlowInv /\ Evened => RanksBalanced
<1> SUFFICES ASSUME FlowInv, Evened, bKind = "train", bPc \notin {"generate", "balance"},
                    NEW q \in Flow!Ranks, NEW r \in Flow!Ranks
             PROVE  \E i, j \in 1 .. Batch :
                      Flow!Tokens(Flow!Shard(q)) - Flow!Tokens(Flow!Shard(r))
                        <= bSp * (Flow!Samples[i].len - Flow!Samples[j].len)
  BY DEF RanksBalanced, Flow!RanksBalanced, Batch
<1>1. bSp \in SpSizes /\ TrueBatch(Flow!Samples)
  BY DEF FlowInv, FlowTyped, Batched
<1>2. SharesEven(Flow!Samples, Flow!Dp, bSp, ShardSize)
  BY DEF Evened
<1>3. ShardSize \in Nat
  BY <1>1, ShardsDivide
<1>4. ASSUME NEW c \in Flow!Ranks
      PROVE  Flow!Tokens(Flow!Shard(c)) = SumOf(LengthsOf(Flow!Samples, c, ShardSize), 1 .. ShardSize)
  <2> DEFINE x == Flow!Shard(c)
             f == LengthsOf(Flow!Samples, c, ShardSize)
  <2>1. x \in Seq(Sample) /\ Len(x) = ShardSize
    BY <1>1, ShardIs
  <2>2. \A j \in 1 .. ShardSize : x[j] = Flow!Samples[Parting!RowAt(c, ShardSize, j)]
    BY <1>1, ShardRow
  <2>3. f = [j \in 1 .. ShardSize |-> x[j].len]
    <3> HIDE DEF x
    <3>1. QED
      BY <2>2 DEF LengthsOf
  <2> HIDE DEF x, f
  <2>4. Flow!Tokens(x) = SumOf(f, 1 .. ShardSize)
    BY <1>3, <2>1, <2>3, TokensAre
  <2>5. QED
    BY <2>4 DEF x, f
<1>5. PICK i \in 1 .. Batch, j \in 1 .. Batch :
        SumOf(LengthsOf(Flow!Samples, q, ShardSize), 1 .. ShardSize)
          - SumOf(LengthsOf(Flow!Samples, r, ShardSize), 1 .. ShardSize)
            <= bSp * (Flow!Samples[i].len - Flow!Samples[j].len)
  BY <1>2 DEF SharesEven, Flow!Ranks
<1>6. QED
  BY <1>4, <1>5

\* The lengths that are balanced stay while the batch does.
LEMMA LengthsStay ==
  ASSUME bColumns' = bColumns
  PROVE  Flow!Lengths' = Flow!Lengths /\ Flow!Samples' = Flow!Samples
BY DEF Flow!Lengths, Flow!Samples

\* Balancing adds the lengths up right, ...
LEMMA EvenedBalances ==
  ASSUME FlowInv, Evened, Flow!Balance
  PROVE  Evened'
<1>1. bPc = "balance" /\ bPc' = bPc /\ (Flow!Balancing!Fill \/ Flow!Balancing!Merge)
  BY DEF Flow!Balance
<1>2. Parting!KKInv /\ Parting!KKSums
  BY <1>1 DEF FlowInv, Parted, Evened
<1>3. Parting!KKSums'
  <2>1. CASE Flow!Balancing!Fill
    BY <1>2, <2>1, SameBalancing, Parting!SumsFill
  <2>2. CASE Flow!Balancing!Merge
    BY <1>2, <2>2, SameBalancing, Parting!SumsMerge
  <2>3. QED
    BY <1>1, <2>1, <2>2
<1>4. QED
  BY <1>1, <1>3 DEF Evened

\* ... and the order of the parts makes the shards even.
LEMMA EvenedReorders ==
  ASSUME FlowInv, Evened, Flow!Reorder
  PROVE  Evened'
<1>1. bPc = "balance" /\ Flow!Balancing!IsDone /\ bPc' = "reward" /\ bSp' = bSp
  BY DEF Flow!Reorder, Flow!config
<1>2. PICK s \in bPool :
        bColumns' = [c \in DOMAIN bColumns |-> Flow!Reordered(bColumns[c], Flow!Order(s))]
  BY DEF Flow!Reorder
<1> DEFINE S == Flow!Samples
           idx == Flow!Order(s)
           t == [k \in 1 .. Batch |-> S[idx[k]]]
           d == Flow!Dp
           z == ShardSize
           Share(r) == Parting!ShareOf(s, r, z)
<1>3. bKind = "train" /\ bSp \in SpSizes /\ Parting!KKInv /\ IsFiniteSet(bPool) /\ Parting!KKSums
  BY <1>1 DEF FlowInv, FlowTyped, Parted, Evened
<1>4. TrueBatch(S) /\ "responses" \in DOMAIN bColumns
  BY <1>1, <1>3 DEF FlowInv, Batched
<1>5. Parting!NamesOnce(idx, Batch) /\ bPool = {s}
  BY <1>1, <1>3, OrderIs
<1>6. Flow!Samples' = t /\ \A k \in 1 .. Batch : idx[k] \in 1 .. Batch
  <2>1. Flow!Samples' = Flow!Reordered(S, idx)
    BY <1>2, <1>4 DEF Flow!Samples
  <2> HIDE DEF S, idx
  <2>2. QED
    BY <1>4, <1>5, <2>1, ReorderedBatch
<1>7. idx = Parting!OrderOf(s)
  BY SameOperations DEF Flow!Order, Parting!OrderOf, Parting!PartOf, Parting!Items,
     Parting!Parts, Batch
<1>8. /\ d \in Nat \ {0} /\ bSp \in Nat \ {0} /\ World = d * bSp /\ z \in Nat \ {0}
      /\ Batch = d * z
  BY <1>3, ShardsDivide
<1>9. Flow!Lengths = [i \in 1 .. Batch |-> S[i].len]
  <2>1. DOMAIN S = 1 .. Batch
    BY <1>4, FlowConstants DEF TrueBatch
  <2>2. QED
    BY <2>1 DEF Flow!Lengths, Flow!Samples
<1>10. ASSUME NEW q \in 1 .. d, NEW r \in 1 .. d
       PROVE  \E i, j \in 1 .. Batch :
                Parting!SumOf(Share(q), 1 .. z) - Parting!SumOf(Share(r), 1 .. z)
                  <= bSp * (S[i].len - S[j].len)
  <2>1. /\ World = Parting!Total(d, bSp) /\ Batch = Parting!Total(d, z)
        /\ bPool = {s} /\ z \in Nat
    BY <1>5, <1>8 DEF Parting!Total
  <2>2. \E i, j \in 1 .. Batch :
          Parting!SumOf(Share(q), 1 .. z) - Parting!SumOf(Share(r), 1 .. z)
            <= bSp * (Flow!Lengths[i] - Flow!Lengths[j])
    <3> HIDE DEF d, z
    <3>1. QED
      BY <1>3, <1>8, <1>10, <2>1, Parting!SharesAreEven DEF Parting!Items, Batch
  <2> HIDE DEF S, Share
  <2>3. QED
    BY <1>9, <2>2
<1>11. ASSUME NEW r \in 1 .. d PROVE LengthsOf(t, r, z) = Share(r)
  <2>1. ASSUME NEW j \in 1 .. z
        PROVE  t[Parting!RowAt(r, z, j)].len
                 = Flow!Lengths[Parting!OrderOf(s)[Parting!RowAt(r, z, j)]]
    <3> DEFINE x == Parting!RowAt(r, z, j)
    <3>1. x \in 1 .. Batch
      <4>1. d \in Nat /\ z \in Nat \ {0} /\ Parting!Total(d, z) = Batch
        BY <1>8 DEF Parting!Total
      <4> HIDE DEF d, z
      <4>2. \A c \in 1 .. d, l \in 1 .. z :
              Parting!RowAt(c, z, l) \in 1 .. Parting!Total(d, z)
        BY <4>1, Parting!RowsInParts
      <4>3. QED
        BY <2>1, <4>1, <4>2
    <3> HIDE DEF x
    <3>2. t[x] = S[idx[x]] /\ idx[x] \in 1 .. Batch
      BY <1>6, <3>1
    <3>3. Flow!Lengths[idx[x]] = S[idx[x]].len
      <4> HIDE DEF idx, S
      <4>1. QED
        BY <1>9, <3>2
    <3>4. t[x].len = Flow!Lengths[Parting!OrderOf(s)[x]]
      <4> HIDE DEF idx, S, t
      <4>1. QED
        BY <1>7, <3>2, <3>3
    <3>5. QED
      BY <3>4 DEF x
  <2> HIDE DEF t, z
  <2>2. QED
    BY <2>1 DEF LengthsOf, Parting!ShareOf
<1>12. \A f, A : Parting!SumOf(f, A) = SumOf(f, A)
  BY DEF Parting!SumOf, SumOf, Parting!SumsUp, SumsUp, Parting!One, One
<1>13. ASSUME NEW i \in 1 .. Batch PROVE \E k \in 1 .. Batch : t[k].len = S[i].len
  <2>1. \A l \in 1 .. Batch : \E k \in 1 .. Batch : idx[k] = l
    BY <1>5, Zenon DEF Parting!NamesOnce
  <2>2. PICK k \in 1 .. Batch : idx[k] = i
    BY <2>1
  <2>3. t[k] = S[i]
    BY <2>2
  <2>4. QED
    BY <2>3
<1> HIDE DEF Share, t, S, d, z
<1>14. SharesEven(t, d, bSp, z)
  <2>1. ASSUME NEW q \in 1 .. d, NEW r \in 1 .. d
        PROVE  \E i, j \in 1 .. Batch :
                 SumOf(LengthsOf(t, q, z), 1 .. z) - SumOf(LengthsOf(t, r, z), 1 .. z)
                   <= bSp * (t[i].len - t[j].len)
    <3>1. PICK i \in 1 .. Batch, j \in 1 .. Batch :
            Parting!SumOf(Share(q), 1 .. z) - Parting!SumOf(Share(r), 1 .. z)
              <= bSp * (S[i].len - S[j].len)
      BY <1>10
    <3>2. PICK k \in 1 .. Batch : t[k].len = S[i].len
      BY <1>13
    <3>3. PICK l \in 1 .. Batch : t[l].len = S[j].len
      BY <1>13
    <3>4. SumOf(LengthsOf(t, q, z), 1 .. z) - SumOf(LengthsOf(t, r, z), 1 .. z)
            <= bSp * (t[k].len - t[l].len)
      BY <1>11, <1>12, <3>1, <3>2, <3>3
    <3>5. QED
      BY <3>4
  <2>2. QED
    BY <2>1 DEF SharesEven
<1>15. Flow!Dp' = d /\ ShardSize' = z
  BY <1>1 DEF Flow!Dp, ShardSize, d, z
<1>16. QED
  BY <1>1, <1>6, <1>14, <1>15 DEF Evened

\* What neither moves samples nor ends the balancing keeps it.
LEMMA EvenedKept ==
  ASSUME Evened, bKind' = bKind, bSp' = bSp, Flow!Samples' = Flow!Samples,
         bPc' \in {"generate", "balance"} =>
           bPc' = bPc /\ bPool' = bPool /\ bColumns' = bColumns,
         bPc \in {"generate", "balance"} => bPc' = bPc
  PROVE  Evened'
<1>1. Flow!Dp' = Flow!Dp /\ ShardSize' = ShardSize
  BY DEF Flow!Dp, ShardSize
<1>2. ASSUME bPc' = "balance" PROVE Parting!KKSums'
  <2>1. bPool' = bPool /\ Flow!Lengths' = Flow!Lengths /\ Parting!KKSums
    BY <1>2, LengthsStay DEF Evened
  <2>2. QED
    BY <2>1, Parting!SumsKept DEF Parting!vars
<1>3. ASSUME bKind' = "train", bPc' \notin {"generate", "balance"}
      PROVE  SharesEven(Flow!Samples', Flow!Dp', bSp', ShardSize')
  BY <1>1, <1>3 DEF Evened
<1>4. QED
  BY <1>2, <1>3 DEF Evened

\* Every step of the batch keeps it, ...
LEMMA EvenedNext == FlowInv /\ Evened /\ [Job(Flow!Next)]_bVars => Evened'
<1> SUFFICES ASSUME FlowInv, Evened, [Job(Flow!Next)]_bVars PROVE Evened'
  OBVIOUS
<1>1. ASSUME UNCHANGED <<bPc, bKind, bSp, bPool, bColumns>> PROVE Evened'
  BY <1>1, EvenedKept, LengthsStay
<1>2. ASSUME UNCHANGED <<bKind, bSp, bPool, bColumns>>,
             bPc \notin {"generate", "balance"}, bPc' \notin {"generate", "balance"}
      PROVE  Evened'
  BY <1>2, EvenedKept, LengthsStay
<1>3. CASE UNCHANGED bVars
  BY <1>1, <1>3 DEF bVars
<1>4. CASE Flow!Next
  <2>1. CASE Flow!Poll \/ Flow!Over \/ Flow!RewardDone
    BY <1>1, <2>1 DEF Flow!Poll, Flow!Over, Flow!RewardDone, Flow!vars, Flow!config
  <2>2. ASSUME NEW w \in 1 .. AgentWorkers, Flow!Answer(w) PROVE Evened'
    BY <1>1, <2>2 DEF Flow!Answer, Flow!config
  <2>3. ASSUME NEW r \in Flow!Ranks, Flow!Forward(r) \/ Flow!Prepare(r) PROVE Evened'
    BY <1>1, <2>3 DEF Flow!Forward, Flow!Prepare, Flow!config
  <2>4. CASE Flow!UnionTrain
    <3>1. bPc = "generate" /\ bPool' = bPool /\ bPc' = "balance"
      BY <2>4 DEF Flow!UnionTrain, Flow!Generated
    <3>2. bPool' = {}
      BY <3>1 DEF FlowInv, Parted
    <3>3. QED
      BY <3>1, <3>2 DEF Evened, Parting!KKSums
  <2>5. CASE Flow!UnionValidate
    <3>1. bKind' = "validate" /\ bPc' = "done"
      BY <2>5 DEF Flow!UnionValidate, Flow!config
    <3>2. QED
      BY <3>1 DEF Evened
  <2>6. CASE Flow!Balance
    BY <2>6, EvenedBalances
  <2>7. CASE Flow!Reorder
    BY <2>7, EvenedReorders
  <2>8. CASE Flow!LaunchReward
    BY <1>2, <2>8 DEF Flow!LaunchReward, Flow!config
  <2>9. CASE Flow!OptimizerStep
    BY <1>2, <2>9 DEF Flow!OptimizerStep, Flow!config
  <2>10. ASSUME NEW name, NEW values, bColumns' = Flow!With(name, values),
                name # "responses", UNCHANGED <<bKind, bSp>>,
                bPc \in {"call", "advantage"}, bPc' \in {"call", "advantage", "update"}
         PROVE  Evened'
    <3>1. "responses" \in DOMAIN bColumns
      BY <2>10 DEF FlowInv, FlowTyped, Batched
    <3>2. bColumns'["responses"] = bColumns["responses"]
      BY <2>10, <3>1 DEF Flow!With
    <3>3. Flow!Samples' = Flow!Samples
      BY <3>2 DEF Flow!Samples
    <3>4. QED
      BY <2>10, <3>3, EvenedKept
  <2>11. CASE Flow!CallReturns
    <3>1. /\ bPc = "call" /\ bColumns' = Flow!With(Calls[bCall], Flow!Collected)
          /\ bPc' \in {"call", "advantage"} /\ UNCHANGED <<bKind, bSp>>
      BY <2>11 DEF Flow!CallReturns, Flow!config
    <3>2. Calls[bCall] # "responses"
      <4>1. bCall \in 1 .. Len(Calls)
        BY DEF FlowInv, FlowTyped
      <4>2. Calls \in Seq(STRING \ {"uid", "responses", "advantages"})
        BY FlowConstants
      <4>3. QED
        BY <4>1, <4>2
    <3>3. QED
      BY <2>10, <3>1, <3>2
  <2>12. CASE Flow!Advantage
    <3>1. \E values : bColumns' = Flow!With("advantages", values)
      BY <2>12 DEF Flow!Advantage
    <3>2. bPc = "advantage" /\ bPc' = "update" /\ UNCHANGED <<bKind, bSp>>
      BY <2>12 DEF Flow!Advantage, Flow!config
    <3>3. "advantages" # "responses"
      OBVIOUS
    <3>4. QED
      BY <2>10, <3>1, <3>2, <3>3
  <2>13. CASE Flow!Driver
    BY <2>4, <2>5, <2>6, <2>7, <2>8, <2>9, <2>11, <2>12, <2>13 DEF Flow!Driver
  <2>14. QED
    BY <1>4, <2>1, <2>2, <2>3, <2>13 DEF Flow!Next
<1>5. QED
  BY <1>3, <1>4 DEF Job

\* From balancing on, whatever the lengths, the ranks and the size of their
\* sequence-parallel groups, the tokens of two ranks differ by no more than two
\* samples do, for each worker of a rank (_balance_batch, ray_trainer.py:1022).
THEOREM RanksStayBalanced == MCSpec => []RanksBalanced
<1>1. MCInit => Evened
  BY DEF MCInit, Flow!Init, Evened
<1>2. FlowInv /\ Evened /\ [MCNext]_MCVars => Evened'
  <2>1. [MCNext]_MCVars => [Job(Flow!Next)]_bVars
    BY DEF MCNext, MCVars, Gpu, Reward, Driving, Controlling, bVars
  <2>2. QED
    BY <2>1, EvenedNext
<1>3. FlowInv /\ Evened => RanksBalanced
  BY EvenedRanks
<1>4. QED
  BY <1>1, <1>2, <1>3, FlowAlways, PTL DEF MCSpec

------------------------------------------------------------------------------
(* The collectives of a step: why no rank waits in one for ever.           *)

Prepared(r) == bRowOrder[r] # <<>>

\* Ranks that have their micro-batches have equally many ahead; as long as one
\* has none yet, they are as many as there were.
Meeting ==
  /\ bRowOrder = [r \in Flow!Ranks |-> bRowOrder[r]]
  /\ bLeft = [r \in Flow!Ranks |-> bLeft[r]]
  /\ bEntered \subseteq Flow!Ranks
  /\ \A r \in Flow!Ranks : ~ Prepared(r) => bLeft[r] = 0
  /\ \A r \in bEntered : bLeft[r] > 0
  /\ \A q, r \in Flow!Ranks : Prepared(q) /\ Prepared(r) => bLeft[q] = bLeft[r]
  /\ \A q, r \in Flow!Ranks :
       ~ Prepared(r) /\ Prepared(q) => bLeft[q] = Flow!MicroCount(q)

\* Whether batches are dynamic or not, the ranks agree on the number of
\* micro-batches.
LEMMA AgreedCount ==
  ASSUME FlowInv, bPc \in {"call", "update"}, NEW q \in Flow!Ranks, NEW r \in Flow!Ranks
  PROVE  Flow!MicroCount(q) = Flow!MicroCount(r)
<1>1. CASE bDynamic
  BY <1>1, Zenon DEF Flow!MicroCount
<1>2. CASE ~ bDynamic
  <2>1. Len(Flow!Work(q)) = Len(Flow!Work(r))
    <3>1. bSp \in SpSizes /\ TrueBatch(Flow!Samples)
      BY WorkIs
    <3>2. CASE bPc = "call"
      <4>1. Flow!Work(q) = Flow!Shard(q) /\ Flow!Work(r) = Flow!Shard(r)
        BY <3>2 DEF Flow!Work
      <4>2. QED
        BY <3>1, <4>1, ShardIs
    <3>3. CASE bPc = "update"
      <4> DEFINE lo == (bMini - 1) * Flow!MiniSize
                 hi == IF bMini * Flow!MiniSize < ShardSize THEN bMini * Flow!MiniSize
                       ELSE ShardSize
      <4>1. Len(Flow!Work(q)) = hi - lo /\ Len(Flow!Work(r)) = hi - lo
        BY <3>3, WorkIs
      <4> HIDE DEF lo, hi
      <4>2. QED
        BY <4>1
    <3>4. QED
      BY <3>2, <3>3
  <2>2. QED
    BY <1>2, <2>1, Zenon DEF Flow!MicroCount, Flow!Splits
<1>3. QED
  BY <1>1, <1>2

\* The number stays while the work does.
LEMMA CountStays ==
  ASSUME UNCHANGED <<bPc, bSp, bDynamic, bColumns, bMini>>, NEW r
  PROVE  Flow!MicroCount(r)' = Flow!MicroCount(r)
<1>1. Flow!Ranks' = Flow!Ranks /\ \A q : Flow!Work(q)' = Flow!Work(q)
  BY DEF Flow!Ranks, Flow!Dp, Flow!Work, Flow!Shard, Flow!MiniSize
<1>2. ASSUME NEW q
      PROVE  Flow!LocalCount(q)' = Flow!LocalCount(q)
  <2>1. Flow!Work(q)' = Flow!Work(q) /\ bSp' = bSp
    BY <1>1
  <2>2. Flow!Tokens(Flow!Work(q))' = Flow!Tokens(Flow!Work(q))
    BY <2>1
  <2>3. Flow!CeilDiv(Flow!Tokens(Flow!Work(q)), MaxTokens * bSp)'
          = Flow!CeilDiv(Flow!Tokens(Flow!Work(q)), MaxTokens * bSp)
    BY <2>1, <2>2
  <2>4. QED
    BY <2>1, <2>3 DEF Flow!LocalCount
<1>3. Flow!LargestCount' = Flow!LargestCount
  BY <1>1, <1>2 DEF Flow!LargestCount
<1>4. Flow!Splits(Flow!Work(r), MicroSize)' = Flow!Splits(Flow!Work(r), MicroSize)
  BY <1>1
<1>5. QED
  BY <1>3, <1>4 DEF Flow!MicroCount

\* It is there at first, ...
LEMMA MeetingInitially == Flow!Init => Meeting
<1> SUFFICES ASSUME Flow!Init PROVE Meeting
  OBVIOUS
<1>1. /\ bRowOrder = [r \in Flow!Ranks |-> <<>>] /\ bLeft = [r \in Flow!Ranks |-> 0]
      /\ bEntered = {}
  BY DEF Flow!Init
<1>2. QED
  BY <1>1, Zenon DEF Meeting, Prepared

\* ... after a step of the driver that no rank takes part in, ...
LEMMA MeetingKept ==
  ASSUME Meeting, bSp' = bSp, UNCHANGED <<bRowOrder, bLeft, bEntered>>,
         \/ \A r \in Flow!Ranks : ~ Prepared(r)
         \/ UNCHANGED <<bPc, bDynamic, bColumns, bMini>>
  PROVE  Meeting'
<1>1. Flow!Ranks' = Flow!Ranks
  BY DEF Flow!Ranks, Flow!Dp
<1>2. \A r \in Flow!Ranks : Prepared(r)' <=> Prepared(r)
  BY DEF Prepared
<1>3. ASSUME NEW q \in Flow!Ranks, NEW r \in Flow!Ranks, ~ Prepared(r), Prepared(q)
      PROVE  bLeft[q] = Flow!MicroCount(q)'
  <2>1. bLeft[q] = Flow!MicroCount(q)
    BY <1>3 DEF Meeting
  <2>2. QED
    BY <1>3, <2>1, CountStays
<1>4. QED
  BY <1>1, <1>2, <1>3, Zenon DEF Meeting

\* ... after a rank has made its micro-batches, ...
LEMMA MeetingPrepares ==
  ASSUME FlowInv, Meeting, NEW r \in Flow!Ranks, Flow!Prepare(r)
  PROVE  Meeting'
<1>1. /\ bPc \in {"call", "update"} /\ bRowOrder[r] = <<>>
      /\ UNCHANGED <<bPc, bSp, bDynamic, bColumns, bMini, bEntered>>
      /\ bLeft' = [bLeft EXCEPT ![r] = Flow!MicroCount(r)]
  BY DEF Flow!Prepare, Flow!config, Flow!steps
<1>2. PICK n : \E f \in Flow!Partitions(Flow!Work(r), n) :
                 bRowOrder' = [bRowOrder EXCEPT ![r] = Flow!Flattened(f)]
  BY DEF Flow!Prepare
<1>3. PICK f \in Flow!Partitions(Flow!Work(r), n) :
        bRowOrder' = [bRowOrder EXCEPT ![r] = Flow!Flattened(f)]
  BY <1>2
<1>4. Flow!Flattened(f) # <<>>
  <2> DEFINE W == Flow!Work(r)
  <2>1. Len(W) \in Nat \ {0}
    <3>1. bSp \in SpSizes /\ TrueBatch(Flow!Samples) /\ W \in Seq(Sample)
      BY <1>1, WorkIs
    <3>2. CASE bPc = "call"
      <4>1. W = Flow!Shard(r)
        BY <3>2 DEF Flow!Work
      <4>2. QED
        BY <3>1, <4>1, ShardIs, ShardsDivide
    <3>3. CASE bPc = "update"
      <4> DEFINE lo == (bMini - 1) * Flow!MiniSize
                 hi == IF bMini * Flow!MiniSize < ShardSize THEN bMini * Flow!MiniSize
                       ELSE ShardSize
      <4>1. Len(W) = hi - lo /\ lo \in Nat /\ hi \in Nat /\ lo < hi
        BY <3>3, WorkIs
      <4> HIDE DEF lo, hi, W
      <4>2. QED
        BY <4>1
    <3>4. QED
      BY <1>1, <3>2, <3>3
  <2> HIDE DEF W
  <2>2. DOMAIN f = 1 .. Len(W)
    BY <1>3 DEF Flow!Partitions, W
  <2>3. Len(f) = Len(W)
    <3>1. f = [i \in 1 .. Len(W) |-> f[i]]
      BY <1>3 DEF Flow!Partitions, W
    <3>2. QED
      BY <2>1, <3>1
  <2>4. 1 \in DOMAIN Flow!Flattened(f)
    BY <2>1, <2>3 DEF Flow!Flattened
  <2>5. QED
    BY <2>4
<1>5. Flow!Ranks' = Flow!Ranks /\ \A q : Flow!MicroCount(q)' = Flow!MicroCount(q)
  BY <1>1, CountStays DEF Flow!Ranks, Flow!Dp
<1>6. /\ bRowOrder' = [q \in Flow!Ranks |-> bRowOrder'[q]]
      /\ bLeft' = [q \in Flow!Ranks |-> bLeft'[q]]
      /\ bRowOrder'[r] # <<>> /\ bLeft'[r] = Flow!MicroCount(r)
      /\ \A q \in Flow!Ranks : q # r => bRowOrder'[q] = bRowOrder[q] /\ bLeft'[q] = bLeft[q]
  <2>1. /\ bRowOrder = [q \in Flow!Ranks |-> bRowOrder[q]]
        /\ bLeft = [q \in Flow!Ranks |-> bLeft[q]]
    BY DEF Meeting
  <2>2. QED
    BY <1>1, <1>3, <1>4, <2>1
<1>7. r \notin bEntered
  <2>1. bLeft[r] = 0
    BY <1>1 DEF Meeting, Prepared
  <2>2. QED
    BY <2>1 DEF Meeting
<1>8. \A q \in Flow!Ranks : Prepared(q)' /\ q # r => Prepared(q) /\ bLeft'[q] = Flow!MicroCount(q)
  BY <1>1, <1>6 DEF Meeting, Prepared
<1>9. \A q \in Flow!Ranks : Prepared(q)' => bLeft'[q] = Flow!MicroCount(q)
  BY <1>6, <1>8
<1>10. \A q, s \in Flow!Ranks : Prepared(q)' /\ Prepared(s)' => bLeft'[q] = bLeft'[s]
  BY <1>1, <1>9, AgreedCount
<1>11. \A q \in Flow!Ranks : ~ Prepared(q)' => bLeft'[q] = 0
  BY <1>6 DEF Meeting, Prepared
<1>12. bEntered' \subseteq Flow!Ranks /\ \A q \in bEntered' : bLeft'[q] > 0
  BY <1>1, <1>6, <1>7 DEF Meeting
<1>13. QED
  BY <1>5, <1>6, <1>9, <1>10, <1>11, <1>12, Zenon DEF Meeting

\* ... after it has entered a forward pass, or let all of them through, ...
LEMMA MeetingForward ==
  ASSUME Meeting, NEW r \in Flow!Ranks, Flow!Forward(r)
  PROVE  Meeting'
<1>1. /\ bLeft[r] > 0
      /\ UNCHANGED <<bPc, bSp, bDynamic, bColumns, bMini, bRowOrder>>
      /\ \/ /\ bEntered \cup {r} = Flow!Ranks /\ bEntered' = {}
            /\ bLeft' = [q \in Flow!Ranks |-> bLeft[q] - 1]
         \/ bEntered' = bEntered \cup {r} /\ UNCHANGED bLeft
  BY DEF Flow!Forward, Flow!config, Flow!steps
<1>2. /\ Flow!Ranks' = Flow!Ranks
      /\ \A q : Flow!MicroCount(q)' = Flow!MicroCount(q)
      /\ \A q : Prepared(q)' <=> Prepared(q)
  BY <1>1, CountStays DEF Flow!Ranks, Flow!Dp, Prepared
<1>3. CASE /\ bEntered \cup {r} = Flow!Ranks /\ bEntered' = {}
           /\ bLeft' = [q \in Flow!Ranks |-> bLeft[q] - 1]
  <2>1. \A q \in Flow!Ranks : bLeft[q] > 0
    BY <1>1, <1>3 DEF Meeting
  <2>2. \A q \in Flow!Ranks : Prepared(q)
    BY <2>1 DEF Meeting
  <2>3. \A q, s \in Flow!Ranks : bLeft'[q] = bLeft'[s]
    BY <1>3, <2>2 DEF Meeting
  <2>4. /\ bLeft' = [q \in Flow!Ranks |-> bLeft'[q]]
        /\ bRowOrder' = [q \in Flow!Ranks |-> bRowOrder'[q]]
    BY <1>1, <1>3 DEF Meeting
  <2>5. QED
    <3>1. /\ bEntered' \subseteq Flow!Ranks /\ \A q \in bEntered' : bLeft'[q] > 0
          /\ \A q \in Flow!Ranks : Prepared(q)'
      BY <1>2, <1>3, <2>2
    <3>2. QED
      BY <1>2, <2>3, <2>4, <3>1, Zenon DEF Meeting
<1>4. CASE bEntered' = bEntered \cup {r} /\ UNCHANGED bLeft
  <2>1. bEntered' \subseteq Flow!Ranks /\ \A q \in bEntered' : bLeft'[q] > 0
    BY <1>1, <1>4 DEF Meeting
  <2>2. QED
    BY <1>1, <1>2, <1>4, <2>1, Zenon DEF Meeting
<1>5. QED
  BY <1>1, <1>3, <1>4

\* ... and after all ranks have left the call, or the mini-batch.
LEMMA MeetingEnds ==
  ASSUME Meeting, Flow!Through, bSp' = bSp, bRowOrder' = [r \in Flow!Ranks |-> <<>>],
         UNCHANGED <<bLeft, bEntered>>
  PROVE  Meeting'
<1>1. Flow!Ranks' = Flow!Ranks
  BY DEF Flow!Ranks, Flow!Dp
<1>2. \A r \in Flow!Ranks : bLeft[r] = 0 /\ ~ (bLeft[r] > 0)
  BY DEF Flow!Through
<1>3. bEntered = {}
  BY <1>2 DEF Meeting
<1>4. \A r \in Flow!Ranks : ~ Prepared(r)'
  BY DEF Prepared
<1>5. bRowOrder' = [r \in Flow!Ranks |-> bRowOrder'[r]]
  OBVIOUS
<1>6. QED
  BY <1>1, <1>2, <1>3, <1>4, <1>5, Zenon DEF Meeting

\* Every step of the batch keeps it.
LEMMA MeetingNext == FlowInv /\ Meeting /\ [Job(Flow!Next)]_bVars => Meeting'
<1> SUFFICES ASSUME FlowInv, Meeting, [Job(Flow!Next)]_bVars PROVE Meeting'
  OBVIOUS
<1>1. ASSUME UNCHANGED <<bPc, bSp, bDynamic, bColumns, bMini, bRowOrder, bLeft, bEntered>>
      PROVE  Meeting'
  BY <1>1, MeetingKept
<1>2. ASSUME bPc \notin {"call", "update"}, bSp' = bSp,
             UNCHANGED <<bRowOrder, bLeft, bEntered>>
      PROVE  Meeting'
  <2>1. \A r \in Flow!Ranks : ~ Prepared(r)
    BY <1>2 DEF FlowInv, Microed, Prepared
  <2>2. QED
    BY <1>2, <2>1, MeetingKept
<1>3. CASE UNCHANGED bVars
  BY <1>1, <1>3 DEF bVars
<1>4. CASE Flow!Next
  <2>1. CASE Flow!Poll \/ Flow!Over \/ Flow!RewardDone
    BY <1>1, <2>1 DEF Flow!Poll, Flow!Over, Flow!RewardDone, Flow!vars, Flow!config,
       Flow!ranksRun, Flow!steps
  <2>2. ASSUME NEW w \in 1 .. AgentWorkers, Flow!Answer(w) PROVE Meeting'
    BY <1>1, <2>2 DEF Flow!Answer, Flow!config, Flow!ranksRun, Flow!steps
  <2>3. ASSUME NEW r \in Flow!Ranks, Flow!Forward(r) PROVE Meeting'
    BY <2>3, MeetingForward
  <2>4. ASSUME NEW r \in Flow!Ranks, Flow!Prepare(r) PROVE Meeting'
    BY <2>4, MeetingPrepares
  <2>5. CASE Flow!UnionTrain \/ Flow!UnionValidate
    BY <1>2, <2>5
    DEF Flow!UnionTrain, Flow!UnionValidate, Flow!Generated, Flow!config, Flow!ranksRun
  <2>6. CASE Flow!Balance \/ Flow!Reorder \/ Flow!LaunchReward \/ Flow!Advantage
    BY <1>2, <2>6
    DEF Flow!Balance, Flow!Reorder, Flow!LaunchReward, Flow!Advantage, Flow!config,
        Flow!ranksRun
  <2>7. CASE Flow!CallReturns
    BY <2>7, MeetingEnds DEF Flow!CallReturns, Flow!config
  <2>8. CASE Flow!OptimizerStep
    BY <2>8, MeetingEnds DEF Flow!OptimizerStep, Flow!config
  <2>9. QED
    BY <1>4, <2>1, <2>2, <2>3, <2>4, <2>5, <2>6, <2>7, <2>8 DEF Flow!Next, Flow!Driver
<1>5. QED
  BY <1>3, <1>4 DEF Job

\* Whatever the batch, its lengths, the ranks and the kind of micro-batches: for a
\* rank that waits in a forward pass every other rank has as many passes ahead as
\* it has, or will have, so that the collectives of a step match
\* (rearrange_micro_batches, seqlen_balancing.py).
THEOREM CollectivesMatch == MCSpec => []Flow!RanksMeet
<1>1. MCInit => Meeting
  BY MeetingInitially DEF MCInit
<1>2. FlowInv /\ Meeting /\ [MCNext]_MCVars => Meeting'
  <2>1. [MCNext]_MCVars => [Job(Flow!Next)]_bVars
    BY DEF MCNext, MCVars, Gpu, Reward, Driving, Controlling, bVars
  <2>2. QED
    BY <2>1, MeetingNext
<1>3. FlowInv /\ Meeting => Flow!RanksMeet
  <2> SUFFICES ASSUME FlowInv, Meeting, NEW q \in bEntered, NEW r \in Flow!Ranks
               PROVE  /\ bPc \in {"call", "update"} /\ bLeft[q] > 0
                      /\ bLeft[q] = IF bRowOrder[r] = <<>> THEN Flow!MicroCount(r)
                                    ELSE bLeft[r]
    BY DEF Flow!RanksMeet
  <2>1. q \in Flow!Ranks /\ bLeft[q] > 0
    BY DEF Meeting
  <2>2. Prepared(q)
    BY <2>1 DEF Meeting
  <2>3. bPc \in {"call", "update"}
    BY <2>1, <2>2 DEF FlowInv, Microed, Prepared
  <2>4. CASE bRowOrder[r] = <<>>
    <3>1. bLeft[q] = Flow!MicroCount(q)
      BY <2>1, <2>2, <2>4 DEF Meeting, Prepared
    <3>2. Flow!MicroCount(q) = Flow!MicroCount(r)
      BY <2>1, <2>3, AgreedCount
    <3>3. QED
      BY <2>1, <2>3, <2>4, <3>1, <3>2
  <2>5. CASE bRowOrder[r] # <<>>
    <3>1. bLeft[q] = bLeft[r]
      BY <2>1, <2>2, <2>5 DEF Meeting, Prepared
    <3>2. QED
      BY <2>1, <2>3, <2>5, <3>1
  <2>6. QED
    BY <2>4, <2>5
<1>4. QED
  BY <1>1, <1>2, <1>3, FlowAlways, PTL DEF MCSpec


==============================================================================

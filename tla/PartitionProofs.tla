--------------------------- MODULE PartitionProofs ----------------------------
(***************************************************************************)
(* Proofs about how a batch is cut up and put together again.              *)
(*                                                                         *)
(* The operations of DataProto, for columns of any length: dynamic         *)
(* batching loses no row and restores the order, padding is undone and     *)
(* divides, and the parts of a batch hold all of it.                       *)
(*                                                                         *)
(* The Karmarkar-Karp partition, for any number of sequences, parts and    *)
(* lengths: the two assertions of the code never fail, nothing is assigned *)
(* twice, and the parts are as even as the code says.  A merge keeps every *)
(* state in decreasing order, which is what keeps its spread bounded and,  *)
(* where sizes may differ, its empty parts at the end.                     *)
(***************************************************************************)
EXTENDS DataProto, KarmarkarKarp, SequenceTheorems, Lemmas

------------------------------------------------------------------------------
(* Index maps.                                                             *)

\* The order in which a partition puts its rows: by part, then as they were.
ByPart(part, n) ==
  {p \in (1 .. n) \X (1 .. n) : \/ part[p[1]] < part[p[2]]
                                \/ part[p[1]] = part[p[2]] /\ p[1] <= p[2]}

\* The index map names every row once, at its place.
LEMMA FlattenedPlaces ==
  ASSUME NEW n \in Nat, NEW part \in [1 .. n -> Int]
  PROVE  /\ NamesOnce(Flattened(part), n)
         /\ \A k \in 1 .. n : Place(part, Flattened(part)[k]) = k
<1> DEFINE D == 1 .. n
           R == ByPart(part, n)
           f == Flattened(part)
           pos == RanksIn(R, n)
<1>1. DOMAIN part = D /\ Len(part) = n /\ \A i \in D : part[i] \in Int
  OBVIOUS
<1>2. \A i, j \in D : <<i, j>> \in R <=> part[i] < part[j] \/ (part[i] = part[j] /\ i <= j)
  BY DEF ByPart
<1>3. \A i \in D : Place(part, i) = Cardinality({j \in D : <<j, i>> \in R})
  <2>1. ASSUME NEW i \in D
        PROVE  {j \in D : part[j] < part[i] \/ (part[j] = part[i] /\ j <= i)}
                 = {j \in D : <<j, i>> \in R}
    BY <1>2
  <2>2. QED
    BY <1>1, <2>1 DEF Place
<1> HIDE DEF R
<1>4. Orders(R, n)
  <2>1. \A i \in D : <<i, i>> \in R
    BY <1>2
  <2>2. \A i, j \in D : <<i, j>> \in R \/ <<j, i>> \in R
    <3>1. SUFFICES ASSUME NEW i \in D, NEW j \in D
                   PROVE  <<i, j>> \in R \/ <<j, i>> \in R
      OBVIOUS
    <3>2. part[i] \in Int /\ part[j] \in Int
      BY <1>1
    <3>3. part[i] < part[j] \/ part[j] < part[i] \/ (part[i] = part[j] /\ (i <= j \/ j <= i))
      BY <3>2
    <3>4. QED
      BY <1>2, <3>3
  <2>3. \A i, j \in D : <<i, j>> \in R /\ <<j, i>> \in R => i = j
    BY <1>1, <1>2, SMTT(30)
  <2>4. \A i, j, k \in D : <<i, j>> \in R /\ <<j, k>> \in R => <<i, k>> \in R
    <3>1. SUFFICES ASSUME NEW i \in D, NEW j \in D, NEW k \in D,
                          <<i, j>> \in R, <<j, k>> \in R
                   PROVE  part[i] < part[k] \/ (part[i] = part[k] /\ i <= k)
      BY <1>2
    <3>2. part[i] < part[j] \/ (part[i] = part[j] /\ i <= j)
      BY <1>2, <3>1
    <3>3. part[j] < part[k] \/ (part[j] = part[k] /\ j <= k)
      BY <1>2, <3>1
    <3>4. part[i] \in Int /\ part[j] \in Int /\ part[k] \in Int
      BY <1>1
    <3>5. QED
      BY <3>2, <3>3, <3>4
  <2>5. QED
    BY <2>1, <2>2, <2>3, <2>4, Zenon DEF Orders
<1>p. pos = [i \in D |-> Cardinality({j \in D : <<j, i>> \in R})]
  BY DEF RanksIn
<1>r. pos = RanksIn(R, n)
  OBVIOUS
<1> HIDE DEF pos
<1>5. /\ pos \in [D -> D]
      /\ \A i, j \in D : pos[i] = pos[j] => i = j
      /\ \A k \in D : \E i \in D : pos[i] = k
  <2>1. NamesOnce(pos, n)
    BY <1>4, <1>r, Ranking
  <2>2. QED
    BY <2>1, Zenon DEF NamesOnce
<1>q. \A i \in D : Place(part, i) = pos[i]
  BY <1>3, <1>p
<1>6. f = [k \in D |-> CHOOSE i \in D : Place(part, i) = k]
  BY <1>1 DEF Flattened
<1> HIDE DEF D, f
<1>7. \A k \in D : f[k] \in D /\ pos[f[k]] = k
  <2>1. SUFFICES ASSUME NEW k \in D PROVE f[k] \in D /\ pos[f[k]] = k
    OBVIOUS
  <2>2. \E i \in D : Place(part, i) = k
    BY <1>q, <1>5
  <2>3. f[k] \in D /\ Place(part, f[k]) = k
    BY <1>6, <2>2
  <2>4. QED
    BY <1>q, <2>3
<1>8. f \in [D -> D]
  BY <1>6, <1>7
<1>9. \A k, l \in D : f[k] = f[l] => k = l
  BY <1>7
<1>10. \A i \in D : \E k \in D : f[k] = i
  BY <1>5, <1>7
<1>11. \A k \in D : Place(part, f[k]) = k
  BY <1>q, <1>7
<1>12. QED
  BY <1>8, <1>9, <1>10, <1>11 DEF NamesOnce, D, f

\* However rows are partitioned (seqlen_balancing.py:178, 340), the index map
\* that goes through the parts names every row once: none is lost or doubled.
THEOREM FlattenedNamesOnce ==
  ASSUME NEW n \in Nat, NEW part \in [1 .. n -> Int]
  PROVE  NamesOnce(Flattened(part), n)
BY FlattenedPlaces

\* restore_dynamic_batch (seqlen_balancing.py:362) puts every row where it was.
THEOREM RestoreUndoes ==
  ASSUME NEW n \in Nat, NEW S, NEW s \in Seq(S), Len(s) = n,
         NEW idx, NamesOnce(idx, n)
  PROVE  Restored(Reordered(s, idx), idx) = s
<1> DEFINE D == 1 .. n
           rev == ReverseIdx(idx)
           t == Reordered(s, idx)
<1>1. /\ idx \in [D -> D] /\ DOMAIN idx = D /\ Len(idx) = n
      /\ \A k \in D : idx[k] \in D
      /\ \A k, l \in D : idx[k] = idx[l] => k = l
      /\ \A i \in D : \E k \in D : idx[k] = i
  <2>1. idx \in [D -> D]
    BY Zenon DEF NamesOnce
  <2>2. DOMAIN idx = D /\ Len(idx) = n /\ \A k \in D : idx[k] \in D
    BY <2>1
  <2>3. QED
    BY <2>1, <2>2, Zenon DEF NamesOnce
<1>2. rev = [i \in D |-> CHOOSE k \in D : idx[k] = i]
  BY <1>1 DEF ReverseIdx
<1>3. t = [k \in D |-> s[idx[k]]]
  BY <1>1 DEF Reordered
<1>4. Len(rev) = n
  BY <1>2
<1>5. Restored(t, idx) = [i \in D |-> t[rev[i]]]
  BY <1>4 DEF Restored, Reordered
<1>6. s = [i \in D |-> s[i]]
  OBVIOUS
<1> HIDE DEF D, rev, t
<1>7. ASSUME NEW i \in D PROVE t[rev[i]] = s[i]
  <2>1. rev[i] \in D /\ idx[rev[i]] = i
    BY <1>1, <1>2
  <2>2. QED
    BY <1>3, <2>1
<1>8. QED
  BY <1>5, <1>6, <1>7 DEF t

\* Whatever the partition, what dynamic batching reordered it restores.
COROLLARY DynamicBatchRestored ==
  ASSUME NEW n \in Nat, NEW S, NEW s \in Seq(S), Len(s) = n, NEW part \in [1 .. n -> Int]
  PROVE  Restored(Reordered(s, Flattened(part)), Flattened(part)) = s
<1>1. NamesOnce(Flattened(part), n)
  BY FlattenedNamesOnce
<1>2. QED
  BY <1>1, RestoreUndoes

------------------------------------------------------------------------------
(* Padding.                                                                *)

\* What division promises.
LEMMA Remainder ==
  ASSUME NEW n \in Nat, NEW d \in Nat \ {0}
  PROVE  n % d \in 0 .. d - 1 /\ n = d * (n \div d) + (n % d) /\ n \div d \in Nat
BY SMTT(30)

\* The rows that pad a batch are rows of it.
LEMMA PaddingRows ==
  ASSUME NEW S, NEW s \in Seq(S), NEW d \in Nat \ {0},
         NEW b, b = [k \in 1 .. PadSize(s, d) |-> s[((k - 1) % Len(s)) + 1]]
  PROVE  b \in Seq(S) /\ Len(b) = PadSize(s, d) /\ PadSize(s, d) \in Nat
<1> DEFINE n == Len(s)
           p == PadSize(s, d)
<1>1. n \in Nat /\ n % d \in 0 .. d - 1 /\ (n = 0 => n % d = 0)
  <2>1. n \in Nat
    OBVIOUS
  <2> HIDE DEF n
  <2>2. n % d \in 0 .. d - 1
    BY <2>1, Remainder
  <2>3. n = 0 => n % d = 0
    BY SMTT(30)
  <2>4. QED
    BY <2>1, <2>2, <2>3
<1>2. p \in Nat /\ (n = 0 => p = 0)
  BY <1>1 DEF PadSize
<1>3. \A i \in 1 .. n : s[i] \in S
  OBVIOUS
<1>4. b = [k \in 1 .. p |-> s[((k - 1) % n) + 1]]
  OBVIOUS
<1> HIDE DEF n, p
<1>5. ASSUME NEW k \in 1 .. p PROVE s[((k - 1) % n) + 1] \in S
  <2>1. k - 1 \in Nat /\ n \in Nat \ {0}
    BY <1>1, <1>2
  <2>2. (k - 1) % n \in 0 .. n - 1
    BY <2>1, Remainder
  <2>3. QED
    BY <1>3, <2>1, <2>2
<1>6. b \in Seq(S) /\ Len(b) = p
  <2>1. [k \in 1 .. p |-> s[((k - 1) % n) + 1]] \in Seq(S)
    BY <1>2, <1>5, IsASeq
  <2>2. Len([k \in 1 .. p |-> s[((k - 1) % n) + 1]]) = p
    BY <1>2
  <2>3. QED
    BY <1>4, <2>1, <2>2
<1>7. QED
  BY <1>2, <1>6 DEF p

\* unpad_dataproto (protocol.py:98) gives back the batch that was padded.
THEOREM UnpadUndoes ==
  ASSUME NEW S, NEW s \in Seq(S), NEW d \in Nat \ {0}
  PROVE  Unpadded(Padded(s, d), PadSize(s, d)) = s
<1> DEFINE b == [k \in 1 .. PadSize(s, d) |-> s[((k - 1) % Len(s)) + 1]]
           p == PadSize(s, d)
           t == s \o b
           u == SubSeq(t, 1, Len(t) - p)
<1>1. b \in Seq(S) /\ Len(b) = p /\ p \in Nat
  BY PaddingRows
<1>2. Padded(s, d) = t
  BY DEF Padded
<1> HIDE DEF b, p
<1>3. t \in Seq(S) /\ Len(t) = Len(s) + Len(b)
  BY <1>1, ConcatProperties
<1>4. \A i \in 1 .. Len(s) : t[i] = s[i]
  <2>1. \A i \in 1 .. Len(s) + Len(b) : t[i] = IF i <= Len(s) THEN s[i] ELSE b[i - Len(s)]
    BY <1>1, ConcatProperties
  <2>2. QED
    BY <1>1, <2>1
<1> HIDE DEF t
<1>5. Len(t) - p = Len(s) /\ Len(s) \in Nat /\ Len(s) <= Len(t)
  BY <1>1, <1>3
<1>6. u \in Seq(S) /\ Len(u) = Len(s) /\ \A i \in 1 .. Len(s) : u[i] = t[i]
  BY <1>3, <1>5, SubSeqProperties
<1>7. Unpadded(Padded(s, d), p) = u
  BY <1>2 DEF Unpadded
<1> HIDE DEF u
<1>8. u = s
  BY <1>4, <1>6, SeqEqual
<1>9. QED
  BY <1>7, <1>8 DEF p

\* A padded batch begins with the batch.
LEMMA PaddedRows ==
  ASSUME NEW S, NEW s \in Seq(S), NEW d \in Nat \ {0}
  PROVE  /\ Padded(s, d) \in Seq(S) /\ PadSize(s, d) \in Nat
         /\ Len(Padded(s, d)) = Len(s) + PadSize(s, d)
         /\ \A i \in 1 .. Len(s) : Padded(s, d)[i] = s[i]
<1> DEFINE b == [k \in 1 .. PadSize(s, d) |-> s[((k - 1) % Len(s)) + 1]]
<1>1. b \in Seq(S) /\ Len(b) = PadSize(s, d) /\ PadSize(s, d) \in Nat
  BY PaddingRows
<1>2. Padded(s, d) = s \o b
  BY DEF Padded
<1> HIDE DEF b
<1>3. /\ s \o b \in Seq(S) /\ Len(s \o b) = Len(s) + Len(b)
      /\ \A i \in 1 .. Len(s) + Len(b) : (s \o b)[i] = IF i <= Len(s) THEN s[i] ELSE b[i - Len(s)]
  BY <1>1, ConcatProperties
<1>4. QED
  BY <1>1, <1>2, <1>3

\* The row alone.
LEMMA PaddedRow ==
  ASSUME NEW S, NEW s \in Seq(S), NEW d \in Nat \ {0}, NEW i \in 1 .. Len(s)
  PROVE  Padded(s, d)[i] = s[i]
BY PaddedRows

\* A padded batch can be chunked to its workers (protocol.py:70).
THEOREM PaddedDivides ==
  ASSUME NEW S, NEW s \in Seq(S), NEW d \in Nat \ {0}
  PROVE  Len(Padded(s, d)) % d = 0
<1> DEFINE n == Len(s)
           b == [k \in 1 .. PadSize(s, d) |-> s[((k - 1) % Len(s)) + 1]]
           p == PadSize(s, d)
           q == n \div d
<1>1. b \in Seq(S) /\ Len(b) = p /\ p \in Nat
  BY PaddingRows
<1>2. Padded(s, d) = s \o b
  BY DEF Padded
<1>3. p = IF n % d = 0 THEN 0 ELSE d - (n % d)
  BY DEF PadSize
<1> HIDE DEF b, p
<1>4. Len(s \o b) = n + p
  BY <1>1, ConcatProperties
<1>5. n \in Nat /\ n % d \in 0 .. d - 1 /\ n = d * q + (n % d) /\ q \in Nat
  <2>1. n \in Nat
    OBVIOUS
  <2> HIDE DEF n
  <2>2. QED
    BY <2>1, Remainder
<1> HIDE DEF n, q
<1>6. CASE n % d = 0
  BY <1>2, <1>3, <1>4, <1>5, <1>6
<1>7. CASE n % d # 0
  <2>1. n + p = d * q + d
    <3> DEFINE a == d * q
               r == n % d
    <3>1. a \in Int /\ r \in Int /\ n = a + r /\ p = d - r
      BY <1>3, <1>5, <1>7
    <3> HIDE DEF a, r
    <3>2. n + p = a + d
      BY <3>1
    <3>3. QED
      BY <3>2 DEF a
  <2>2. d * q + d = (q + 1) * d /\ q + 1 \in Nat
    BY <1>5, SMTT(30)
  <2>3. ((q + 1) * d) % d = 0
    BY <2>2, Multiple
  <2>4. QED
    BY <1>2, <1>4, <2>1, <2>2, <2>3
<1>8. QED
  BY <1>6, <1>7

------------------------------------------------------------------------------
(* Parts of a batch.                                                       *)

\* Where row j of part c is, if all parts have that size.
RowAt(c, size, j) == (c - 1) * size + j

\* How many rows n such parts have.
Total(n, size) == n * size

\* A chunk and a row of it, by its place.
LEMMA ChunkAndRow ==
  ASSUME NEW S, NEW s \in Seq(S), NEW chunks \in Nat \ {0}, NEW size \in Nat \ {0},
         NEW c \in 1 .. chunks, Len(s) = Total(chunks, size), NEW j \in 1 .. size
  PROVE  /\ ChunkSize(s, chunks) = size
         /\ Chunk(s, chunks, c) \in Seq(S) /\ Len(Chunk(s, chunks, c)) = size
         /\ RowAt(c, size, j) \in 1 .. Len(s)
         /\ Chunk(s, chunks, c)[j] = s[RowAt(c, size, j)]
<1>1. ChunkSize(s, chunks) = size
  BY SMTT(30) DEF ChunkSize, Total
<1> DEFINE m == (c - 1) * size
           u == SubSeq(s, m + 1, m + size)
<1>2. m \in Nat /\ c * size = m + size /\ m + size <= Len(s)
  BY SMTT(30) DEF Total
<1>3. Chunk(s, chunks, c) = u
  BY <1>1, <1>2 DEF Chunk
<1>r. m + j \in 1 .. Len(s)
  BY <1>2
<1> HIDE DEF m
<1> DEFINE f == m + 1
           g == m + size
<1>4. /\ f \in Int /\ g \in Int /\ g - f + 1 = size /\ f <= g
      /\ \A i \in f .. g : s[i] \in S
      /\ \A i \in 1 .. size : f + i - 1 = m + i
  BY <1>2
<1>5. u = SubSeq(s, f, g)
  OBVIOUS
<1> HIDE DEF f, g, u
<1>6. /\ SubSeq(s, f, g) \in Seq(S)
      /\ Len(SubSeq(s, f, g)) = IF f <= g THEN g - f + 1 ELSE 0
      /\ \A i \in 1 .. g - f + 1 : SubSeq(s, f, g)[i] = s[f + i - 1]
  BY <1>4, SubSeqProperties
<1>7. u \in Seq(S) /\ Len(u) = size /\ \A i \in 1 .. size : u[i] = s[m + i]
  BY <1>4, <1>5, <1>6
<1>8. QED
  BY <1>1, <1>3, <1>7, <1>r DEF m, RowAt

\* A column that is cut into chunks of one size.
Cut(S, s, chunks, size) ==
  /\ s \in Seq(S) /\ chunks \in Nat \ {0} /\ size \in Nat \ {0}
  /\ Len(s) = Total(chunks, size)

LEMMA ChunkRow ==
  ASSUME NEW S, NEW s, NEW chunks, NEW size, Cut(S, s, chunks, size),
         NEW c \in 1 .. chunks, NEW j \in 1 .. size
  PROVE  RowAt(c, size, j) \in 1 .. Len(s) /\ Chunk(s, chunks, c)[j] = s[RowAt(c, size, j)]
BY ChunkAndRow DEF Cut

\* All chunks have that size.
LEMMA ChunkIs ==
  ASSUME NEW S, NEW s, NEW chunks, NEW size, Cut(S, s, chunks, size), NEW c \in 1 .. chunks
  PROVE  /\ ChunkSize(s, chunks) = size
         /\ Chunk(s, chunks, c) \in Seq(S) /\ Len(Chunk(s, chunks, c)) = size
<1>1. 1 \in 1 .. size
  BY DEF Cut
<1>2. QED
  BY <1>1, ChunkAndRow DEF Cut

\* chunk (protocol.py:752): row k is row j of chunk c, and of no other.
THEOREM ChunksHoldAll ==
  ASSUME NEW S, NEW s \in Seq(S), NEW chunks \in Nat \ {0}, NEW size \in Nat \ {0},
         Len(s) = chunks * size
  PROVE  /\ \A c \in 1 .. chunks : Len(Chunk(s, chunks, c)) = size
         /\ \A k \in 1 .. Len(s) : \E c \in 1 .. chunks, j \in 1 .. size :
              k = (c - 1) * size + j /\ Chunk(s, chunks, c)[j] = s[k]
<1>1. Cut(S, s, chunks, size)
  BY DEF Total, Cut
<1>2. ASSUME NEW c \in 1 .. chunks
      PROVE  /\ Len(Chunk(s, chunks, c)) = size
             /\ \A j \in 1 .. size : Chunk(s, chunks, c)[j] = s[(c - 1) * size + j]
  <2>1. Len(Chunk(s, chunks, c)) = size
    BY <1>1, ChunkIs
  <2>2. ASSUME NEW j \in 1 .. size
        PROVE  Chunk(s, chunks, c)[j] = s[RowAt(c, size, j)]
    BY <1>1, ChunkRow
  <2>3. QED
    BY <2>1, <2>2, Zenon DEF RowAt
<1>3. ASSUME NEW k \in 1 .. Len(s)
      PROVE  \E c \in 1 .. chunks, j \in 1 .. size : k = (c - 1) * size + j
  <2> DEFINE q == (k - 1) \div size
             r == (k - 1) % size
  <2>1. k - 1 \in Nat /\ k - 1 < Len(s)
    OBVIOUS
  <2>2. r \in 0 .. size - 1 /\ k - 1 = size * q + r /\ q \in Nat
    BY <2>1, Remainder
  <2> HIDE DEF q, r
  <2>3. q < chunks
    <3>1. SUFFICES ASSUME q >= chunks PROVE FALSE
      BY <2>2
    <3>2. size * q >= chunks * size
      BY <2>2, <3>1, SMTT(30)
    <3>3. QED
      BY <2>1, <2>2, <3>2
  <2>4. q + 1 \in 1 .. chunks /\ r + 1 \in 1 .. size
    BY <2>2, <2>3
  <2>5. k = ((q + 1) - 1) * size + (r + 1)
    BY <2>2, SMTT(30)
  <2>6. QED
    BY <2>4, <2>5
<1>4. QED
  BY <1>2, <1>3, ZenonT(30)

------------------------------------------------------------------------------
(* Putting parts together again.                                           *)

\* The recursion of Concat has one solution, the one at hand.
LEMMA ConcatIs ==
  ASSUME NEW n \in Nat, NEW parts, NEW G,
         G = [i \in 0 .. n |-> IF i = 0 THEN <<>> ELSE G[i - 1] \o parts[i]]
  PROVE  Concat(parts, n) = G[n]
<1> DEFINE Solves(F) == F = [i \in 0 .. n |-> IF i = 0 THEN <<>> ELSE F[i - 1] \o parts[i]]
           H == CHOOSE F : Solves(F)
           Off == {i \in 0 .. n : H[i] # G[i]}
<1>1. Concat(parts, n) = H[n]
  BY DEF Concat
<1>2. Solves(H)
  BY Zenon
<1> HIDE DEF H
<1>3. /\ \A i \in 0 .. n : H[i] = IF i = 0 THEN <<>> ELSE H[i - 1] \o parts[i]
      /\ \A i \in 0 .. n : G[i] = IF i = 0 THEN <<>> ELSE G[i - 1] \o parts[i]
  BY <1>2, Zenon
<1> HIDE DEF Solves
<1>4. Off = {}
  <2> SUFFICES ASSUME Off # {} PROVE FALSE
    OBVIOUS
  <2>1. Off \in SUBSET Nat
    OBVIOUS
  <2>2. PICK i \in Off : \A j \in Off : i <= j
    BY <2>1, LeastNumber
  <2>3. i \in 0 .. n /\ H[i] # G[i]
    BY <2>2
  <2>4. i # 0
    BY <1>3, <2>3
  <2>5. i - 1 \in 0 .. n /\ ~ (i <= i - 1)
    BY <2>3, <2>4
  <2>6. H[i - 1] = G[i - 1]
    BY <2>2, <2>5
  <2>7. QED
    BY <1>3, <2>3, <2>4, <2>6
<1>5. n \in 0 .. n
  OBVIOUS
<1>6. H[n] = G[n]
  BY <1>4, <1>5, Zenon
<1>7. QED
  BY <1>1, <1>6

\* A sequence that was cut, at places that never go back, is put together again.
LEMMA ConcatCuts ==
  ASSUME NEW S, NEW s \in Seq(S), NEW n \in Nat, NEW parts,
         NEW e \in [0 .. n -> 0 .. Len(s)], e[0] = 0,
         \A i \in 1 .. n : e[i - 1] <= e[i] /\ parts[i] = SubSeq(s, e[i - 1] + 1, e[i])
  PROVE  Concat(parts, n) = SubSeq(s, 1, e[n])
<1> DEFINE G == [i \in 0 .. n |-> SubSeq(s, 1, e[i])]
<1>1. SubSeq(s, 1, 0) = <<>>
  BY SubSeqEmpty
<1>2. ASSUME NEW i \in 1 .. n PROVE G[i] = G[i - 1] \o parts[i]
  <2> DEFINE k == e[i - 1]
             m == e[i]
  <2>1. i - 1 \in 0 .. n /\ i \in 0 .. n
    OBVIOUS
  <2>2. k \in 0 .. Len(s) /\ m \in 0 .. Len(s) /\ k <= m /\ parts[i] = SubSeq(s, k + 1, m)
    BY <2>1
  <2>3. G[i] = SubSeq(s, 1, m) /\ G[i - 1] = SubSeq(s, 1, k)
    BY <2>1
  <2> HIDE DEF k, m, G
  <2>4. 1 \in 1 .. Len(s) + 1 /\ k \in 1 - 1 .. Len(s) /\ m \in k .. Len(s) /\ Len(s) \in Nat
    BY <2>2
  <2>5. SubSeq(s, 1, k) \o SubSeq(s, k + 1, m) = SubSeq(s, 1, m)
    BY <2>4, ConcatAdjacentSubSeq
  <2>6. QED
    BY <2>2, <2>3, <2>5
<1>3. G = [i \in 0 .. n |-> IF i = 0 THEN <<>> ELSE G[i - 1] \o parts[i]]
  <2>1. \A i \in 0 .. n : G[i] = IF i = 0 THEN <<>> ELSE G[i - 1] \o parts[i]
    <3>1. SUFFICES ASSUME NEW i \in 0 .. n
                   PROVE  G[i] = IF i = 0 THEN <<>> ELSE G[i - 1] \o parts[i]
      OBVIOUS
    <3>2. CASE i = 0
      BY <1>1, <3>2
    <3>3. CASE i # 0
      <4>1. i \in 1 .. n
        BY <3>3
      <4> HIDE DEF G
      <4>2. QED
        BY <1>2, <3>3, <4>1
    <3>4. QED
      BY <3>2, <3>3
  <2>2. G = [i \in 0 .. n |-> G[i]]
    OBVIOUS
  <2> HIDE DEF G
  <2>3. QED
    BY <2>1, <2>2
<1>4. G[n] = SubSeq(s, 1, e[n])
  OBVIOUS
<1> HIDE DEF G
<1>5. QED
  BY <1>3, <1>4, ConcatIs, Zenon

\* Parts of one size come one after the other (DataProto.concat).
LEMMA ConcatParts ==
  ASSUME NEW S, NEW n \in Nat, NEW size \in Nat \ {0}, NEW parts,
         \A i \in 1 .. n : parts[i] \in Seq(S) /\ Len(parts[i]) = size
  PROVE  /\ Concat(parts, n) \in Seq(S) /\ Len(Concat(parts, n)) = Total(n, size)
         /\ \A i \in 1 .. n, j \in 1 .. size :
              /\ RowAt(i, size, j) \in 1 .. Total(n, size)
              /\ Concat(parts, n)[RowAt(i, size, j)] = parts[i][j]
<1> DEFINE total == n * size
           s == [k \in 1 .. total |-> parts[(k - 1) \div size + 1][((k - 1) % size) + 1]]
           e == [i \in 0 .. n |-> i * size]
<1>0. total \in Nat
  BY SMTT(30)
<1>1. ASSUME NEW i \in 1 .. n, NEW j \in 1 .. size
      PROVE  /\ (i - 1) * size + j \in 1 .. total
             /\ (i - 1) * size \in Nat
             /\ s[(i - 1) * size + j] = parts[i][j]
  <2> DEFINE a == (i - 1) * size
             k == a + j
  <2>1. i - 1 \in Nat /\ a \in Nat /\ n \in Nat /\ i - 1 < n
    BY SMTT(30)
  <2>2. a + size <= total
    BY <2>1, BlocksApart
  <2>3. k \in 1 .. total /\ k - 1 \in Nat /\ a <= k - 1 /\ k - 1 < a + size
    BY <1>0, <2>1, <2>2
  <2>4. (k - 1) \div size = i - 1
    <3> HIDE DEF k
    <3>1. QED
      BY <2>1, <2>3, BlockOf
  <2>5. (k - 1) % size = j - 1
    <3>1. k - 1 = a + (j - 1) /\ j - 1 \in 0 .. size - 1 /\ a = size * (i - 1)
      BY <2>1, SMTT(30)
    <3>2. k - 1 = size * ((k - 1) \div size) + ((k - 1) % size) /\ (k - 1) % size \in Int
      <4> HIDE DEF k
      <4>1. QED
        BY <2>3, Remainder
    <3> DEFINE q == (k - 1) \div size
               m == (k - 1) % size
    <3>3. q = i - 1 /\ m \in Int /\ k - 1 = size * q + m
      BY <2>4, <3>2
    <3> HIDE DEF a, q, m
    <3>4. k - 1 = a + m
      BY <3>1, <3>3
    <3>5. QED
      BY <2>1, <3>1, <3>3, <3>4 DEF m
  <2>6. s[k] = parts[(k - 1) \div size + 1][((k - 1) % size) + 1]
    BY <2>3
  <2> HIDE DEF s, a, k
  <2>7. s[k] = parts[i][j]
    <3>1. (k - 1) \div size + 1 = i /\ ((k - 1) % size) + 1 = j
      BY <2>4, <2>5
    <3>2. QED
      BY <2>6, <3>1
  <2>8. QED
    BY <2>1, <2>3, <2>7 DEF a, k
<1>2. s \in Seq(S) /\ Len(s) = total
  <2>1. ASSUME NEW k \in 1 .. total PROVE s[k] \in S
    <3> DEFINE q == (k - 1) \div size
               m == (k - 1) % size
    <3>1. k - 1 \in Nat /\ k - 1 < total
      BY <1>0
    <3>2. q \in Nat /\ q < n /\ m \in 0 .. size - 1
      BY <3>1, Remainder, BlockBelow
    <3>3. s[k] = parts[q + 1][m + 1]
      OBVIOUS
    <3> HIDE DEF q, m, s
    <3>4. q + 1 \in 1 .. n /\ m + 1 \in 1 .. size
      BY <3>2
    <3>5. parts[q + 1] \in Seq(S) /\ m + 1 \in 1 .. Len(parts[q + 1])
      BY <3>4
    <3>6. QED
      BY <3>3, <3>5
  <2>2. s = [k \in 1 .. total |-> s[k]]
    OBVIOUS
  <2> HIDE DEF s, total
  <2>3. s \in [1 .. total -> S]
    BY <2>1, <2>2
  <2>4. QED
    BY <1>0, <2>3, AsSequence
<1> HIDE DEF s
<1>3. e \in [0 .. n -> 0 .. Len(s)] /\ e[0] = 0 /\ e[n] = total
  <2>1. \A i \in 0 .. n : i * size \in 0 .. total
    <3>1. SUFFICES ASSUME NEW i \in 0 .. n PROVE i * size \in 0 .. total
      OBVIOUS
    <3>2. CASE i = n
      BY <1>0, <3>2
    <3>3. CASE i < n
      <4>1. i \in Nat /\ n \in Nat
        OBVIOUS
      <4> DEFINE x == i * size
                 y == n * size
      <4>2. x + size <= y /\ x \in Nat /\ y \in Nat
        BY <3>3, <4>1, BlocksApart
      <4> HIDE DEF x, y
      <4>3. x \in 0 .. y
        BY <4>2
      <4>4. QED
        BY <4>3 DEF x, y
    <3>4. QED
      BY <3>2, <3>3
  <2>2. 0 * size = 0 /\ 0 \in 0 .. n /\ n \in 0 .. n
    OBVIOUS
  <2> HIDE DEF total
  <2>3. e \in [0 .. n -> 0 .. Len(s)]
    BY <1>2, <2>1
  <2>4. QED
    BY <2>2, <2>3 DEF total
<1>4. ASSUME NEW i \in 1 .. n
      PROVE  e[i - 1] <= e[i] /\ parts[i] = SubSeq(s, e[i - 1] + 1, e[i])
  <2> DEFINE a == (i - 1) * size
  <2>1. e[i - 1] = a /\ e[i] = a + size /\ a \in Nat /\ a + size \in 0 .. Len(s)
    <3>1. i - 1 \in 0 .. n /\ i \in 0 .. n /\ i * size = a + size /\ a \in Nat
      BY SMTT(30)
    <3>2. e[i - 1] = a /\ e[i] = i * size
      BY <3>1
    <3>3. e[i] \in 0 .. Len(s)
      BY <1>3, <3>1
    <3>4. QED
      BY <3>1, <3>2, <3>3
  <2>2. \A j \in 1 .. size : s[a + j] = parts[i][j]
    BY <1>1
  <2> DEFINE b == a + 1
             c == a + size
  <2> HIDE DEF a, e
  <2>3. /\ b \in Int /\ c \in Int /\ c - b + 1 = size /\ b <= c
        /\ \A j \in 1 .. size : b + j - 1 = a + j
        /\ \A k \in b .. c : s[k] \in S
    BY <1>2, <2>1
  <2> HIDE DEF b, c
  <2>4. /\ SubSeq(s, b, c) \in Seq(S) /\ Len(SubSeq(s, b, c)) = size
        /\ \A j \in 1 .. size : SubSeq(s, b, c)[j] = s[a + j]
    BY <2>3, SubSeqProperties
  <2>5. parts[i] = SubSeq(s, b, c)
    <3> DEFINE u == SubSeq(s, b, c)
               v == parts[i]
    <3>1. /\ v \in Seq(S) /\ Len(v) = size /\ u \in Seq(S) /\ Len(u) = size
          /\ \A j \in 1 .. Len(v) : v[j] = u[j]
      BY <2>2, <2>4
    <3> HIDE DEF u, v
    <3>2. v = u
      BY <3>1, SeqEqual
    <3>3. QED
      BY <3>2 DEF u, v
  <2>6. QED
    BY <2>1, <2>5 DEF b, c
<1>5. Concat(parts, n) = SubSeq(s, 1, e[n])
  <2> HIDE DEF e
  <2>1. QED
    BY <1>2, <1>3, <1>4, ConcatCuts
<1>6. SubSeq(s, 1, e[n]) = s
  BY <1>2, <1>3, SubSeqFull
<1>7. Total(n, size) = total
  BY DEF Total
<1>8. Concat(parts, n) = s
  BY <1>5, <1>6
<1>9. ASSUME NEW i \in 1 .. n, NEW j \in 1 .. size
      PROVE  RowAt(i, size, j) \in 1 .. total /\ s[RowAt(i, size, j)] = parts[i][j]
  BY <1>1 DEF RowAt
<1> HIDE DEF total
<1>10. QED
  BY <1>2, <1>7, <1>8, <1>9

\* Every row is in one place of one part.
LEMMA RowsInParts ==
  ASSUME NEW n \in Nat, NEW size \in Nat \ {0}
  PROVE  /\ Total(n, size) \in Nat
         /\ \A c \in 1 .. n, j \in 1 .. size : RowAt(c, size, j) \in 1 .. Total(n, size)
         /\ \A k \in 1 .. Total(n, size) : \E c \in 1 .. n, j \in 1 .. size : k = RowAt(c, size, j)
         /\ \A c, d \in 1 .. n : \A i, j \in 1 .. size :
              RowAt(c, size, i) = RowAt(d, size, j) => c = d /\ i = j
<1>0. n * size \in Nat
  BY SMTT(30)
<1>1. ASSUME NEW c \in 1 .. n, NEW j \in 1 .. size
      PROVE  /\ RowAt(c, size, j) \in 1 .. n * size
             /\ (RowAt(c, size, j) - 1) \div size = c - 1
             /\ RowAt(c, size, j) = (c - 1) * size + j /\ (c - 1) * size \in Nat
  <2> DEFINE a == (c - 1) * size
             y == n * size
             k == a + (j - 1)
  <2>1. c - 1 \in Nat /\ c - 1 < n /\ n \in Nat
    OBVIOUS
  <2>2. a + size <= y /\ a \in Nat /\ y \in Nat
    BY <2>1, BlocksApart
  <2>3. RowAt(c, size, j) = a + j /\ j \in Int /\ 1 <= j /\ j <= size
    BY DEF RowAt
  <2> HIDE DEF a, y
  <2>4. /\ k \in Nat /\ a <= k /\ k < a + size /\ RowAt(c, size, j) - 1 = k
        /\ RowAt(c, size, j) \in 1 .. y
    BY <2>2, <2>3
  <2> HIDE DEF k
  <2>5. k \div size = c - 1
    BY <2>1, <2>4, BlockOf DEF a
  <2>6. QED
    BY <2>2, <2>3, <2>4, <2>5 DEF a, y
<1>2. ASSUME NEW k \in 1 .. n * size
      PROVE  \E c \in 1 .. n, j \in 1 .. size : k = RowAt(c, size, j)
  <2> DEFINE q == (k - 1) \div size
             m == (k - 1) % size
             x == q * size
  <2>1. k - 1 \in Nat /\ k - 1 < n * size
    BY <1>0
  <2>2. q \in Nat /\ q < n /\ m \in 0 .. size - 1 /\ k - 1 = size * q + m
    BY <2>1, Remainder, BlockBelow
  <2>3. size * q = x /\ x \in Nat
    BY <2>2, SMTT(30)
  <2>4. RowAt(q + 1, size, m + 1) = x + (m + 1)
    <3>1. (q + 1) - 1 = q
      BY <2>2
    <3>2. QED
      BY <3>1 DEF RowAt
  <2> HIDE DEF q, m, x
  <2>5. q + 1 \in 1 .. n /\ m + 1 \in 1 .. size /\ k = x + (m + 1)
    BY <2>2, <2>3
  <2>6. QED
    BY <2>4, <2>5
<1>3. ASSUME NEW c \in 1 .. n, NEW d \in 1 .. n, NEW i \in 1 .. size, NEW j \in 1 .. size,
             RowAt(c, size, i) = RowAt(d, size, j)
      PROVE  c = d /\ i = j
  <2>1. c - 1 = d - 1
    BY <1>1, <1>3
  <2>2. c = d
    BY <2>1
  <2> DEFINE a == (c - 1) * size
  <2>3. a \in Nat /\ a + i = a + j
    BY <1>1, <1>3, <2>2
  <2> HIDE DEF a
  <2>4. QED
    BY <2>2, <2>3
<1>4. Total(n, size) = n * size
  BY DEF Total
<1> DEFINE y == n * size
<1> HIDE DEF y
<1>5. QED
  BY <1>0, <1>1, <1>2, <1>3, <1>4 DEF y

------------------------------------------------------------------------------
(* The index map of a partition into parts of one size.                     *)

\* A partition of n rows into as many parts, all of size k.
SameSizes(part, n, parts, k) ==
  /\ part \in [1 .. n -> 1 .. parts]
  /\ \A c \in 1 .. parts : Cardinality({i \in 1 .. n : part[i] = c}) = k

\* Part by part, the index map takes the rows of the part.
LEMMA FlattenedBlocks ==
  ASSUME NEW n \in Nat, NEW parts \in Nat, NEW part, NEW k \in Nat \ {0},
         SameSizes(part, n, parts, k)
  PROVE  /\ n = Total(parts, k)
         /\ \A c \in 1 .. parts, j \in 1 .. k :
              RowAt(c, k, j) \in 1 .. n /\ part[Flattened(part)[RowAt(c, k, j)]] = c
<1> DEFINE D == 1 .. n
           Of(c) == {i \in D : part[i] = c}
           Lower(c) == {i \in D : part[i] <= c}
<1>0. /\ part \in [1 .. n -> 1 .. parts]
      /\ \A c \in 1 .. parts : Cardinality(Of(c)) = k
  BY DEF SameSizes
<1>1. \A T \in SUBSET D : IsFiniteSet(T) /\ Cardinality(T) \in Nat
  <2>1. IsFiniteSet(D)
    BY FirstNumbers
  <2> HIDE DEF D
  <2>2. QED
    BY <2>1, FS_Subset, FS_CardinalityType
<1>2. \A i \in D : part[i] \in 1 .. parts
  BY <1>0
<1>3. ASSUME NEW c \in 1 .. parts
      PROVE  Cardinality(Lower(c)) = Cardinality(Lower(c - 1)) + k
  <2>1. Lower(c) = Lower(c - 1) \cup Of(c) /\ Lower(c - 1) \cap Of(c) = {}
    <3> HIDE DEF D
    <3>1. QED
      BY <1>2
  <2>2. Lower(c - 1) \in SUBSET D /\ Of(c) \in SUBSET D /\ Cardinality(Of(c)) = k
    BY <1>0
  <2> DEFINE A == Lower(c - 1)
             B == Of(c)
  <2>3. IsFiniteSet(A) /\ IsFiniteSet(B) /\ Cardinality(A) \in Nat /\ Cardinality(B) = k
        /\ A \cap B = {}
    BY <1>1, <2>1, <2>2
  <2> HIDE DEF A, B
  <2>4. Cardinality(A \cup B) = Cardinality(A) + Cardinality(B) - Cardinality(A \cap B)
    BY <2>3, FS_Union
  <2>5. Cardinality(A \cup B) = Cardinality(A) + k
    <3>1. Cardinality(A \cap B) = 0
      BY <2>3, FS_EmptySet
    <3>2. Cardinality(A \cup B) = Cardinality(A) + k - 0
      BY <2>3, <2>4, <3>1
    <3>3. QED
      BY <2>3, <3>2
  <2>6. QED
    BY <2>1, <2>5 DEF A, B
<1>4. /\ Total(0, k) = 0
      /\ \A c \in Nat : Total(c, k) \in Nat
      /\ \A c \in 1 .. parts : Total(c, k) = Total(c - 1, k) + k
  BY SMTT(30) DEF Total
<1>5. Lower(0) = {} /\ Lower(parts) = D
  <2> HIDE DEF D
  <2>1. QED
    BY <1>2
<1> DEFINE Wrong == {c \in Nat : c <= parts /\ Cardinality(Lower(c)) # Total(c, k)}
<1>6. Wrong = {}
  <2> SUFFICES ASSUME Wrong # {} PROVE FALSE
    OBVIOUS
  <2> HIDE DEF Lower
  <2>1. PICK c \in Wrong : \A d \in Wrong : c <= d
    BY LeastNumber
  <2>2. c \in Nat /\ c <= parts /\ Cardinality(Lower(c)) # Total(c, k)
    OBVIOUS
  <2>3. c # 0
    BY <1>4, <1>5, <2>2, FS_EmptySet
  <2>4. c - 1 \in Nat /\ c - 1 <= parts /\ ~ (c <= c - 1) /\ c \in 1 .. parts
    BY <2>2, <2>3
  <2>5. Cardinality(Lower(c - 1)) = Total(c - 1, k)
    BY <2>1, <2>4
  <2>6. QED
    BY <1>3, <1>4, <2>2, <2>4, <2>5
<1>7. \A c \in 0 .. parts : Cardinality(Lower(c)) = Total(c, k)
  <2> HIDE DEF Lower
  <2>1. ASSUME NEW c \in 0 .. parts PROVE Cardinality(Lower(c)) = Total(c, k)
    <3>1. c \in Nat /\ c <= parts
      OBVIOUS
    <3>2. QED
      BY <1>6, <3>1
  <2>2. QED
    BY <2>1
<1>8. n = Total(parts, k)
  BY <1>5, <1>7, FirstNumbers
<1>9. ASSUME NEW c \in 1 .. parts, NEW j \in 1 .. k
      PROVE  RowAt(c, k, j) \in 1 .. n /\ part[Flattened(part)[RowAt(c, k, j)]] = c
  <2> DEFINE x == RowAt(c, k, j)
             i == Flattened(part)[x]
             p == part[i]
             Q == {l \in D : part[l] = p /\ l <= i}
             m == Cardinality(Q)
  <2>1. x \in 1 .. n
    BY <1>8, RowsInParts
  <2>2. i \in D /\ Place(part, i) = x
    <3>1. part \in [1 .. n -> Int]
      BY <1>0
    <3>2. NamesOnce(Flattened(part), n) /\ \A l \in 1 .. n : Place(part, Flattened(part)[l]) = l
      BY <3>1, FlattenedPlaces
    <3>3. Flattened(part) \in [1 .. n -> 1 .. n]
      BY <3>2, Zenon DEF NamesOnce
    <3> HIDE DEF x
    <3>4. QED
      BY <2>1, <3>2, <3>3
  <2> HIDE DEF i
  <2>3. p \in 1 .. parts
    BY <1>2, <2>2
  <2>4. Place(part, i) = Cardinality(Lower(p - 1) \cup Q)
    <3>1. DOMAIN part = D
      BY <1>0
    <3>2. {l \in D : part[l] < p \/ (part[l] = p /\ l <= i)} = Lower(p - 1) \cup Q
      <4> HIDE DEF p, D
      <4>1. QED
        BY <1>2, <2>3
    <3>3. QED
      BY <3>1, <3>2 DEF Place
  <2>5. Lower(p - 1) \cap Q = {} /\ Lower(p - 1) \in SUBSET D /\ Q \in SUBSET D
        /\ Q \in SUBSET Of(p) /\ i \in Q
    <3> HIDE DEF p, D
    <3>1. p \in Int /\ i \in D
      BY <2>2, <2>3
    <3>2. i \in Int
      BY <2>2 DEF D
    <3>3. QED
      BY <1>2, <2>2, <3>1, <3>2 DEF p
  <2>6. m \in 1 .. k
    <3>1. IsFiniteSet(Of(p)) /\ Cardinality(Of(p)) = k /\ m \in Nat
      BY <1>0, <1>1, <2>3, <2>5
    <3>2. m <= k
      BY <2>5, <3>1, FS_Subset
    <3>3. m # 0
      BY <1>1, <2>5, FS_EmptySet
    <3> HIDE DEF m
    <3>4. QED
      BY <3>1, <3>2, <3>3
  <2>7. Cardinality(Lower(p - 1) \cup Q) = Total(p - 1, k) + m
    <3> DEFINE A == Lower(p - 1)
    <3>1. p - 1 \in 0 .. parts
      BY <2>3
    <3>2. IsFiniteSet(A) /\ IsFiniteSet(Q) /\ Cardinality(A) = Total(p - 1, k) /\ A \cap Q = {}
      BY <1>1, <1>7, <2>5, <3>1
    <3>3. Total(p - 1, k) \in Nat /\ m \in Nat
      <4> HIDE DEF m, p
      <4>1. p - 1 \in Nat
        BY <3>1
      <4>2. QED
        BY <1>4, <2>6, <4>1
    <3> HIDE DEF A, Q
    <3>4. Cardinality(A \cup Q) = Cardinality(A) + m - Cardinality(A \cap Q)
      BY <3>2, FS_Union
    <3>5. Cardinality(A \cap Q) = 0
      BY <3>2, FS_EmptySet
    <3> HIDE DEF m
    <3>6. QED
      BY <3>2, <3>3, <3>4, <3>5 DEF A
  <2> HIDE DEF m, p
  <2>8. x = RowAt(p, k, m)
    BY <2>2, <2>4, <2>7 DEF RowAt, Total
  <2>9. c = p
    <3>1. \A a, b \in 1 .. parts : \A u, v \in 1 .. k :
            RowAt(a, k, u) = RowAt(b, k, v) => a = b /\ u = v
      BY RowsInParts
    <3>2. QED
      BY <2>3, <2>6, <2>8, <3>1, Zenon
  <2>10. QED
    BY <2>1, <2>9 DEF p, i
<1>10. QED
  BY <1>8, <1>9

\* What is taken from the longest sequence: the shortest, if sizes are equal.
Less0(j) == IF EqualSize THEN length[j] ELSE 0

------------------------------------------------------------------------------
(* The invariant, state by state.                                          *)

\* A set is empty exactly if nothing was added up.
Counted(s) == \A p \in Parts : s[p].sum = 0 <=> s[p].items = {}

Ordered(s) == \A p, q \in Parts : p < q => s[q].sum <= s[p].sum

Level(s) ==
  EqualSize => \A p, q \in Parts : Cardinality(s[p].items) = Cardinality(s[q].items)

Narrow(s) ==
  \A p, q \in Parts : \E i, j \in Items : s[p].sum - s[q].sum <= length[i] - Less0(j)

Whole(s) == UNION {s[p].items : p \in Parts}

\* As many parts have items as there are items for them.
Filled(s) ==
  ~ EqualSize => \A p \in Parts : p <= Cardinality(Whole(s)) => s[p].items # {}

IsState(s) ==
  /\ s \in [Parts -> SetType]
  /\ Counted(s) /\ Ordered(s) /\ Level(s) /\ Narrow(s) /\ Filled(s)

Lengths == length \in [Items -> 1 .. MaxLen]

KKInv ==
  /\ KarmarkarKarpAssumption /\ Lengths
  /\ \A s \in pool : IsState(s)
  /\ ItemsOnce

------------------------------------------------------------------------------
(* Sets of items, and permutations of the parts.                           *)

\* The items can be counted, and so can any set of them.
LEMMA FiniteItems ==
  ASSUME KarmarkarKarpAssumption
  PROVE  /\ IsFiniteSet(Items) /\ Cardinality(Items) = NumItems
         /\ \A T \in SUBSET Items : IsFiniteSet(T) /\ Cardinality(T) \in Nat
<1>1. NumItems \in Nat
  BY DEF KarmarkarKarpAssumption
<1>2. IsFiniteSet(Items) /\ Cardinality(Items) = NumItems
  BY <1>1, FirstNumbers DEF Items
<1>3. QED
  BY <1>2, FS_Subset, FS_CardinalityType

\* The widest difference two sequences allow.
LEMMA Widest ==
  ASSUME KarmarkarKarpAssumption, Lengths
  PROVE  \E D \in Nat :
           /\ \E i, j \in Items : D = length[i] - Less0(j)
           /\ \A i, j \in Items : length[i] - Less0(j) <= D
<1> DEFINE S == {length[i] - Less0(j) : i \in Items, j \in Items}
           V == {length[i] : i \in Items}
<1>1. NumItems \in Nat /\ NumItems >= 1 /\ EqualSize \in BOOLEAN /\ MaxLen \in Nat
  BY DEF KarmarkarKarpAssumption
<1>2. 1 \in Items /\ V # {} /\ V \in SUBSET Nat /\ \A v \in V : v <= MaxLen
  BY <1>1 DEF Items, Lengths
<1>3. IsFiniteSet(V)
  <2>1. V \in SUBSET (1 .. MaxLen)
    BY DEF Lengths
  <2>2. QED
    BY <1>1, <2>1, FirstNumbers, FS_Subset
<1> HIDE DEF V
<1>4. PICK a \in V : \A v \in V : v <= a
  BY <1>2, <1>3, GreatestNumber
<1>5. PICK b \in V : \A v \in V : b <= v
  BY <1>2, LeastNumber
<1>6. PICK i \in Items : length[i] = a
  BY DEF V
<1>7. PICK j \in Items : length[j] = b
  BY DEF V
<1>8. \A x \in Items : length[x] <= length[i] /\ length[j] <= length[x] /\ length[x] \in Nat
                       /\ length[x] >= 1
  <2>1. \A x \in Items : length[x] \in V /\ length[x] >= 1
    BY DEF V, Lengths
  <2>2. QED
    BY <1>2, <1>4, <1>5, <1>6, <1>7, <2>1
<1>9. length[i] - Less0(j) \in Nat /\ \A x, y \in Items : length[x] - Less0(y) <= length[i] - Less0(j)
  <2>1. CASE EqualSize
    BY <1>8, <2>1 DEF Less0
  <2>2. CASE ~ EqualSize
    BY <1>8, <2>2 DEF Less0
  <2>3. QED
    BY <2>1, <2>2
<1>10. QED
  BY <1>9

\* Narrow, with that number.
LEMMA NarrowIs ==
  ASSUME Lengths, NEW D \in Nat,
         \E i, j \in Items : D = length[i] - Less0(j),
         \A i, j \in Items : length[i] - Less0(j) <= D,
         NEW s \in [Parts -> SetType]
  PROVE  Narrow(s) <=> \A p, q \in Parts : s[p].sum - s[q].sum <= D
<1>1. \A i, j \in Items : length[i] - Less0(j) \in Int
  BY DEF Lengths, Less0
<1>2. \A p \in Parts : s[p].sum \in Nat
  BY DEF SetType
<1>3. QED
  BY <1>1, <1>2 DEF Narrow

------------------------------------------------------------------------------
(* Merging two states.                                                     *)

Apart(s, t) == \A p, q \in Parts : s[p].items \cap t[q].items = {}

\* The part that is merged with part p.
LEMMA Across ==
  ASSUME KarmarkarKarpAssumption, NEW p \in Parts
  PROVE  K + 1 - p \in Parts /\ K + 1 - (K + 1 - p) = p /\ p \in Int /\ K \in Nat \ {0}
BY DEF KarmarkarKarpAssumption, Parts

\* Crossing joins the p-th part of one state to the last but p-th of the other.
LEMMA CrossedParts ==
  ASSUME KarmarkarKarpAssumption,
         NEW s \in [Parts -> SetType], NEW t \in [Parts -> SetType],
         NEW c, c = Crossed(s, t)
  PROVE  /\ c \in [Parts -> SetType]
         /\ \A p \in Parts : /\ c[p].sum = s[p].sum + t[K + 1 - p].sum
                             /\ c[p].items = s[p].items \cup t[K + 1 - p].items
<1>1. \A p \in Parts : K + 1 - p \in Parts
  BY Across
<1>2. \A p \in Parts : /\ s[p] \in SetType /\ t[K + 1 - p] \in SetType
  BY <1>1
<1>3. \A p \in Parts : c[p] = Joined(s[p], t[K + 1 - p])
  BY DEF Crossed
<1>4. \A a, b \in SetType : Joined(a, b) \in SetType
  BY DEF Joined, SetType
<1>5. c = [p \in Parts |-> Joined(s[p], t[K + 1 - p])]
  BY DEF Crossed
<1>6. c \in [Parts -> SetType]
  BY <1>2, <1>4, <1>5
<1>7. QED
  BY <1>3, <1>6 DEF Joined

\* Before it is arranged, a crossed state is as level and as narrow as it must be.
LEMMA CrossedState ==
  ASSUME KarmarkarKarpAssumption, Lengths,
         NEW s, NEW t, IsState(s), IsState(t), Apart(s, t),
         NEW c, c = Crossed(s, t)
  PROVE  c \in [Parts -> SetType] /\ Counted(c) /\ Level(c) /\ Narrow(c)
<1>1. /\ s \in [Parts -> SetType] /\ t \in [Parts -> SetType]
      /\ Counted(s) /\ Ordered(s) /\ Level(s) /\ Narrow(s)
      /\ Counted(t) /\ Ordered(t) /\ Level(t) /\ Narrow(t)
  BY DEF IsState
<1>2. /\ c \in [Parts -> SetType]
      /\ \A p \in Parts : /\ c[p].sum = s[p].sum + t[K + 1 - p].sum
                          /\ c[p].items = s[p].items \cup t[K + 1 - p].items
  BY <1>1, CrossedParts
<1>3. \A p \in Parts : /\ K + 1 - p \in Parts /\ p \in Int
                       /\ s[p].sum \in Nat /\ s[p].items \in SUBSET Items
                       /\ t[p].sum \in Nat /\ t[p].items \in SUBSET Items
  BY <1>1, Across DEF SetType
<1>4. Counted(c)
  <2>1. SUFFICES ASSUME NEW p \in Parts PROVE c[p].sum = 0 <=> c[p].items = {}
    BY DEF Counted
  <2>2. /\ s[p].sum = 0 <=> s[p].items = {}
        /\ t[K + 1 - p].sum = 0 <=> t[K + 1 - p].items = {}
    BY <1>1, <1>3 DEF Counted
  <2>3. c[p].sum = 0 <=> s[p].sum = 0 /\ t[K + 1 - p].sum = 0
    BY <1>2, <1>3
  <2>4. c[p].items = {} <=> s[p].items = {} /\ t[K + 1 - p].items = {}
    BY <1>2
  <2>5. QED
    BY <2>2, <2>3, <2>4
<1>5. Level(c)
  <2>1. SUFFICES ASSUME EqualSize, NEW p \in Parts, NEW q \in Parts
                 PROVE  Cardinality(c[p].items) = Cardinality(c[q].items)
    BY DEF Level
  <2>2. ASSUME NEW r \in Parts
        PROVE  Cardinality(c[r].items)
                 = Cardinality(s[r].items) + Cardinality(t[K + 1 - r].items)
    <3>1. /\ IsFiniteSet(s[r].items) /\ IsFiniteSet(t[K + 1 - r].items)
          /\ Cardinality(s[r].items) \in Nat /\ Cardinality(t[K + 1 - r].items) \in Nat
      BY <1>3, FiniteItems
    <3>2. s[r].items \cap t[K + 1 - r].items = {}
      BY <1>3 DEF Apart
    <3>3. Cardinality(s[r].items \cup t[K + 1 - r].items)
            = Cardinality(s[r].items) + Cardinality(t[K + 1 - r].items) - Cardinality({})
      BY <3>1, <3>2, FS_Union
    <3>4. Cardinality({}) = 0 /\ c[r].items = s[r].items \cup t[K + 1 - r].items
      BY <1>2, FS_EmptySet
    <3>5. QED
      BY <3>1, <3>3, <3>4
  <2>3. /\ Cardinality(s[p].items) = Cardinality(s[q].items)
        /\ Cardinality(t[K + 1 - p].items) = Cardinality(t[K + 1 - q].items)
    BY <1>1, <1>3, <2>1 DEF Level
  <2>4. QED
    BY <2>2, <2>3
<1>6. Narrow(c)
  <2>1. PICK D \in Nat : /\ \E i, j \in Items : D = length[i] - Less0(j)
                         /\ \A i, j \in Items : length[i] - Less0(j) <= D
    BY Widest
  <2>2. /\ \A p, q \in Parts : s[p].sum - s[q].sum <= D
        /\ \A p, q \in Parts : t[p].sum - t[q].sum <= D
    BY <1>1, <2>1, NarrowIs
  <2>3. ASSUME NEW p \in Parts, NEW q \in Parts PROVE c[p].sum - c[q].sum <= D
    <3>1. /\ s[p].sum - s[q].sum <= D
          /\ t[K + 1 - p].sum - t[K + 1 - q].sum <= D
      BY <1>3, <2>2
    <3>2. p < q => t[K + 1 - p].sum <= t[K + 1 - q].sum
      <4>1. p < q => K + 1 - q < K + 1 - p
        BY <1>3, Across
      <4>2. QED
        BY <1>1, <1>3, <4>1 DEF Ordered
    <3>3. q < p => s[p].sum <= s[q].sum
      BY <1>1 DEF Ordered
    <3>4. p < q \/ q < p \/ p = q
      <4>1. p \in Int /\ q \in Int
        BY <1>3
      <4>2. QED
        BY ONLY <4>1
    <3>5. /\ s[p].sum \in Nat /\ s[q].sum \in Nat
          /\ t[K + 1 - p].sum \in Nat /\ t[K + 1 - q].sum \in Nat
      BY <1>3
    <3>6. QED
      BY <1>2, <3>1, <3>2, <3>3, <3>4, <3>5
  <2>4. QED
    BY <1>2, <2>1, <2>3, NarrowIs
<1>7. QED
  BY <1>2, <1>4, <1>5, <1>6

\* Sorting permutes the parts, and orders them.
LEMMA Sorting ==
  ASSUME NEW c \in [Parts -> SetType], NEW u \in Arranged(c)
  PROVE  /\ u \in [Parts -> SetType] /\ Ordered(u)
         /\ \E m \in [Parts -> Parts] :
              /\ \A p \in Parts : u[p] = c[m[p]]
              /\ \A p, q \in Parts : m[p] = m[q] => p = q
              /\ \A q \in Parts : \E p \in Parts : m[p] = q
<1>1. PICK m \in Bijections(Parts) : u = [p \in Parts |-> c[m[p]]]
  BY DEF Arranged
<1>2. /\ m \in [Parts -> Parts]
      /\ \A p, q \in Parts : m[p] = m[q] => p = q
      /\ \A q \in Parts : \E p \in Parts : m[p] = q
  BY Zenon DEF Bijections
<1>3. \A p \in Parts : m[p] \in Parts /\ u[p] = c[m[p]]
  BY <1>1, <1>2
<1>4. u \in [Parts -> SetType]
  BY <1>1, <1>3
<1>5. Ordered(u)
  <2>1. \A p, q \in Parts : p < q => ~ Less(u[p], u[q])
    BY DEF Arranged, Decreasing
  <2>2. \A p \in Parts : u[p].sum \in Nat
    BY <1>4 DEF SetType
  <2>3. QED
    BY <2>1, <2>2 DEF Less, Ordered
<1>6. QED
  BY <1>2, <1>3, <1>4, <1>5

\* Sorting keeps what does not depend on the order.
LEMMA SortedState ==
  ASSUME Lengths, KarmarkarKarpAssumption,
         NEW c \in [Parts -> SetType], Counted(c), Level(c), Narrow(c),
         NEW u \in Arranged(c)
  PROVE  u \in [Parts -> SetType] /\ Counted(u) /\ Ordered(u) /\ Level(u) /\ Narrow(u)
<1>1. u \in [Parts -> SetType] /\ Ordered(u)
  BY Sorting
<1>2. PICK m \in [Parts -> Parts] : \A p \in Parts : u[p] = c[m[p]]
  BY Sorting
<1>3. \A p \in Parts : m[p] \in Parts
  OBVIOUS
<1>4. Counted(u)
  BY <1>2, <1>3 DEF Counted
<1>5. Level(u)
  BY <1>2, <1>3 DEF Level
<1>6. Narrow(u)
  BY <1>2, <1>3 DEF Narrow
<1>7. QED
  BY <1>1, <1>4, <1>5, <1>6

\* Both states fill parts from their largest on, and are crossed: no part of
\* the result is empty unless every item has one of its own.
LEMMA FilledMerge ==
  ASSUME KarmarkarKarpAssumption, Lengths,
         NEW s, NEW t, IsState(s), IsState(t), Apart(s, t),
         NEW u \in Arranged(Crossed(s, t))
  PROVE  Filled(u)
<1> DEFINE c == Crossed(s, t)
           x == Cardinality(Whole(s))
           y == Cardinality(Whole(t))
<1>1. c \in [Parts -> SetType] /\ Counted(c) /\ Level(c) /\ Narrow(c)
  BY CrossedState
<1>2. u \in [Parts -> SetType] /\ Counted(u) /\ Ordered(u)
  BY <1>1, SortedState
<1>3. PICK m \in [Parts -> Parts] :
        /\ \A p \in Parts : u[p] = c[m[p]]
        /\ \A p, q \in Parts : m[p] = m[q] => p = q
  BY <1>1, Sorting
<1>4. \A p \in Parts : c[p].items = s[p].items \cup t[K + 1 - p].items
  BY CrossedParts DEF IsState
<1>5. /\ \A p \in Parts : K + 1 - p \in Parts /\ p \in Int /\ m[p] \in Parts
      /\ K \in Nat /\ Parts = 1 .. K
  BY Across DEF Parts, KarmarkarKarpAssumption
<1>6. /\ Whole(s) \in SUBSET Items /\ Whole(t) \in SUBSET Items
  BY DEF IsState, SetType, Whole
<1>7. /\ IsFiniteSet(Whole(s)) /\ IsFiniteSet(Whole(t)) /\ x \in Nat /\ y \in Nat
      /\ Cardinality(Whole(s) \cap Whole(t)) \in Nat
  <2>1. Whole(s) \cap Whole(t) \in SUBSET Items
    BY <1>6
  <2>2. QED
    BY <1>6, <2>1, FiniteItems
<1>8. Cardinality(Whole(u)) \in Nat /\ Cardinality(Whole(u)) <= x + y
  <2>1. Whole(u) \in SUBSET (Whole(s) \cup Whole(t))
    <3>1. ASSUME NEW p \in Parts PROVE u[p].items \in SUBSET (Whole(s) \cup Whole(t))
      <4>1. u[p].items = s[m[p]].items \cup t[K + 1 - m[p]].items
        BY <1>3, <1>4, <1>5
      <4>2. m[p] \in Parts /\ K + 1 - m[p] \in Parts
        BY <1>5
      <4>3. QED
        BY <4>1, <4>2 DEF Whole
    <3>2. QED
      BY <3>1 DEF Whole
  <2>2. /\ IsFiniteSet(Whole(s) \cup Whole(t))
        /\ Cardinality(Whole(s) \cup Whole(t))
             = x + y - Cardinality(Whole(s) \cap Whole(t))
    BY <1>7, FS_Union
  <2>3. /\ IsFiniteSet(Whole(u))
        /\ Cardinality(Whole(u)) <= Cardinality(Whole(s) \cup Whole(t))
    BY <2>1, <2>2, FS_Subset
  <2>4. Cardinality(Whole(u)) \in Nat
    BY <2>3, FS_CardinalityType
  <2>5. QED
    BY <1>7, <2>2, <2>3, <2>4
<1>9. SUFFICES ASSUME ~ EqualSize, NEW q \in Parts, q <= Cardinality(Whole(u)),
                      u[q].items = {}
               PROVE  FALSE
  BY DEF Filled
<1> HIDE DEF x, y, c
<1>10. q <= x + y
  BY <1>5, <1>7, <1>8, <1>9
<1>11. ASSUME NEW p \in Parts, u[p].items = {}
       PROVE  m[p] \in x + 1 .. K - y
  <2>1. s[m[p]].items = {} /\ t[K + 1 - m[p]].items = {}
    <3>1. m[p] \in Parts /\ c[m[p]].items = {}
      BY <1>3, <1>5, <1>11
    <3>2. s[m[p]].items \cup t[K + 1 - m[p]].items = {}
      BY <1>4, <3>1
    <3>3. QED
      BY <3>2
  <2>2. ~ (m[p] <= x)
    BY <1>5, <1>9, <2>1 DEF IsState, Filled, x
  <2>3. ~ (K + 1 - m[p] <= y)
    BY <1>5, <1>9, <2>1 DEF IsState, Filled, y
  <2>4. m[p] \in Int
    BY <1>5
  <2>5. QED
    BY <1>5, <1>7, <2>2, <2>3, <2>4
<1>12. \A p \in q .. K : p \in Parts /\ u[p].items = {}
  <2>1. SUFFICES ASSUME NEW p \in q .. K PROVE p \in Parts /\ u[p].items = {}
    OBVIOUS
  <2>2. p \in Parts /\ q <= p /\ q \in Parts
    BY <1>5
  <2>3. u[q].sum = 0
    BY <1>2, <1>9 DEF Counted
  <2>4. u[p].sum \in Nat /\ u[p].sum <= 0
    <3>1. u[p].sum \in Nat
      BY <1>2, <2>2 DEF SetType
    <3>2. q < p \/ q = p
      <4>1. q \in Int /\ p \in Int
        BY <1>5
      <4>2. QED
        BY ONLY <2>2, <4>1
    <3>3. CASE q < p
      BY <1>2, <2>2, <2>3, <3>1, <3>3 DEF Ordered
    <3>4. CASE q = p
      BY <2>3, <3>4
    <3>5. QED
      BY <3>1, <3>2, <3>3, <3>4
  <2>5. u[p].sum = 0
    BY <2>4
  <2>6. QED
    BY <1>2, <2>2, <2>5 DEF Counted
<1> DEFINE f == [p \in q .. K |-> m[p]]
<1>13. f \in [q .. K -> x + 1 .. K - y]
  BY <1>11, <1>12
<1>14. /\ IsFiniteSet(q .. K) /\ Cardinality(q .. K) = K - q + 1
       /\ IsFiniteSet(x + 1 .. K - y)
       /\ Cardinality(x + 1 .. K - y) = IF x + 1 > K - y THEN 0 ELSE K - y - (x + 1) + 1
  <2>1. q \in Int /\ K \in Int /\ x + 1 \in Int /\ K - y \in Int /\ q <= K
    BY <1>5, <1>7
  <2>2. QED
    BY <2>1, FS_Interval
<1>15. Cardinality(x + 1 .. K - y) < Cardinality(q .. K)
  <2>1. q \in Int /\ q <= K
    BY <1>5
  <2>2. (IF x + 1 > K - y THEN 0 ELSE K - y - (x + 1) + 1) < K - q + 1
    BY <1>5, <1>7, <1>10, <2>1
  <2>3. QED
    BY <1>14, <2>2
<1>16. PICK a \in q .. K, b \in q .. K : a # b /\ f[a] = f[b]
  <2> HIDE DEF f
  <2>1. QED
    BY <1>13, <1>14, <1>15, FS_PigeonHole, Zenon
<1>17. a \in Parts /\ b \in Parts /\ m[a] = m[b]
  BY <1>12, <1>16
<1>18. QED
  BY <1>3, <1>16, <1>17

\* Arranged by weight, it is a state.
LEMMA MergedState ==
  ASSUME KarmarkarKarpAssumption, Lengths,
         NEW s, NEW t, IsState(s), IsState(t), Apart(s, t),
         NEW u \in Arranged(Crossed(s, t))
  PROVE  IsState(u)
<1> DEFINE c == Crossed(s, t)
<1>1. c \in [Parts -> SetType] /\ Counted(c) /\ Level(c) /\ Narrow(c)
  BY CrossedState
<1>2. u \in [Parts -> SetType] /\ Counted(u) /\ Ordered(u) /\ Level(u) /\ Narrow(u)
  BY <1>1, SortedState
<1>3. QED
  BY <1>2, FilledMerge DEF IsState

------------------------------------------------------------------------------
(* The first states.                                                       *)

\* The sorted list has every item once, the lengths going up.
LEMMA SortedList ==
  ASSUME KarmarkarKarpAssumption, Lengths
  PROVE  /\ \A k \in Items : Sorted[k] \in Items
         /\ \A k, l \in Items : Sorted[k] = Sorted[l] => k = l
         /\ \A i \in Items : \E k \in Items : Sorted[k] = i
         /\ \A k, l \in Items : k <= l => length[Sorted[k]] <= length[Sorted[l]]
<1> DEFINE n == NumItems
           R == {p \in Items \X Items : ~ Before(p[2], p[1])}
           pos == RanksIn(R, n)
           f == Sorted
<1>1. n \in Nat /\ Items = 1 .. n /\ \A i \in Items : length[i] \in Int /\ i \in Int
  BY DEF KarmarkarKarpAssumption, Lengths, Items
<1>2. \A i, j \in Items : <<i, j>> \in R <=> ~ Before(j, i)
  OBVIOUS
<1>3. \A i \in Items : Turn(i) = pos[i]
  <2>1. ASSUME NEW i \in Items
        PROVE  {j \in Items : ~ Before(i, j)} = {j \in Items : <<j, i>> \in R}
    BY <1>2
  <2>2. \A i \in Items : pos[i] = Cardinality({j \in Items : <<j, i>> \in R})
    BY <1>1 DEF RanksIn
  <2>3. QED
    BY <2>1, <2>2 DEF Turn
<1> HIDE DEF R
<1>4. Orders(R, n)
  <2>1. \A i \in Items : <<i, i>> \in R
    BY <1>1, <1>2 DEF Before
  <2>2. \A i, j \in Items : <<i, j>> \in R \/ <<j, i>> \in R
    <3>1. SUFFICES ASSUME NEW i \in Items, NEW j \in Items
                   PROVE  ~ Before(j, i) \/ ~ Before(i, j)
      BY <1>2
    <3>2. length[i] \in Int /\ length[j] \in Int /\ i \in Int /\ j \in Int
      BY <1>1
    <3>3. QED
      BY <3>2 DEF Before
  <2>3. \A i, j \in Items : <<i, j>> \in R /\ <<j, i>> \in R => i = j
    BY <1>1, <1>2 DEF Before
  <2>4. \A i, j, k \in Items : <<i, j>> \in R /\ <<j, k>> \in R => <<i, k>> \in R
    <3>1. SUFFICES ASSUME NEW i \in Items, NEW j \in Items, NEW k \in Items,
                          ~ Before(j, i), ~ Before(k, j)
                   PROVE  ~ Before(k, i)
      BY <1>2
    <3>2. /\ length[i] \in Int /\ length[j] \in Int /\ length[k] \in Int
          /\ i \in Int /\ j \in Int /\ k \in Int
      BY <1>1
    <3>3. QED
      BY <3>1, <3>2 DEF Before
  <2>5. QED
    BY <1>1, <2>1, <2>2, <2>3, <2>4, Zenon DEF Orders
<1>5. pos = RanksIn(R, n)
  OBVIOUS
<1> HIDE DEF pos, n
<1>6. NamesOnce(pos, n) /\ Follows(pos, R, n)
  BY <1>1, <1>4, <1>5, Ranking
<1>7. /\ pos \in [Items -> Items]
      /\ \A k \in Items : \E i \in Items : pos[i] = k
      /\ \A i, j \in Items : pos[i] = pos[j] => i = j
      /\ \A i, j \in Items : pos[i] <= pos[j] => <<i, j>> \in R
  BY <1>1, <1>6, Zenon DEF NamesOnce, Follows
<1>8. \A k \in Items : f[k] = CHOOSE i \in Items : Turn(i) = k
  BY DEF Sorted
<1> HIDE DEF f
<1>9. \A k \in Items : f[k] \in Items /\ pos[f[k]] = k
  <2>1. SUFFICES ASSUME NEW k \in Items PROVE f[k] \in Items /\ pos[f[k]] = k
    OBVIOUS
  <2>2. \E i \in Items : Turn(i) = k
    BY <1>3, <1>7
  <2>3. f[k] \in Items /\ Turn(f[k]) = k
    BY <1>8, <2>2
  <2>4. QED
    BY <1>3, <2>3
<1>10. \A k, l \in Items : f[k] = f[l] => k = l
  BY <1>9
<1>11. \A i \in Items : \E k \in Items : f[k] = i
  BY <1>7, <1>9
<1>12. ASSUME NEW k \in Items, NEW l \in Items, k <= l
       PROVE  length[f[k]] <= length[f[l]]
  <2>1. <<f[k], f[l]>> \in R
    BY <1>7, <1>9, <1>12
  <2>2. ~ Before(f[l], f[k])
    BY <1>2, <1>9, <2>1
  <2>3. length[f[k]] \in Int /\ length[f[l]] \in Int
    BY <1>1, <1>9
  <2>4. QED
    BY <2>2, <2>3 DEF Before
<1>13. QED
  BY <1>9, <1>10, <1>11, <1>12 DEF f

\* Where a part of a state of neighbours comes from.
Spot(g, p) == g * K + K + 1 - p

Groups == 0 .. NumItems \div K - 1

\* With equal sizes every place of the sorted list is one part of one state.
LEMMA Spots ==
  ASSUME KarmarkarKarpAssumption, EqualSize
  PROVE  /\ \A g \in Groups, p \in Parts : Spot(g, p) \in Items
         /\ \A g, h \in Groups, p, q \in Parts : Spot(g, p) = Spot(h, q) => g = h /\ p = q
         /\ \A k \in Items : \E g \in Groups, p \in Parts : Spot(g, p) = k
<1> DEFINE M == NumItems \div K
<1>1. K \in Nat \ {0} /\ NumItems \in Nat /\ NumItems % K = 0
  BY DEF KarmarkarKarpAssumption
<1>2. M \in Nat /\ NumItems = M * K
  BY <1>1, SMTT(30)
<1>3. Groups = 0 .. M - 1 /\ Parts = 1 .. K /\ Items = 1 .. NumItems
  BY DEF Groups, Parts, Items
<1> HIDE DEF M
<1>4. ASSUME NEW g \in Groups, NEW p \in Parts PROVE Spot(g, p) \in Items
  <2> DEFINE a == g * K
  <2>1. a \in Nat /\ a + K <= M * K
    <3>1. g \in Nat /\ g + 1 <= M
      BY <1>2, <1>3
    <3>2. QED
      BY <1>1, <1>2, <3>1, SMTT(30)
  <2>2. Spot(g, p) = a + K + 1 - p
    BY DEF Spot
  <2> HIDE DEF a
  <2>3. QED
    BY <1>1, <1>2, <1>3, <2>1, <2>2
<1>5. ASSUME NEW g \in Groups, NEW h \in Groups, NEW p \in Parts, NEW q \in Parts, g < h
      PROVE  Spot(g, p) < Spot(h, q)
  <2> DEFINE a == g * K
             b == h * K
  <2>1. a \in Nat /\ b \in Nat /\ a + K <= b
    <3>1. g \in Nat /\ h \in Nat /\ g + 1 <= h
      BY <1>2, <1>3, <1>5
    <3>2. QED
      BY <1>1, <3>1, SMTT(30)
  <2>2. Spot(g, p) = a + K + 1 - p /\ Spot(h, q) = b + K + 1 - q
    BY DEF Spot
  <2> HIDE DEF a, b
  <2>3. QED
    BY <1>1, <1>3, <2>1, <2>2
<1>6. ASSUME NEW g \in Groups, NEW h \in Groups, NEW p \in Parts, NEW q \in Parts,
             Spot(g, p) = Spot(h, q)
      PROVE  g = h /\ p = q
  <2>1. Spot(g, p) \in Int /\ Spot(h, q) \in Int /\ g \in Int /\ h \in Int
    BY <1>2, <1>3, <1>4
  <2>2. g = h
    BY <1>5, <1>6, <2>1
  <2> DEFINE a == g * K
  <2>3. a \in Int /\ Spot(g, p) = a + K + 1 - p /\ Spot(h, q) = a + K + 1 - q
    BY <1>1, <2>1, <2>2 DEF Spot
  <2> HIDE DEF a
  <2>4. QED
    BY <1>1, <1>3, <1>6, <2>2, <2>3
<1>7. ASSUME NEW k \in Items PROVE \E g \in Groups, p \in Parts : Spot(g, p) = k
  <2> DEFINE g == (k - 1) \div K
             r == (k - 1) % K
             a == g * K
  <2>1. g \in Nat /\ r \in 0 .. K - 1 /\ k - 1 = a + r
    BY <1>1, <1>3, SMTT(30)
  <2>2. g < M
    <3> DEFINE b == M * K
    <3>0. k \in 1 .. b /\ b \in Int /\ a \in Int /\ r \in Nat /\ k - 1 = a + r
      BY <1>1, <1>2, <1>3, <2>1
    <3> HIDE DEF a, b, r
    <3>1. a < b
      BY <3>0
    <3> HIDE DEF g
    <3>2. g * K < M * K
      BY <3>1 DEF a, b
    <3>3. QED
      BY <1>1, <1>2, <2>1, <3>2, SMTT(30)
  <2> HIDE DEF g, r
  <2>3. g \in Groups /\ K - r \in Parts
    BY <1>1, <1>2, <1>3, <2>1, <2>2
  <2>4. Spot(g, K - r) = a + K + 1 - (K - r)
    BY DEF Spot
  <2>5. a \in Int
    BY <1>1, <2>1
  <2> HIDE DEF a
  <2>6. Spot(g, K - r) = k
    BY <1>1, <1>3, <2>1, <2>4, <2>5
  <2>7. QED
    BY <2>3, <2>6
<1>8. QED
  BY <1>4, <1>6, <1>7

\* A set of one element.
LEMMA Singles == \A x : IsFiniteSet({x}) /\ Cardinality({x}) = 1
BY FS_Singleton

\* The set an item starts with.
LEMMA SetOfItem ==
  ASSUME Lengths, NEW i \in Items
  PROVE  /\ SetOf(i) \in SetType /\ SetOf(i).sum = length[i] /\ SetOf(i).items = {i}
         /\ SetOf(i).sum > 0 /\ length[i] \in Nat
BY DEF Lengths, SetOf, SetType

\* K neighbours of the sorted list.
LEMMA NeighboursState ==
  ASSUME KarmarkarKarpAssumption, Lengths, EqualSize, NEW g \in Groups
  PROVE  /\ IsState(Neighbours(g))
         /\ \A p \in Parts : Neighbours(g)[p].items = {Sorted[Spot(g, p)]}
<1> DEFINE s == Neighbours(g)
           at(p) == Sorted[Spot(g, p)]
<1>1. \A p \in Parts : Spot(g, p) \in Items /\ at(p) \in Items
  BY Spots, SortedList
<1>2. s = [p \in Parts |-> SetOf(at(p))]
  BY DEF Neighbours, Spot
<1>3. \A p \in Parts : /\ s[p] = SetOf(at(p)) /\ s[p] \in SetType
                       /\ s[p].sum = length[at(p)] /\ s[p].items = {at(p)}
                       /\ s[p].sum > 0 /\ length[at(p)] \in Nat
  BY <1>1, <1>2, SetOfItem
<1>4. s \in [Parts -> SetType]
  BY <1>2, <1>3
<1>5. Counted(s)
  BY <1>3 DEF Counted
<1>6. Ordered(s)
  <2>1. SUFFICES ASSUME NEW p \in Parts, NEW q \in Parts, p < q
                 PROVE  length[at(q)] <= length[at(p)]
    BY <1>3 DEF Ordered
  <2>2. Spot(g, q) <= Spot(g, p)
    <3> DEFINE a == g * K + K + 1
    <3>1. p \in Int /\ q \in Int /\ g \in Int /\ K \in Int
      BY DEF Parts, Groups, KarmarkarKarpAssumption
    <3>2. a \in Int
      BY <3>1
    <3>3. Spot(g, q) = a - q /\ Spot(g, p) = a - p
      BY <3>1, <3>2 DEF Spot
    <3> HIDE DEF a
    <3>4. QED
      BY <2>1, <3>1, <3>2, <3>3
  <2>3. QED
    BY <1>1, <2>2, SortedList
<1>7. Level(s)
  BY <1>3, Singles DEF Level
<1>8. Narrow(s)
  <2>1. SUFFICES ASSUME NEW p \in Parts, NEW q \in Parts
                 PROVE  \E i, j \in Items : s[p].sum - s[q].sum <= length[i] - Less0(j)
    BY DEF Narrow
  <2>2. s[p].sum - s[q].sum <= length[at(p)] - Less0(at(q))
    BY <1>3 DEF Less0
  <2>3. QED
    BY <1>1, <2>2
<1>9. QED
  BY <1>3, <1>4, <1>5, <1>6, <1>7, <1>8 DEF IsState, Filled

\* One item, and empty sets.
LEMMA AloneState ==
  ASSUME KarmarkarKarpAssumption, Lengths, ~ EqualSize, NEW i \in Items
  PROVE  /\ IsState(Alone(i))
         /\ 1 \in Parts
         /\ \A p \in Parts : Alone(i)[p].items = IF p = 1 THEN {i} ELSE {}
<1> DEFINE s == Alone(i)
<1>1. \A p \in Parts : /\ p \in Nat /\ p >= 1
                       /\ s[p] = (IF p = 1 THEN SetOf(i) ELSE EmptySet)
  BY DEF Alone, Parts
<1>2. /\ EmptySet \in SetType /\ EmptySet.sum = 0 /\ EmptySet.items = {}
  BY DEF EmptySet, SetType
<1>3. /\ SetOf(i) \in SetType /\ SetOf(i).sum = length[i] /\ SetOf(i).items = {i}
      /\ SetOf(i).sum > 0 /\ length[i] \in Nat
  BY SetOfItem
<1>4. 1 \in Parts
  BY DEF Parts, KarmarkarKarpAssumption
<1>5. s \in [Parts -> SetType]
  <2>1. s = [p \in Parts |-> IF p = 1 THEN SetOf(i) ELSE EmptySet]
    BY DEF Alone
  <2>2. QED
    BY <1>2, <1>3, <2>1
<1> HIDE DEF s
<1>6. \A p \in Parts : s[p].items = IF p = 1 THEN {i} ELSE {}
  BY <1>1, <1>2, <1>3
<1>7. \A p \in Parts : s[p].sum = IF p = 1 THEN length[i] ELSE 0
  BY <1>1, <1>2, <1>3
<1>8. Counted(s)
  BY <1>3, <1>6, <1>7 DEF Counted
<1>9. Ordered(s)
  BY <1>1, <1>3, <1>7 DEF Ordered
<1>10. Narrow(s)
  <2>1. \A p, q \in Parts : s[p].sum - s[q].sum <= length[i] - Less0(i)
    BY <1>3, <1>7 DEF Less0
  <2>2. QED
    BY <2>1 DEF Narrow
<1>11. Filled(s)
  <2>1. Whole(s) = {i}
    BY <1>4, <1>6 DEF Whole
  <2>2. Cardinality(Whole(s)) = 1
    BY <2>1, Singles
  <2>3. \A p \in Parts : p <= 1 => p = 1
    BY <1>1
  <2>4. QED
    BY <1>6, <2>2, <2>3 DEF Filled
<1>12. QED
  BY <1>4, <1>5, <1>6, <1>8, <1>9, <1>10, <1>11 DEF IsState, Level, s

------------------------------------------------------------------------------
(* The loop.                                                               *)

\* The invariant holds at first ...
LEMMA KKInit == KarmarkarKarpAssumption /\ Init => KKInv
BY DEF Init, KKInv, Lengths, ItemsOnce

\* Lengths do not change, and nothing else matters to a state.
LEMMA StateKept ==
  ASSUME length' = length, NEW s, IsState(s)
  PROVE  IsState(s)'
BY DEF IsState, Counted, Ordered, Level, Narrow, Less0, Filled, Whole

\* ... filling the pool preserves it ...
LEMMA KKFill ==
  ASSUME KKInv, Fill
  PROVE  KKInv'
<1>1. /\ KarmarkarKarpAssumption /\ Lengths /\ length' = length
  BY DEF KKInv, Fill
<1>2. CASE EqualSize
  <2>1. pool' = {Neighbours(g) : g \in Groups}
    BY <1>2 DEF Fill, Groups
  <2>2. \A g \in Groups : /\ IsState(Neighbours(g))
                          /\ \A p \in Parts : Neighbours(g)[p].items = {Sorted[Spot(g, p)]}
    BY <1>1, <1>2, NeighboursState
  <2>3. \A s \in pool' : IsState(s)'
    <3>1. SUFFICES ASSUME NEW s \in pool' PROVE IsState(s)'
      OBVIOUS
    <3>2. PICK g \in Groups : s = Neighbours(g)
      BY <2>1
    <3>3. IsState(s)
      BY <2>2, <3>2
    <3>4. QED
      BY <1>1, <3>3, StateKept
  <2>4. \A i \in Items : \E s \in pool', p \in Parts : i \in s[p].items
    <3>1. SUFFICES ASSUME NEW i \in Items
                   PROVE  \E s \in pool', p \in Parts : i \in s[p].items
      OBVIOUS
    <3>2. PICK k \in Items : Sorted[k] = i
      BY <1>1, SortedList
    <3>3. PICK g \in Groups, p \in Parts : Spot(g, p) = k
      BY <1>1, <1>2, Spots
    <3>4. Neighbours(g) \in pool' /\ i \in Neighbours(g)[p].items
      BY <2>1, <2>2, <3>2, <3>3
    <3>5. QED
      BY <3>4
  <2>5. ASSUME NEW s \in pool', NEW t \in pool', NEW p \in Parts, NEW q \in Parts,
               s[p].items \cap t[q].items # {}
        PROVE  s = t /\ p = q
    <3>1. PICK g \in Groups : s = Neighbours(g)
      BY <2>1
    <3>2. PICK h \in Groups : t = Neighbours(h)
      BY <2>1
    <3>3. s[p].items = {Sorted[Spot(g, p)]} /\ t[q].items = {Sorted[Spot(h, q)]}
      BY <2>2, <3>1, <3>2
    <3>4. Sorted[Spot(g, p)] = Sorted[Spot(h, q)]
      BY <2>5, <3>3
    <3>5. Spot(g, p) \in Items /\ Spot(h, q) \in Items
      BY <1>1, <1>2, Spots
    <3>6. Spot(g, p) = Spot(h, q)
      BY <1>1, <3>4, <3>5, SortedList
    <3>7. QED
      BY <1>1, <1>2, <3>1, <3>2, <3>6, Spots
  <2>6. ItemsOnce'
    BY <2>4, <2>5 DEF ItemsOnce
  <2>7. QED
    BY <1>1, <2>3, <2>6 DEF KKInv, Lengths, KarmarkarKarpAssumption
<1>3. CASE ~ EqualSize
  <2>1. pool' = {Alone(i) : i \in Items}
    BY <1>3 DEF Fill
  <2>2. \A i \in Items :
          /\ IsState(Alone(i)) /\ 1 \in Parts
          /\ \A p \in Parts : Alone(i)[p].items = IF p = 1 THEN {i} ELSE {}
    BY <1>1, <1>3, AloneState
  <2>3. \A s \in pool' : IsState(s)'
    <3>1. SUFFICES ASSUME NEW s \in pool' PROVE IsState(s)'
      OBVIOUS
    <3>2. PICK g \in Items : s = Alone(g)
      BY <2>1
    <3>3. IsState(s)
      BY <2>2, <3>2
    <3>4. QED
      BY <1>1, <3>3, StateKept
  <2>4. \A i \in Items : \E s \in pool', p \in Parts : i \in s[p].items
    <3>1. SUFFICES ASSUME NEW i \in Items
                   PROVE  \E s \in pool', p \in Parts : i \in s[p].items
      OBVIOUS
    <3>2. Alone(i) \in pool' /\ 1 \in Parts /\ i \in Alone(i)[1].items
      BY <2>1, <2>2, ZenonT(30)
    <3>3. QED
      BY <3>2
  <2>5. ASSUME NEW s \in pool', NEW t \in pool', NEW p \in Parts, NEW q \in Parts,
               s[p].items \cap t[q].items # {}
        PROVE  s = t /\ p = q
    <3>1. PICK i \in Items : s = Alone(i)
      BY <2>1
    <3>2. PICK j \in Items : t = Alone(j)
      BY <2>1
    <3>3. /\ s[p].items = IF p = 1 THEN {i} ELSE {}
          /\ t[q].items = IF q = 1 THEN {j} ELSE {}
      BY <2>2, <3>1, <3>2
    <3>4. p = 1 /\ q = 1 /\ i = j
      BY <2>5, <3>3
    <3>5. QED
      BY <3>1, <3>2, <3>4
  <2>6. ItemsOnce'
    BY <2>4, <2>5 DEF ItemsOnce
  <2>7. QED
    BY <1>1, <2>3, <2>6 DEF KKInv, Lengths, KarmarkarKarpAssumption
<1>4. QED
  BY <1>2, <1>3

\* ... merging its two widest states preserves it ...
LEMMA KKMerge ==
  ASSUME KKInv, Merge
  PROVE  KKInv'
<1>1. /\ KarmarkarKarpAssumption /\ Lengths /\ length' = length
      /\ \A s \in pool : IsState(s)
  BY DEF KKInv, Merge
<1>a. PICK s \in pool, t \in pool :
        /\ s # t
        /\ \E u \in Arranged(Crossed(s, t)) : pool' = (pool \ {s, t}) \cup {u}
  BY DEF Merge
<1>b. PICK u \in Arranged(Crossed(s, t)) : pool' = (pool \ {s, t}) \cup {u}
  BY <1>a
<1>2. s # t /\ pool' = (pool \ {s, t}) \cup {u}
  BY <1>a, <1>b
<1>3. /\ \A i \in Items : \E v \in pool, p \in Parts : i \in v[p].items
      /\ \A v, w \in pool : \A p, q \in Parts :
           v[p].items \cap w[q].items # {} => v = w /\ p = q
  BY DEF KKInv, ItemsOnce
<1>4. IsState(s) /\ IsState(t) /\ Apart(s, t)
  BY <1>1, <1>2, <1>3 DEF Apart
<1>5. IsState(u)
  BY <1>1, <1>4, MergedState
<1>6. \A v \in pool' : IsState(v)'
  BY <1>1, <1>2, <1>5, StateKept
<1> DEFINE c == Crossed(s, t)
<1>7. /\ c \in [Parts -> SetType]
      /\ \A p \in Parts : c[p].items = s[p].items \cup t[K + 1 - p].items
  BY <1>1, <1>4, CrossedParts DEF IsState
<1>8. PICK m \in [Parts -> Parts] :
        /\ \A p \in Parts : u[p] = c[m[p]]
        /\ \A p, q \in Parts : m[p] = m[q] => p = q
        /\ \A q \in Parts : \E p \in Parts : m[p] = q
  BY <1>7, Sorting, SMTT(30)
<1> HIDE DEF c
<1>9. \A p \in Parts : /\ m[p] \in Parts /\ K + 1 - m[p] \in Parts /\ K + 1 - p \in Parts
                       /\ K + 1 - (K + 1 - p) = p /\ K + 1 - (K + 1 - m[p]) = m[p]
                       /\ u[p].items = s[m[p]].items \cup t[K + 1 - m[p]].items
  <2>1. \A p \in Parts : K + 1 - p \in Parts /\ K + 1 - (K + 1 - p) = p
    BY <1>1, Across
  <2>2. \A p \in Parts : m[p] \in Parts
    OBVIOUS
  <2>3. QED
    BY <1>7, <1>8, <2>1, <2>2
<1>10. \A i \in Items : \E v \in pool', p \in Parts : i \in v[p].items
  <2>1. SUFFICES ASSUME NEW i \in Items
                 PROVE  \E v \in pool', p \in Parts : i \in v[p].items
    OBVIOUS
  <2>2. PICK v \in pool, q \in Parts : i \in v[q].items
    BY <1>3
  <2>3. CASE v = s
    <3>1. PICK p \in Parts : m[p] = q
      BY <1>8
    <3>2. i \in u[p].items
      BY <1>9, <2>2, <2>3, <3>1
    <3>3. QED
      BY <1>2, <3>2
  <2>4. CASE v = t
    <3>1. PICK p \in Parts : m[p] = K + 1 - q
      BY <1>8, <1>9
    <3>2. i \in u[p].items
      <4>1. K + 1 - m[p] = q
        BY <1>9, <3>1
      <4>2. QED
        BY <1>9, <2>2, <2>4, <4>1
    <3>3. QED
      BY <1>2, <3>2
  <2>5. CASE v # s /\ v # t
    <3>1. v \in pool'
      BY <1>2, <2>5
    <3>2. QED
      BY <2>2, <3>1
  <2>6. QED
    BY <2>3, <2>4, <2>5
\* Where an item of the new state was before.
<1>11. \A p \in Parts : \A i \in u[p].items :
         i \in s[m[p]].items \/ i \in t[K + 1 - m[p]].items
  BY <1>9
<1>12. ASSUME NEW p \in Parts, NEW q \in Parts, NEW i, i \in u[p].items, i \in u[q].items
       PROVE  p = q
  <2>1. m[p] = m[q]
    <3>1. /\ m[p] \in Parts /\ m[q] \in Parts
          /\ K + 1 - m[p] \in Parts /\ K + 1 - m[q] \in Parts
      BY <1>9
    <3>2. CASE i \in s[m[p]].items
      <4>1. i \notin t[K + 1 - m[q]].items
        BY <1>2, <1>3, <3>1, <3>2
      <4>2. i \in s[m[q]].items
        BY <1>11, <1>12, <4>1
      <4>3. QED
        BY <1>2, <1>3, <3>1, <3>2, <4>2
    <3>3. CASE i \in t[K + 1 - m[p]].items
      <4>1. i \notin s[m[q]].items
        BY <1>2, <1>3, <3>1, <3>3
      <4>2. i \in t[K + 1 - m[q]].items
        BY <1>11, <1>12, <4>1
      <4>3. K + 1 - m[p] = K + 1 - m[q]
        BY <1>2, <1>3, <3>1, <3>3, <4>2
      <4>4. QED
        BY <1>9, <4>3
    <3>4. QED
      BY <1>11, <1>12, <3>2, <3>3
  <2>2. QED
    BY <1>8, <2>1
<1>13. ASSUME NEW v \in pool \ {s, t}, NEW p \in Parts, NEW q \in Parts,
              NEW i, i \in v[p].items, i \in u[q].items
       PROVE  FALSE
  <2>1. m[q] \in Parts /\ K + 1 - m[q] \in Parts
    BY <1>9
  <2>2. i \in s[m[q]].items \/ i \in t[K + 1 - m[q]].items
    BY <1>11, <1>13
  <2>3. QED
    BY <1>2, <1>3, <1>13, <2>1, <2>2
<1>14. ASSUME NEW v \in pool', NEW w \in pool', NEW p \in Parts, NEW q \in Parts,
              v[p].items \cap w[q].items # {}
       PROVE  v = w /\ p = q
  <2>1. PICK i : i \in v[p].items /\ i \in w[q].items
    BY <1>14
  <2>2. CASE v = u /\ w = u
    BY <1>12, <2>1, <2>2
  <2>3. CASE v # u
    <3>1. v \in pool \ {s, t}
      BY <1>2, <2>3
    <3>2. w \in pool
      BY <1>2, <1>13, <2>1, <3>1
    <3>3. QED
      BY <1>3, <1>14, <3>1, <3>2
  <2>4. CASE w # u
    <3>1. w \in pool \ {s, t}
      BY <1>2, <2>4
    <3>2. v \in pool
      BY <1>2, <1>13, <2>1, <3>1
    <3>3. QED
      BY <1>3, <1>14, <3>1, <3>2
  <2>5. QED
    BY <2>2, <2>3, <2>4
<1>15. ItemsOnce'
  BY <1>10, <1>14 DEF ItemsOnce
<1>16. QED
  BY <1>1, <1>6, <1>15 DEF KKInv, Lengths, KarmarkarKarpAssumption

\* ... a stuttering step preserves it ...
LEMMA KKStutter == KKInv /\ UNCHANGED vars => KKInv'
<1>1. SUFFICES ASSUME KKInv, UNCHANGED vars PROVE KKInv'
  OBVIOUS
<1>2. length' = length /\ pool' = pool
  BY <1>1 DEF vars
<1>3. \A s \in pool' : IsState(s)'
  BY <1>1, <1>2, StateKept DEF KKInv
<1>4. QED
  BY <1>1, <1>2, <1>3 DEF KKInv, Lengths, ItemsOnce, KarmarkarKarpAssumption

\* ... every step does ...
LEMMA KKNext == KKInv /\ [Next]_vars => KKInv'
BY KKFill, KKMerge, KKStutter DEF Next

\* ... and so it always holds.
LEMMA KKAlways == KarmarkarKarpAssumption /\ Spec => []KKInv
<1>1. KarmarkarKarpAssumption /\ Init => KKInv
  BY KKInit
<1>2. KKInv /\ [Next]_vars => KKInv'
  BY KKNext
<1>3. QED
  BY <1>1, <1>2, PTL DEF Spec

------------------------------------------------------------------------------
(* What follows.                                                           *)

\* Every sequence is in exactly one part (seqlen_balancing.py:187): the rows of
\* a batch are neither lost nor doubled by balancing.
THEOREM EverySequenceOnce == KarmarkarKarpAssumption /\ Spec => []ItemsOnce
<1>1. KKInv => ItemsOnce
  BY DEF KKInv
<1>2. QED
  BY <1>1, KKAlways, PTL

\* The assertion at the end of karmarkar_karp (seqlen_balancing.py:124).
THEOREM PartsOfOneSize == KarmarkarKarpAssumption /\ Spec => []SameSize
<1>1. KKInv => SameSize
  BY DEF KKInv, IsState, Level, SameSize
<1>2. QED
  BY <1>1, KKAlways, PTL

\* Parts differ by no more than two sequences do, or one is long.
THEOREM PartsAreEven == KarmarkarKarpAssumption /\ Spec => []Even
<1>1. KKInv => Even
  <2>1. SUFFICES ASSUME KKInv, NEW s \in pool, NEW p \in Parts, NEW q \in Parts
                 PROVE  \E i, j \in Items :
                          s[p].sum - s[q].sum <= length[i] - (IF EqualSize THEN length[j] ELSE 0)
    BY DEF Even
  <2>2. Narrow(s)
    BY <2>1 DEF KKInv, IsState
  <2>3. QED
    BY <2>2 DEF Narrow, Less0
<1>2. QED
  BY <1>1, KKAlways, PTL

\* No part of the result is empty, the assertion of seqlen_balancing.py:183.
THEOREM NoPartIsEmpty == KarmarkarKarpAssumption /\ Spec => []PartsFilled
<1>1. KKInv => PartsFilled
  <2>1. SUFFICES ASSUME KKInv, NEW s \in pool, pool = {s}, NEW p \in Parts,
                        s[p].items = {}
                 PROVE  FALSE
    BY DEF PartsFilled
  <2>2. IsState(s) /\ KarmarkarKarpAssumption
    BY <2>1 DEF KKInv
  <2>3. \A i \in Items : \E q \in Parts : i \in s[q].items
    BY <2>1 DEF KKInv, ItemsOnce
  <2>4. Whole(s) = Items
    <3>1. Whole(s) \in SUBSET Items
      BY <2>2 DEF IsState, SetType, Whole
    <3>2. QED
      BY <2>3, <3>1 DEF Whole
  <2>5. Cardinality(Whole(s)) = NumItems
    BY <2>2, <2>4, FiniteItems
  <2>6. CASE ~ EqualSize
    <3>1. p <= NumItems
      BY <2>2 DEF KarmarkarKarpAssumption, Parts
    <3>2. QED
      BY <2>1, <2>2, <2>5, <2>6, <3>1 DEF IsState, Filled
  <2>7. CASE EqualSize
    <3>1. 1 \in Items
      BY <2>2 DEF KarmarkarKarpAssumption, Items
    <3>2. PICK q \in Parts : 1 \in s[q].items
      BY <2>3, <3>1
    <3>3. /\ IsFiniteSet(s[q].items) /\ Cardinality(s[q].items) = Cardinality({})
      <4>1. s[q].items \in SUBSET Items
        BY <2>2 DEF IsState, SetType
      <4>2. Cardinality(s[q].items) = Cardinality(s[p].items)
        BY <2>2, <2>7 DEF IsState, Level
      <4>3. QED
        BY <2>1, <2>2, <4>1, <4>2, FiniteItems
    <3>4. s[q].items = {}
      <4>1. Cardinality(s[q].items) = 0
        BY <3>3, FS_EmptySet
      <4>2. QED
        BY <3>3, <4>1, FS_EmptySet
    <3>5. QED
      BY <3>2, <3>4
  <2>8. QED
    BY <2>6, <2>7
<1>2. QED
  BY <1>1, KKAlways, PTL

------------------------------------------------------------------------------
(* What the sums of the parts are.                                          *)

\* The length of every set of items.
LengthOf(len) == CHOOSE F : SumsUp(F, len, SUBSET Items)

\* The sum of a part is the length of its items.
Added(s) == \A p \in Parts : s[p].sum = LengthOf(length)[s[p].items]

KKSums == \A s \in pool : Added(s)

\* Lengths of sets of items can be taken apart.
LEMMA LengthsAdd ==
  ASSUME KarmarkarKarpAssumption, Lengths
  PROVE  /\ SumsUp(LengthOf(length), length, SUBSET Items)
         /\ \A i \in Items : length[i] \in Int
         /\ LengthOf(length)[{}] = 0
         /\ \A i \in Items : LengthOf(length)[{i}] = length[i]
         /\ \A A, B \in SUBSET Items :
              A \cap B = {} =>
                LengthOf(length)[A \cup B] = LengthOf(length)[A] + LengthOf(length)[B]
<1> DEFINE F == LengthOf(length)
<1>1. IsFiniteSet(Items)
  BY FiniteItems
<1>2. \A i \in Items : length[i] \in Int
  BY DEF Lengths
<1>3. SumsUp(F, length, SUBSET Items)
  <2>1. \E H : SumsUp(H, length, SUBSET Items)
    BY <1>1, SumsExist
  <2>2. QED
    BY <2>1, Zenon DEF LengthOf
<1> HIDE DEF F
<1>4. ComesApart(F, length, Items)
  BY <1>1, <1>2, <1>3, SumParts
<1>5. F[{}] = 0
  BY <1>4 DEF ComesApart
<1>6. ASSUME NEW i \in Items PROVE F[{i}] = length[i]
  <2> DEFINE T == {i}
  <2>1. T \in SUBSET Items /\ i \in T /\ T \ {i} = {}
    OBVIOUS
  <2> HIDE DEF T
  <2>2. F[T] = length[i] + F[{}]
    BY <1>4, <2>1 DEF ComesApart
  <2>3. QED
    BY <1>2, <1>5, <2>2 DEF T
<1>7. ASSUME NEW A \in SUBSET Items, NEW B \in SUBSET Items, A \cap B = {}
      PROVE  F[A \cup B] = F[A] + F[B]
  BY <1>1, <1>2, <1>3, <1>7, SumOfBoth
<1>8. QED
  BY <1>2, <1>3, <1>5, <1>6, <1>7 DEF F

\* It is so when the pool is filled, ...
LEMMA SumsFill ==
  ASSUME KKInv, Fill
  PROVE  KKSums'
<1>1. /\ KarmarkarKarpAssumption /\ Lengths /\ length' = length
  BY DEF KKInv, Fill
<1> DEFINE F == LengthOf(length)
<1>2. F[{}] = 0 /\ \A i \in Items : F[{i}] = length[i]
  BY <1>1, LengthsAdd
<1> HIDE DEF F
<1>3. ASSUME NEW s \in pool', NEW p \in Parts PROVE s[p].sum = F[s[p].items]
  <2>1. CASE EqualSize
    <3>1. PICK g \in Groups : s = Neighbours(g)
      BY <2>1 DEF Fill, Groups
    <3> DEFINE i == Sorted[Spot(g, p)]
    <3>2. s[p] = SetOf(i)
      BY <3>1 DEF Neighbours, Spot
    <3>3. i \in Items
      BY <1>1, <2>1, Spots, SortedList
    <3> HIDE DEF i
    <3>4. s[p].sum = length[i] /\ s[p].items = {i}
      BY <1>1, <3>2, <3>3, SetOfItem
    <3>5. QED
      BY <1>2, <3>3, <3>4
  <2>2. CASE ~ EqualSize
    <3>1. PICK i \in Items : s = Alone(i)
      BY <2>2 DEF Fill
    <3>2. s[p] = IF p = 1 THEN SetOf(i) ELSE EmptySet
      BY <3>1 DEF Alone
    <3>3. CASE p = 1
      <4>1. s[p].sum = length[i] /\ s[p].items = {i}
        BY <1>1, <3>2, <3>3, SetOfItem
      <4>2. QED
        BY <1>2, <4>1
    <3>4. CASE p # 1
      BY <1>2, <3>2, <3>4 DEF EmptySet
    <3>5. QED
      BY <3>3, <3>4
  <2>3. QED
    BY <2>1, <2>2
<1>4. QED
  BY <1>1, <1>3 DEF KKSums, Added, F

\* ... when two states are merged, ...
LEMMA SumsMerge ==
  ASSUME KKInv, KKSums, Merge
  PROVE  KKSums'
<1>1. /\ KarmarkarKarpAssumption /\ Lengths /\ length' = length
      /\ \A s \in pool : IsState(s)
  BY DEF KKInv, Merge
<1>2. PICK s \in pool, t \in pool :
        /\ s # t
        /\ \E u \in Arranged(Crossed(s, t)) : pool' = (pool \ {s, t}) \cup {u}
  BY DEF Merge
<1>3. PICK u \in Arranged(Crossed(s, t)) : pool' = (pool \ {s, t}) \cup {u}
  BY <1>2
<1> DEFINE F == LengthOf(length)
           c == Crossed(s, t)
<1>4. /\ s \in [Parts -> SetType] /\ t \in [Parts -> SetType]
  BY <1>1 DEF IsState
<1>5. /\ c \in [Parts -> SetType]
      /\ \A p \in Parts : /\ c[p].sum = s[p].sum + t[K + 1 - p].sum
                          /\ c[p].items = s[p].items \cup t[K + 1 - p].items
  BY <1>1, <1>4, CrossedParts
<1>6. \A A, B \in SUBSET Items : A \cap B = {} => F[A \cup B] = F[A] + F[B]
  BY <1>1, LengthsAdd
<1> HIDE DEF F
<1>7. ASSUME NEW p \in Parts PROVE c[p].sum = F[c[p].items]
  <2> DEFINE q == K + 1 - p
             A == s[p].items
             B == t[q].items
  <2>1. q \in Parts
    BY <1>1, Across
  <2>2. s[p].sum = F[A] /\ t[q].sum = F[B]
    BY <2>1 DEF KKSums, Added, F
  <2>3. A \in SUBSET Items /\ B \in SUBSET Items
    BY <1>4, <2>1 DEF SetType
  <2>4. A \cap B = {}
    BY <1>2, <2>1 DEF KKInv, ItemsOnce
  <2>5. c[p].sum = s[p].sum + t[q].sum /\ c[p].items = A \cup B
    BY <1>5
  <2> HIDE DEF A, B
  <2>6. F[A \cup B] = F[A] + F[B]
    BY <1>6, <2>3, <2>4
  <2>7. QED
    BY <2>2, <2>5, <2>6
<1>8. \E m \in [Parts -> Parts] : \A p \in Parts : u[p] = c[m[p]]
  BY <1>3, <1>5, Sorting, Zenon
<1> HIDE DEF c
<1>9. \A p \in Parts : u[p].sum = F[u[p].items]
  <2>1. PICK m \in [Parts -> Parts] : \A p \in Parts : u[p] = c[m[p]]
    BY <1>8
  <2>2. \A p \in Parts : m[p] \in Parts
    OBVIOUS
  <2>3. QED
    BY <1>7, <2>1, <2>2
<1>10. \A v \in pool : \A p \in Parts : v[p].sum = F[v[p].items]
  BY DEF KKSums, Added, F
<1>11. QED
  BY <1>1, <1>3, <1>9, <1>10 DEF KKSums, Added, F

\* ... and as long as neither lengths nor states change.
LEMMA SumsKept == KKSums /\ UNCHANGED vars => KKSums'
<1>1. SUFFICES ASSUME KKSums, UNCHANGED vars PROVE KKSums'
  OBVIOUS
<1>2. length' = length /\ pool' = pool
  BY <1>1 DEF vars
<1>3. ASSUME NEW s \in pool' PROVE Added(s)'
  <2>1. Added(s)
    BY <1>1, <1>2 DEF KKSums
  <2>2. QED
    BY <1>2, <2>1 DEF Added
<1>4. QED
  BY <1>3 DEF KKSums

------------------------------------------------------------------------------
(* What the ranks get: parts that come one after the other.                  *)

\* Rows of rows.
LEMMA RowInRow ==
  ASSUME NEW r \in Nat \ {0}, NEW sp \in Nat \ {0}, NEW m \in Nat \ {0}, NEW k \in Nat \ {0},
         NEW j \in Nat, NEW size, size = sp * k
  PROVE  RowAt(r, size, RowAt(m, k, j)) = RowAt(RowAt(r, sp, m), k, j)
<1> DEFINE a == r - 1
           b == m - 1
           x == a * sp
           y == b * k
<1>1. a \in Nat /\ b \in Nat /\ x \in Nat /\ y \in Nat
  BY SMTT(30)
<1>2. RowAt(m, k, j) = y + j /\ RowAt(r, sp, m) = x + m /\ (x + m) - 1 = x + b
  BY <1>1 DEF RowAt
<1>3. RowAt(r, size, RowAt(m, k, j)) = a * (sp * k) + (y + j)
  BY <1>2 DEF RowAt
<1>4. RowAt(RowAt(r, sp, m), k, j) = (x + b) * k + j
  BY <1>2 DEF RowAt
<1>5. a * (sp * k) = x * k
  <2> HIDE DEF a
  <2>1. QED
    BY <1>1, SMTT(30)
<1>6. (x + b) * k = x * k + y /\ x * k \in Nat
  <2> HIDE DEF a, b, x
  <2>1. QED
    BY <1>1, SMTT(30)
<1> DEFINE z == x * k
<1> HIDE DEF x, y, z
<1>7. z + (y + j) = (z + y) + j
  BY <1>1, <1>6 DEF z
<1>8. QED
  BY <1>3, <1>4, <1>5, <1>6, <1>7 DEF z

\* The part an item is in, and the order that puts the parts one after the other.
PartOf(s) == [i \in Items |-> CHOOSE p \in Parts : i \in s[p].items]
OrderOf(s) == Flattened(PartOf(s))

\* That order has a block of k items for every part.
InBlocks(s, k) ==
  /\ NumItems = Total(K, k) /\ NamesOnce(OrderOf(s), NumItems)
  /\ \A c \in Parts, j \in 1 .. k : OrderOf(s)[RowAt(c, k, j)] \in s[c].items
  /\ \A p, q \in Parts : \A i : i \in s[p].items /\ i \in s[q].items => p = q
  /\ \A p \in Parts : s[p].items \in SUBSET Items

\* So it is when balancing is over.
LEMMA PartsAreBlocks ==
  ASSUME KKInv, EqualSize, NEW s, pool = {s}
  PROVE  \E k \in Nat \ {0} : InBlocks(s, k)
<1> DEFINE part == PartOf(s)
           k == Cardinality(s[1].items)
<1>1. /\ KarmarkarKarpAssumption /\ Lengths /\ IsState(s)
      /\ \A i \in Items : \E p \in Parts : i \in s[p].items
      /\ \A p, q \in Parts : s[p].items \cap s[q].items # {} => p = q
  <2>1. s \in pool
    OBVIOUS
  <2>2. ItemsOnce /\ pool # {}
    BY <2>1 DEF KKInv
  <2>3. \A i \in Items : \E p \in Parts : i \in s[p].items
    BY <2>2 DEF ItemsOnce
  <2>4. \A p, q \in Parts : s[p].items \cap s[q].items # {} => p = q
    BY <2>1, <2>2 DEF ItemsOnce
  <2>5. QED
    BY <2>1, <2>3, <2>4 DEF KKInv
<1>2. /\ NumItems \in Nat \ {0} /\ K \in Nat \ {0} /\ 1 \in Parts /\ 1 \in Items
  BY <1>1 DEF KarmarkarKarpAssumption, Parts, Items
<1>3. \A p \in Parts : s[p].items \in SUBSET Items /\ Cardinality(s[p].items) = k
  BY <1>1, <1>2 DEF IsState, SetType, Level
<1>4. \A p \in Parts : IsFiniteSet(s[p].items) /\ k \in Nat
  BY <1>1, <1>2, <1>3, FiniteItems
<1> HIDE DEF k
<1>5. k \in Nat \ {0}
  <2>1. PICK p \in Parts : 1 \in s[p].items
    BY <1>1, <1>2
  <2>2. k # 0
    BY <1>3, <1>4, <2>1, FS_EmptySet
  <2>3. QED
    BY <1>4, <2>1, <2>2
<1>6. \A i \in Items : part[i] \in Parts /\ i \in s[part[i]].items
  BY <1>1 DEF PartOf
<1>7. \A i \in Items, p \in Parts : part[i] = p <=> i \in s[p].items
  BY <1>1, <1>6
<1>8. part \in [1 .. NumItems -> 1 .. K]
  <2>1. part = [i \in Items |-> part[i]]
    BY DEF PartOf
  <2> HIDE DEF part
  <2>2. QED
    BY <1>6, <2>1 DEF Items, Parts
<1> HIDE DEF part
<1>9. \A c \in 1 .. K : Cardinality({i \in 1 .. NumItems : part[i] = c}) = k
  <2>1. ASSUME NEW c \in Parts PROVE {i \in Items : part[i] = c} = s[c].items
    BY <1>3, <1>7
  <2>2. QED
    BY <1>3, <2>1 DEF Items, Parts
<1>10. /\ NumItems = Total(K, k)
       /\ \A c \in 1 .. K, j \in 1 .. k :
            RowAt(c, k, j) \in 1 .. NumItems /\ part[Flattened(part)[RowAt(c, k, j)]] = c
  <2>1. NumItems \in Nat /\ K \in Nat
    BY <1>2
  <2>a. SameSizes(part, NumItems, K, k)
    BY <1>8, <1>9 DEF SameSizes
  <2>2. NumItems = Total(K, k)
    BY <1>5, <2>1, <2>a, FlattenedBlocks
  <2>3. \A c \in 1 .. K, j \in 1 .. k :
          RowAt(c, k, j) \in 1 .. NumItems /\ part[Flattened(part)[RowAt(c, k, j)]] = c
    BY <1>5, <2>1, <2>a, FlattenedBlocks
  <2>4. QED
    BY <2>2, <2>3
<1>11. NamesOnce(Flattened(part), NumItems)
  <2>1. part \in [1 .. NumItems -> Int] /\ NumItems \in Nat
    BY <1>2, <1>8
  <2>2. QED
    BY <2>1, FlattenedNamesOnce
<1>12. ASSUME NEW c \in Parts, NEW j \in 1 .. k
       PROVE  Flattened(part)[RowAt(c, k, j)] \in s[c].items
  <2> DEFINE y == RowAt(c, k, j)
             i == Flattened(part)[y]
  <2>1. y \in 1 .. NumItems /\ part[i] = c
    BY <1>10 DEF Parts
  <2> HIDE DEF y
  <2>2. i \in Items
    BY <1>11, <2>1 DEF NamesOnce, Items
  <2> HIDE DEF i
  <2>3. i \in s[c].items
    BY <1>7, <2>1, <2>2
  <2>4. QED
    BY <2>3 DEF i, y
<1>13. \A p, q \in Parts : \A i : i \in s[p].items /\ i \in s[q].items => p = q
  BY <1>1
<1>14. QED
  BY <1>3, <1>5, <1>10, <1>11, <1>12, <1>13 DEF InBlocks, OrderOf, part

\* The lengths of the items that share r gets, size of them in that order.
ShareOf(s, r, size) == [j \in 1 .. size |-> length[OrderOf(s)[RowAt(r, size, j)]]]

\* G adds up sets of its places.
AddsShare(G, s, r, size) == SumsUp(G, ShareOf(s, r, size), SUBSET (1 .. size))

\* From its part m - 1 to its part m, the sum is more by a part w of the items.
NextPart(G, s, w, m, k) ==
  w \in Parts /\ G[1 .. Total(m, k)] = G[1 .. Total(m - 1, k)] + s[w].sum

\* A share is whole parts: as far as its m-th part it adds up to as much as
\* before it, and that part.
LEMMA ShareParts ==
  ASSUME KKInv, KKSums, NEW s \in pool, NEW k \in Nat \ {0}, InBlocks(s, k),
         NEW dp \in Nat \ {0}, NEW sp \in Nat \ {0}, K = Total(dp, sp),
         NEW r \in 1 .. dp, NEW m \in 1 .. sp, NEW size, size = Total(sp, k),
         NEW G, AddsShare(G, s, r, size)
  PROVE  NextPart(G, s, RowAt(r, sp, m), m, k)
<1> DEFINE w == RowAt(r, sp, m)
           U == 1 .. size
           o == OrderOf(s)
           g == ShareOf(s, r, size)
           h == [j \in U |-> o[RowAt(r, size, j)]]
           A == 1 .. Total(m - 1, k)
           B == {RowAt(m, k, j) : j \in 1 .. k}
           F == LengthOf(length)
<1>1. w \in Parts => s[w].sum = F[s[w].items]
  BY DEF KKSums, Added
<1>2. w \in Parts
  BY RowsInParts DEF Parts
<1>3. size \in Nat /\ size = sp * k /\ size \in Nat \ {0}
  BY SMTT(30) DEF Total
<1>4. NumItems = Total(dp, size)
  <2>1. NumItems = (dp * sp) * k
    BY DEF InBlocks, Total
  <2>2. (dp * sp) * k = dp * (sp * k)
    BY SMTT(30)
  <2>3. QED
    BY <1>3, <2>1, <2>2 DEF Total
<1>5. /\ o \in [Items -> Items]
      /\ \A x, y \in Items : o[x] = o[y] => x = y
      /\ \A i \in Items : \E x \in Items : o[x] = i
  BY Zenon DEF InBlocks, NamesOnce, Items
<1>6. \A j \in U : RowAt(r, size, j) \in Items
  BY <1>3, <1>4, RowsInParts DEF Items
<1>7. \A i, j \in U : RowAt(r, size, i) = RowAt(r, size, j) => i = j
  BY <1>3, RowsInParts
<1>8. KarmarkarKarpAssumption /\ Lengths
  BY DEF KKInv
<1>9. /\ h \in [U -> Items] /\ \A x, y \in U : h[x] = h[y] => x = y
      /\ \A x \in U : g[x] = length[h[x]] /\ g[x] \in Int
  <2>1. \A x \in U : h[x] \in Items /\ g[x] = length[h[x]]
    <3> HIDE DEF o
    <3>1. \A x \in U : g[x] = length[h[x]]
      BY DEF ShareOf, o
    <3> HIDE DEF U, g
    <3>2. QED
      BY <1>5, <1>6, <3>1
  <2>2. \A x \in U : g[x] \in Int
    <3> HIDE DEF U, g, h
    <3>1. \A i \in Items : length[i] \in Int
      BY <1>8 DEF Lengths
    <3>2. QED
      BY <2>1, <3>1
  <2> HIDE DEF U, o, g
  <2>3. \A x, y \in U : h[x] = h[y] => x = y
    BY <1>5, <1>6, <1>7
  <2>4. QED
    BY <2>1, <2>2, <2>3
<1>10. Total(m, k) = Total(m - 1, k) + k /\ Total(m - 1, k) \in Nat /\ Total(m, k) <= size
       /\ \A j : RowAt(m, k, j) = Total(m - 1, k) + j
  <2>1. Total(m - 1, k) \in Nat /\ Total(m, k) = Total(m - 1, k) + k
    BY SMTT(30) DEF Total
  <2>2. m * k <= sp * k
    BY SMTT(30)
  <2>3. QED
    BY <1>3, <2>1, <2>2 DEF Total, RowAt
<1>11. /\ A \in SUBSET U /\ B \in SUBSET U /\ A \cap B = {}
       /\ 1 .. Total(m, k) = A \cup B
  <2> DEFINE a == Total(m - 1, k)
             b == Total(m, k)
  <2>1. B = {a + j : j \in 1 .. k}
    BY <1>10
  <2>2. a \in Nat /\ b = a + k /\ b <= size
    BY <1>10
  <2>3. A = 1 .. a
    OBVIOUS
  <2> HIDE DEF a, b, A, B
  <2>4. \A x : x \in B <=> x \in Int /\ a < x /\ x <= b
    <3>1. \A x \in B : x \in Int /\ a < x /\ x <= b
      BY <2>1, <2>2
    <3>2. ASSUME NEW x \in Int, a < x, x <= b PROVE x \in B
      <4>1. x - a \in 1 .. k /\ x = a + (x - a)
        BY <2>2, <3>2
      <4>2. QED
        BY <2>1, <4>1
    <3>3. QED
      BY <3>1, <3>2
  <2>5. QED
    BY <1>3, <2>2, <2>3, <2>4 DEF b
<1> HIDE DEF A, B
<1>12. IsFiniteSet(U) /\ IsFiniteSet(Items)
  BY <1>3, <1>8, FirstNumbers, FiniteItems
<1> DEFINE image == {h[x] : x \in B}
<1>13. G[B] = F[image]
  <2>1. SumsUp(F, length, SUBSET Items) /\ \A i \in Items : length[i] \in Int
    BY <1>8, LengthsAdd
  <2> HIDE DEF F, h, g, U
  <2>2. SumsUp(G, g, SUBSET U)
    BY DEF g, U, AddsShare
  <2>3. Carries(h, U, g, Items, length)
    BY <1>9, <2>1 DEF Carries
  <2>4. B \in SUBSET U
    BY <1>11
  <2>5. QED
    BY <1>12, <2>1, <2>2, <2>3, <2>4, SumMoved
<1>14. \A j \in 1 .. k : h[RowAt(m, k, j)] = o[RowAt(w, k, j)] /\ RowAt(m, k, j) \in B
  <2>1. SUFFICES ASSUME NEW j \in 1 .. k
                 PROVE  h[RowAt(m, k, j)] = o[RowAt(w, k, j)] /\ RowAt(m, k, j) \in B
    OBVIOUS
  <2>2. RowAt(m, k, j) \in B
    BY DEF B
  <2>3. RowAt(r, size, RowAt(m, k, j)) = RowAt(w, k, j)
    <3>1. r \in Nat \ {0} /\ m \in Nat \ {0} /\ j \in Nat /\ size = sp * k
      BY <1>3
    <3>2. QED
      BY <3>1, RowInRow
  <2>4. RowAt(m, k, j) \in U
    BY <1>11, <2>2
  <2> HIDE DEF o, w, U
  <2>5. QED
    BY <2>2, <2>3, <2>4
<1>b. \A x \in Items : \E c \in Parts, j \in 1 .. k : x = RowAt(c, k, j)
  <2>1. K \in Nat /\ k \in Nat \ {0}
    BY <1>8 DEF KarmarkarKarpAssumption
  <2>2. \A x \in 1 .. Total(K, k) : \E c \in 1 .. K, j \in 1 .. k : x = RowAt(c, k, j)
    BY <2>1, RowsInParts, Zenon
  <2>3. QED
    BY <2>2 DEF Items, Parts, InBlocks
<1>15. image = s[w].items
  <2>0. /\ \A c \in Parts, j \in 1 .. k : o[RowAt(c, k, j)] \in s[c].items
        /\ \A p, q \in Parts : \A i : i \in s[p].items /\ i \in s[q].items => p = q
        /\ \A p \in Parts : s[p].items \in SUBSET Items
    BY Zenon DEF InBlocks
  <2>1. ASSUME NEW i \in image PROVE i \in s[w].items
    <3>1. PICK j \in 1 .. k : i = h[RowAt(m, k, j)]
      BY DEF B
    <3> HIDE DEF h, image, o, w
    <3>2. QED
      BY <1>2, <1>14, <2>0, <3>1
  <2>2. ASSUME NEW i \in s[w].items PROVE i \in image
    <3>1. PICK x \in Items : o[x] = i
      <4>1. i \in Items
        BY <1>2, <2>0
      <4>2. QED
        BY <1>5, <4>1
    <3>2. PICK c \in Parts, j \in 1 .. k : x = RowAt(c, k, j)
      BY <1>b
    <3>3. c = w
      <4> HIDE DEF w, o
      <4>1. i \in s[c].items
        BY <2>0, <3>1, <3>2
      <4>2. QED
        BY <1>2, <2>0, <2>2, <4>1
    <3>4. i = h[RowAt(m, k, j)] /\ RowAt(m, k, j) \in B
      <4> HIDE DEF w, o, h
      <4>1. QED
        BY <1>14, <3>1, <3>2, <3>3
    <3> HIDE DEF h
    <3>5. QED
      BY <3>4
  <2>3. QED
    BY <2>1, <2>2
<1>16. G[A \cup B] = G[A] + G[B]
  <2> HIDE DEF g, U, h
  <2>1. \A x \in U : g[x] \in Int
    BY <1>9
  <2>2. SumsUp(G, g, SUBSET U)
    BY DEF g, U, AddsShare
  <2>3. QED
    BY <1>11, <1>12, <2>1, <2>2, SumOfBoth
<1> HIDE DEF image, F, U, h, o, g
<1>17. G[1 .. Total(m, k)] = G[A] + s[w].sum
  BY <1>1, <1>2, <1>11, <1>13, <1>15, <1>16
<1>18. QED
  BY <1>2, <1>17 DEF A, NextPart

\* When balancing is over, shares of sp parts each differ by no more than two
\* items do, for each of the parts.
LEMMA SharesAreEven ==
  ASSUME KKInv, KKSums, EqualSize, NEW s, pool = {s},
         NEW dp \in Nat \ {0}, NEW sp \in Nat \ {0}, K = Total(dp, sp),
         NEW q \in 1 .. dp, NEW r \in 1 .. dp, NEW size \in Nat, NumItems = Total(dp, size)
  PROVE  \E i, j \in Items :
           SumOf(ShareOf(s, q, size), 1 .. size) - SumOf(ShareOf(s, r, size), 1 .. size)
             <= sp * (length[i] - length[j])
<1>1. s \in pool /\ KarmarkarKarpAssumption /\ Lengths /\ IsState(s)
  <2>1. s \in pool
    OBVIOUS
  <2>2. QED
    BY <2>1 DEF KKInv
<1>2. PICK k \in Nat \ {0} : InBlocks(s, k)
  BY PartsAreBlocks
<1>3. size = Total(sp, k)
  <2>1. dp * size = (dp * sp) * k
    BY <1>2 DEF InBlocks, Total
  <2>2. (dp * sp) * k = dp * (sp * k)
    BY SMTT(30)
  <2>3. sp * k \in Nat
    BY SMTT(30)
  <2> DEFINE y == sp * k
  <2>4. y \in Nat /\ dp * size = dp * y
    BY <2>1, <2>2, <2>3
  <2> HIDE DEF y
  <2>5. size = y
    BY <2>4, SMTT(30)
  <2>6. QED
    BY <2>5 DEF y, Total
<1>4. PICK D \in Nat :
        /\ \E i, j \in Items : D = length[i] - Less0(j)
        /\ \A i, j \in Items : length[i] - Less0(j) <= D
  BY <1>1, Widest
<1>5. \A a, b \in Parts : s[a].sum - s[b].sum <= D /\ s[a].sum \in Nat
  <2>1. s \in [Parts -> SetType] /\ Narrow(s)
    BY <1>1 DEF IsState
  <2>2. Narrow(s) <=> \A a, b \in Parts : s[a].sum - s[b].sum <= D
    BY <1>1, <1>4, <2>1, NarrowIs
  <2>3. \A a \in Parts : s[a].sum \in Nat
    BY <2>1 DEF SetType
  <2>4. QED
    BY <2>1, <2>2, <2>3
<1> DEFINE U == 1 .. size
           f == ShareOf(s, q, size)
           g == ShareOf(s, r, size)
           F == CHOOSE H : SumsUp(H, f, SUBSET U)
           G == CHOOSE H : SumsUp(H, g, SUBSET U)
<1>6. /\ IsFiniteSet(U)
      /\ \A x \in U : f[x] \in Int /\ g[x] \in Int
  <2>1. IsFiniteSet(U)
    BY FirstNumbers
  <2>2. ASSUME NEW c \in 1 .. dp, NEW x \in U PROVE ShareOf(s, c, size)[x] \in Int
    <3>1. RowAt(c, size, x) \in Items
      <4>1. size \in Nat \ {0} /\ dp \in Nat
        OBVIOUS
      <4>2. \A e \in 1 .. dp, j \in 1 .. size : RowAt(e, size, j) \in 1 .. Total(dp, size)
        BY <4>1, RowsInParts
      <4>3. QED
        BY <4>2 DEF Items
    <3>2. OrderOf(s)[RowAt(c, size, x)] \in Items
      <4>1. OrderOf(s) \in [Items -> Items]
        BY <1>2, Zenon DEF InBlocks, NamesOnce, Items
      <4>2. QED
        BY <3>1, <4>1
    <3>3. ShareOf(s, c, size)[x] = length[OrderOf(s)[RowAt(c, size, x)]]
      BY DEF ShareOf
    <3>4. QED
      BY <1>1, <3>2, <3>3 DEF Lengths
  <2>3. QED
    BY <2>1, <2>2
<1>7. /\ SumsUp(F, f, SUBSET U) /\ SumsUp(G, g, SUBSET U)
      /\ SumOf(f, U) = F[U] /\ SumOf(g, U) = G[U]
  <2>1. (\E H : SumsUp(H, f, SUBSET U)) /\ \E H : SumsUp(H, g, SUBSET U)
    BY <1>6, SumsExist
  <2>2. SumsUp(F, f, SUBSET U) /\ SumsUp(G, g, SUBSET U)
    BY <2>1, Zenon
  <2>3. QED
    BY <2>2 DEF SumOf
<1> HIDE DEF f, g, F, G
<1>8. F[{}] = 0 /\ G[{}] = 0 /\ \A T \in SUBSET U : F[T] \in Int /\ G[T] \in Int
  <2>1. ComesApart(F, f, U) /\ ComesApart(G, g, U)
    BY <1>6, <1>7, SumParts
  <2>2. QED
    BY <2>1 DEF ComesApart
<1>a. ASSUME NEW c \in 1 .. dp, NEW m \in 1 .. sp,
             NEW H, AddsShare(H, s, c, size)
      PROVE  NextPart(H, s, RowAt(c, sp, m), m, k)
  BY <1>1, <1>2, <1>3, <1>a, ShareParts
<1>9. ASSUME NEW m \in 1 .. sp
      PROVE  \E a, b \in Parts :
               /\ F[1 .. Total(m, k)] = F[1 .. Total(m - 1, k)] + s[a].sum
               /\ G[1 .. Total(m, k)] = G[1 .. Total(m - 1, k)] + s[b].sum
  <2>1. AddsShare(F, s, q, size) /\ AddsShare(G, s, r, size)
    BY <1>7 DEF U, f, g, AddsShare
  <2>2. NextPart(F, s, RowAt(q, sp, m), m, k)
    BY <1>a, <2>1
  <2>3. NextPart(G, s, RowAt(r, sp, m), m, k)
    BY <1>a, <2>1
  <2>4. QED
    BY <2>2, <2>3 DEF NextPart
<1>10. \A m \in 0 .. sp : 1 .. Total(m, k) \in SUBSET U
  <2>1. ASSUME NEW m \in 0 .. sp PROVE m * k \in Nat /\ m * k <= sp * k /\ sp * k \in Nat
    BY SMTT(30)
  <2>2. QED
    BY <1>3, <2>1 DEF Total
<1> DEFINE More(m) == F[1 .. Total(m, k)] - G[1 .. Total(m, k)]
           Wrong == {m \in Nat : m <= sp /\ ~ (More(m) <= m * D)}
<1>11. Wrong = {}
  <2> SUFFICES ASSUME Wrong # {} PROVE FALSE
    OBVIOUS
  <2>1. PICK m \in Wrong : \A l \in Wrong : m <= l
    BY LeastNumber
  <2>2. m \in Nat /\ m <= sp /\ ~ (More(m) <= m * D)
    OBVIOUS
  <2>3. m # 0
    <3>1. 1 .. Total(0, k) = {}
      BY DEF Total
    <3>2. F[1 .. Total(0, k)] = 0 /\ G[1 .. Total(0, k)] = 0
      BY <1>8, <3>1
    <3>3. More(0) = 0 /\ 0 * D = 0
      BY <3>2
    <3> HIDE DEF More
    <3>4. QED
      BY <2>2, <3>3
  <2>4. m - 1 \in Nat /\ m - 1 <= sp /\ ~ (m <= m - 1) /\ m \in 1 .. sp
    BY <2>2, <2>3
  <2>5. More(m - 1) <= (m - 1) * D
    <3> HIDE DEF More
    <3>1. QED
      BY <2>1, <2>4
  <2>6. PICK a \in Parts, b \in Parts :
               /\ F[1 .. Total(m, k)] = F[1 .. Total(m - 1, k)] + s[a].sum
               /\ G[1 .. Total(m, k)] = G[1 .. Total(m - 1, k)] + s[b].sum
    BY <1>9, <2>4
  <2>7. F[1 .. Total(m - 1, k)] \in Int /\ G[1 .. Total(m - 1, k)] \in Int
    <3>1. m - 1 \in 0 .. sp
      BY <2>4
    <3>2. QED
      BY <1>8, <1>10, <3>1
  <2>8. s[a].sum - s[b].sum <= D /\ s[a].sum \in Nat /\ s[b].sum \in Nat
    BY <1>5
  <2>9. More(m) <= (m - 1) * D + D
    <3> DEFINE x == (m - 1) * D
    <3>1. x \in Int
      BY <2>4, SMTT(30)
    <3>2. More(m - 1) <= x
      BY <2>5
    <3> DEFINE u == F[1 .. Total(m - 1, k)]
               v == G[1 .. Total(m - 1, k)]
    <3>3. u - v <= x /\ u \in Int /\ v \in Int
      BY <2>7, <3>2
    <3>4. More(m) = (u + s[a].sum) - (v + s[b].sum)
      BY <2>6
    <3> HIDE DEF More, x, u, v
    <3>5. More(m) <= x + D
      BY <2>8, <3>1, <3>3, <3>4
    <3>6. QED
      BY <3>5 DEF x
  <2>10. (m - 1) * D + D = m * D
    BY <2>2, SMTT(30)
  <2> HIDE DEF More, Wrong
  <2>11. QED
    BY <2>2, <2>9, <2>10
<1>12. F[U] - G[U] <= sp * D
  <2>1. sp \in Nat /\ sp <= sp
    OBVIOUS
  <2>2. More(sp) <= sp * D
    <3> HIDE DEF More
    <3>1. QED
      BY <1>11, <2>1
  <2>3. QED
    BY <1>3, <2>2
<1>13. PICK i \in Items, j \in Items : D = length[i] - length[j]
  BY <1>4 DEF Less0
<1>14. SumOf(f, U) - SumOf(g, U) <= sp * (length[i] - length[j])
  BY <1>7, <1>12, <1>13
<1>15. QED
  BY <1>14 DEF f, g

===============================================================================

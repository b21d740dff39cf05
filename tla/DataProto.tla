------------------------------- MODULE DataProto -------------------------------
(***************************************************************************)
(* What the operations of DataProto, and the index maps of dynamic         *)
(* batching, do to a column: a sequence with an element for every row.     *)
(***************************************************************************)
EXTENDS Integers, Sequences, FiniteSets

CeilDiv(a, b) == (a + b - 1) \div b

\* repeat(interleave=True): the copies of a row are neighbours.
Repeated(s, n) == [k \in 1 .. Len(s) * n |-> s[(k - 1) \div n + 1]]

\* chunk: one of equal parts.
ChunkSize(s, chunks) == Len(s) \div chunks

Chunk(s, chunks, c) ==
  SubSeq(s, (c - 1) * ChunkSize(s, chunks) + 1, c * ChunkSize(s, chunks))

\* split: parts of a given size, of which the last may be shorter.
Splits(s, size) == CeilDiv(Len(s), size)

Split(s, size, i) ==
  SubSeq(s, (i - 1) * size + 1, IF i * size < Len(s) THEN i * size ELSE Len(s))

\* concat of the parts 1 .. n.
Concat(parts, n) ==
  LET upTo[i \in 0 .. n] == IF i = 0 THEN <<>> ELSE upTo[i - 1] \o parts[i]
  IN  upTo[n]

\* pad_dataproto_to_divisor: the rows again from the first, as often as needed.
PadSize(s, divisor) ==
  IF Len(s) % divisor = 0 THEN 0 ELSE divisor - (Len(s) % divisor)

Padded(s, divisor) ==
  s \o [k \in 1 .. PadSize(s, divisor) |-> s[((k - 1) % Len(s)) + 1]]

\* unpad_dataproto.
Unpadded(s, padSize) == SubSeq(s, 1, Len(s) - padSize)

\* reorder: row k of the result is row idx[k].
Reordered(s, idx) == [k \in 1 .. Len(idx) |-> s[idx[k]]]

\* get_reverse_idx, of an idx that names every row once.
ReverseIdx(idx) ==
  [i \in 1 .. Len(idx) |-> CHOOSE k \in 1 .. Len(idx) : idx[k] = i]

\* Mutant of Restored: the index map is applied once more, not undone.
RestoredForwards(s, idx) == Reordered(s, idx)

\* restore_dynamic_batch.
Restored(s, idx) == Reordered(s, ReverseIdx(idx))

\* The index map of a partition: part[i] is the part of row i, and the rows of
\* a part are in order.
Place(part, i) ==
  Cardinality({j \in DOMAIN part : part[j] < part[i] \/ (part[j] = part[i] /\ j <= i)})

Flattened(part) ==
  [k \in 1 .. Len(part) |-> CHOOSE i \in DOMAIN part : Place(part, i) = k]

===============================================================================

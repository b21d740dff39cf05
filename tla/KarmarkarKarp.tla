----------------------------- MODULE KarmarkarKarp -----------------------------
(***************************************************************************)
(* karmarkar_karp, which balances sequence lengths over K parts: a heap of *)
(* states, each K sets in decreasing order of their sums; the two states   *)
(* of largest spread are merged, largest set with smallest, until one is   *)
(* left.  A step of the specification is one turn of the loop.             *)
(*                                                                         *)
(* A set is its sum and its items.  Equal sums and sizes are ordered by    *)
(* their lists of items in the code, and in any order here.                *)
(***************************************************************************)
EXTENDS Integers, FiniteSets

CONSTANTS NumItems,   \* len(seqlen_list)
          K,          \* k_partitions
          EqualSize,  \* equal_size
          MaxLen      \* bound: the longest sequence

\* What the code asserts of its arguments.
KarmarkarKarpAssumption ==
  /\ K \in Nat \ {0} /\ NumItems \in Nat /\ NumItems >= K
  /\ EqualSize \in BOOLEAN
  /\ EqualSize => NumItems % K = 0
  /\ MaxLen \in Nat \ {0}

Items == 1 .. NumItems
Parts == 1 .. K

VARIABLES length,  \* seqlen_list
          pool     \* states_pq; empty before the heap is filled

vars == <<length, pool>>

Init ==
  /\ length \in [Items -> 1 .. MaxLen]
  /\ pool = {}

------------------------------------------------------------------------------
(* Sets and states, and the orders on them.                                *)

EmptySet == [sum |-> 0, items |-> {}]

SetOf(i) == [sum |-> length[i], items |-> {i}]

Joined(a, b) == [sum |-> a.sum + b.sum, items |-> a.items \cup b.items]

\* Set.__lt__, but for the last tie.
Less(a, b) ==
  \/ a.sum < b.sum
  \/ a.sum = b.sum /\ Cardinality(a.items) < Cardinality(b.items)

Decreasing(s) == \A i, j \in Parts : i < j => ~ Less(s[i], s[j])

\* The bijections of a set of indices, and what sorted(sets, reverse=True) may
\* return.
Bijections(S) ==
  {p \in [S -> S] : (\A i, j \in S : p[i] = p[j] => i = j)
                    /\ \A j \in S : \E i \in S : p[i] = j}

Arranged(s) ==
  {t \in {[i \in Parts |-> s[p[i]]] : p \in Bijections(Parts)} : Decreasing(t)}

Spread(s) == s[1].sum - s[K].sum

\* State.__lt__: s is popped before t.
Precedes(s, t) ==
  \/ Spread(s) > Spread(t)
  \/ Spread(s) = Spread(t) /\ Less(t[1], s[1])

Top(s, P) == s \in P /\ \A t \in P : ~ Precedes(t, s)

------------------------------------------------------------------------------
(* The loop.                                                               *)

\* sorted(seqlen_list) with the indices: the item at a place of the list.
Before(i, j) == length[i] < length[j] \/ (length[i] = length[j] /\ i < j)

Turn(i) == Cardinality({j \in Items : ~ Before(i, j)})

Sorted == [k \in Items |-> CHOOSE i \in Items : Turn(i) = k]

\* K neighbours of the sorted list, one to a set, the longest first.
Neighbours(g) == [p \in Parts |-> SetOf(Sorted[g * K + K + 1 - p])]

Alone(i) == [p \in Parts |-> IF p = 1 THEN SetOf(i) ELSE EmptySet]

Fill ==
  /\ pool = {}
  /\ pool' = IF EqualSize
               THEN {Neighbours(g) : g \in 0 .. NumItems \div K - 1}
               ELSE {Alone(i) : i \in Items}
  /\ UNCHANGED length

Crossed(s, t) == [i \in Parts |-> Joined(s[i], t[K + 1 - i])]

Merge ==
  /\ \E s, t \in pool :
       /\ s # t
       /\ Top(s, pool) /\ Top(t, pool \ {s})
       /\ \E u \in Arranged(Crossed(s, t)) : pool' = (pool \ {s, t}) \cup {u}
  /\ UNCHANGED length

IsDone == Cardinality(pool) = 1

Next == Fill \/ Merge \/ (IsDone /\ UNCHANGED vars)

Spec == Init /\ [][Next]_vars

------------------------------------------------------------------------------
(* Properties.                                                             *)

SetType == [sum : Nat, items : SUBSET Items]

TypeOK ==
  /\ length \in [Items -> 1 .. MaxLen]
  /\ pool \subseteq [Parts -> SetType]

\* Every item is in exactly one set of one state: the assertion on seen_idx in
\* _check_and_sort_partitions, and that nothing is assigned twice.
ItemsOnce ==
  pool # {} =>
    /\ \A i \in Items : \E s \in pool, p \in Parts : i \in s[p].items
    /\ \A s, t \in pool : \A p, q \in Parts :
         s[p].items \cap t[q].items # {} => s = t /\ p = q

\* With equal_size the sets of a state have as many items as each other: the
\* assertion at the end of karmarkar_karp.
SameSize ==
  EqualSize => \A s \in pool : \A p, q \in Parts :
    Cardinality(s[p].items) = Cardinality(s[q].items)

\* "the sum of sequence lengths in each partition is balanced": two parts never
\* differ by more than two sequences do; without equal_size, by more than one
\* sequence is long.
Even ==
  \A s \in pool : \A p, q \in Parts : \E i, j \in Items :
    s[p].sum - s[q].sum <= length[i] - (IF EqualSize THEN length[j] ELSE 0)

\* No part is empty when the loop ends: the assertion of
\* _check_and_sort_partitions, on which rearrange_micro_batches relies.
PartsFilled ==
  \A s \in pool : pool = {s} => \A p \in Parts : s[p].items # {}

===============================================================================

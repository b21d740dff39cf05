------------------------------ MODULE IrtLoader -------------------------------
(***************************************************************************)
(* The prompt-selecting data loader of the IRT recipe (IrtDataLoader): it  *)
(* pools the rows of an inner stateful loader and serves, from the pool,   *)
(* the prompts whose tracked difficulty promises mixed rewards, plus a     *)
(* share of random ones.  The trainer checkpoints the state of the inner   *)
(* loader only; the pool lives in memory.                                  *)
(*                                                                         *)
(* A row is its position in the stream of all draws; several rows may hold *)
(* the same prompt.  What the Beta tracker answers depends on rewards and  *)
(* decay, so every scoring of the prompts is possible at every selection.  *)
(***************************************************************************)
EXTENDS Integers, Sequences, FiniteSets

CONSTANTS InnerBsz,    \* rows in a batch of the inner loader
          BatchSize,   \* rows in a served batch
          PoolFactor,  \* trainer.irt.pool_factor
          NExplore,    \* round(epsilon * batch_size)
          LoaderLen,   \* inner batches in one pass
          PromptAt,    \* the prompt at each position of a pass
          Scores,      \* the scores the tracker can give
          TotalEpochs, \* trainer.total_epochs
          MaxLaunches  \* bound: launches of the job

PassRows == LoaderLen * InnerBsz

IrtAssumption ==
  /\ InnerBsz \in Nat \ {0} /\ BatchSize \in Nat \ {0}
  /\ PoolFactor \in Nat \ {0}
  /\ NExplore \in 0 .. BatchSize
  /\ LoaderLen \in Nat \ {0} /\ TotalEpochs \in Nat \ {0}
  /\ DOMAIN PromptAt = 0 .. PassRows - 1
  /\ Scores \subseteq Nat /\ Scores # {}
  /\ MaxLaunches \in Nat \ {0}

VARIABLES pc,         \* "fill", "train", "down" or "over"
          epoch,      \* the epoch of this launch's loop
          yielded,    \* batches the inner loader has yielded in this pass
          drawn,      \* batches drawn in the life of the training state
          exhausted,  \* the inner iterator has raised StopIteration
          pool,       \* self.pool
          current,    \* the rows of the batch being trained on
          served,     \* the rows the weights were trained on
          ckpt,       \* the checkpoint: weights and inner loader state
          launches    \* how many times the job was launched

vars == <<pc, epoch, yielded, drawn, exhausted, pool, current, served, ckpt, launches>>

PoolTarget == PoolFactor * BatchSize
PoolMax    == 2 * PoolTarget

Prompts == {PromptAt[i] : i \in 0 .. PassRows - 1}
Prompt(row) == PromptAt[(row - 1) % PassRows]

Contents(s) == {s[i] : i \in 1 .. Len(s)}

\* The elements of a sequence at a set of indices, in the order of the sequence.
ElementsAt(s, I) ==
  [k \in 1 .. Cardinality(I) |->
     s[CHOOSE i \in I : Cardinality({j \in I : j < i}) = k - 1]]

Init ==
  /\ pc = "down"
  /\ epoch = 0 /\ yielded = 0 /\ drawn = 0 /\ exhausted = FALSE
  /\ pool = <<>> /\ current = {} /\ served = {}
  /\ ckpt = [yielded |-> 0, drawn |-> 0, served |-> {}]
  /\ launches = 0

Launch ==
  /\ pc \in {"down", "over"}
  /\ launches < MaxLaunches
  /\ launches' = launches + 1
  /\ pc' = "fill"
  /\ epoch' = 0
  /\ yielded' = ckpt.yielded /\ drawn' = ckpt.drawn /\ served' = ckpt.served
  /\ exhausted' = FALSE
  /\ pool' = <<>> /\ current' = {}
  /\ UNCHANGED ckpt

------------------------------------------------------------------------------
(* __iter__: filling the pool.                                             *)

Filling == pc = "fill" /\ ~ exhausted /\ Len(pool) < PoolTarget

Ingest ==
  /\ Filling
  /\ yielded < LoaderLen
  /\ pool' = pool \o [k \in 1 .. InnerBsz |-> drawn * InnerBsz + k]
  /\ yielded' = yielded + 1
  /\ drawn' = drawn + 1
  /\ UNCHANGED <<pc, epoch, exhausted, current, served, ckpt, launches>>

StopIteration ==
  /\ Filling
  /\ yielded = LoaderLen
  /\ exhausted' = TRUE
  /\ UNCHANGED <<pc, epoch, yielded, drawn, pool, current, served, ckpt, launches>>

\* Mutant of EndOfPass: the generator returns as soon as the inner loader is
\* exhausted.
EndOfPassEarly ==
  /\ pc = "fill" /\ ~ Filling /\ exhausted
  /\ exhausted' = FALSE /\ yielded' = 0
  /\ IF epoch + 1 < TotalEpochs
       THEN epoch' = epoch + 1 /\ UNCHANGED pc
       ELSE pc' = "over" /\ UNCHANGED epoch
  /\ UNCHANGED <<drawn, pool, current, served, ckpt, launches>>

\* The generator returns; the trainer's next epoch, if any, iterates again and
\* finds the rows left in the pool.
EndOfPass ==
  /\ pc = "fill" /\ ~ Filling /\ Len(pool) < BatchSize
  /\ exhausted' = FALSE /\ yielded' = 0
  /\ IF epoch + 1 < TotalEpochs
       THEN epoch' = epoch + 1 /\ UNCHANGED pc
       ELSE pc' = "over" /\ UNCHANGED epoch
  /\ UNCHANGED <<drawn, pool, current, served, ckpt, launches>>

------------------------------------------------------------------------------
(* _select: which indices of the pool make the next batch.                 *)

Indices == 1 .. Len(pool)

PromptsOf(I) == {Prompt(pool[i]) : i \in I}

\* The order of sorted(..., key=score, reverse=True), which is stable.
Precedes(score, s, i, j) ==
  \/ score[Prompt(s[i])] > score[Prompt(s[j])]
  \/ score[Prompt(s[i])] = score[Prompt(s[j])] /\ i < j

\* The best rows, one per prompt.
Top(score) ==
  LET first == {i \in Indices : \A j \in Indices :
                  j # i /\ Prompt(pool[j]) = Prompt(pool[i]) => i < j}
  IN  {i \in first :
         Cardinality({j \in first : Precedes(score, pool, j, i)}) < BatchSize - NExplore}

\* What the walk over the shuffled remainder can pick: in a large remainder no
\* prompt twice, in a small one any rows.
Explored(top) ==
  LET rest  == Indices \ top
      need  == BatchSize - Cardinality(top)
      fresh == PromptsOf(rest) \ PromptsOf(top)
      AtMost(n) == IF need < n THEN need ELSE n
  IN  IF Cardinality(rest) <= 2 * BatchSize
        THEN {E \in SUBSET rest : Cardinality(E) = AtMost(Cardinality(rest))}
        ELSE {E \in SUBSET rest :
                /\ Cardinality(E) = AtMost(Cardinality(fresh))
                /\ Cardinality(PromptsOf(E)) = Cardinality(E)
                /\ PromptsOf(E) \cap PromptsOf(top) = {}}

\* Mutant of Filled: a batch may stay short.
NotFilled(picked) == picked

\* The earliest rows of the pool that fill the batch up.
Filled(picked) ==
  LET left == Indices \ picked
  IN  picked \cup {i \in left :
        Cardinality({j \in left : j < i}) < BatchSize - Cardinality(picked)}

\* An oversized pool is sorted by score and cut.
Trimmed(score, s) ==
  IF Len(s) > PoolMax
    THEN [k \in 1 .. PoolTarget |->
            s[CHOOSE i \in 1 .. Len(s) :
                Cardinality({j \in 1 .. Len(s) : Precedes(score, s, j, i)}) = k - 1]]
    ELSE s

\* Mutants of Remaining: the picked rows stay in the pool; a selection empties
\* the pool.
RemainingAll(picked) == pool
RemainingNone(picked) == <<>>

Remaining(picked) == ElementsAt(pool, Indices \ picked)

Select ==
  /\ pc = "fill" /\ ~ Filling /\ Len(pool) >= BatchSize
  /\ \E score \in [Prompts -> Scores] :
       \E E \in Explored(Top(score)) :
         LET picked == Filled(Top(score) \cup E)
         IN  /\ current' = {pool[i] : i \in picked}
             /\ pool' = Trimmed(score, Remaining(picked))
  /\ pc' = "train"
  /\ UNCHANGED <<epoch, yielded, drawn, exhausted, served, ckpt, launches>>

------------------------------------------------------------------------------
\* The trainer works on the batch and may save; state_dict is the state of the
\* inner loader, and one that has raised StopIteration resumes with a new pass.
Train ==
  /\ pc = "train"
  /\ served' = served \cup current
  /\ current' = {}
  /\ \E save \in BOOLEAN :
       ckpt' = IF save
                 THEN [yielded |-> IF exhausted THEN 0 ELSE yielded,
                       drawn |-> drawn, served |-> served']
                 ELSE ckpt
  /\ pc' = "fill"
  /\ UNCHANGED <<epoch, yielded, drawn, exhausted, pool, launches>>

Crash ==
  /\ pc \notin {"down", "over"}
  /\ launches < MaxLaunches
  /\ pc' = "down"
  /\ UNCHANGED <<epoch, yielded, drawn, exhausted, pool, current, served, ckpt, launches>>

Over == pc = "over" /\ UNCHANGED vars

Next == Launch \/ Ingest \/ StopIteration \/ EndOfPass \/ Select \/ Train \/ Crash \/ Over

Spec == Init /\ [][Next]_vars

------------------------------------------------------------------------------
(* Properties.                                                             *)

DrawnRows == 1 .. drawn * InnerBsz

TypeOK ==
  /\ pc \in {"down", "fill", "train", "over"}
  /\ epoch \in 0 .. TotalEpochs - 1
  /\ yielded \in 0 .. LoaderLen
  /\ drawn \in Nat
  /\ exhausted \in BOOLEAN
  /\ Contents(pool) \subseteq DrawnRows
  /\ current \subseteq DrawnRows /\ served \subseteq DrawnRows
  /\ ckpt \in [yielded : 0 .. LoaderLen, drawn : Nat, served : SUBSET Nat]
  /\ launches \in 0 .. MaxLaunches

\* recipe/irt/test_irt.py, B2: every batch is full, however many duplicates the pool holds.
FullBatches == pc = "train" => Cardinality(current) = BatchSize

\* No row is in two places: served, being served, or pooled twice, also after a
\* relaunch from a checkpoint the pool was not part of.
RowsOnce ==
  /\ current \cap served = {}
  /\ Contents(pool) \cap (served \cup current) = {}
  /\ Cardinality(Contents(pool)) = Len(pool)

\* What selection passes over is postponed, never lost: rows are only missing
\* because a relaunch forgets the pool, and each relaunch forgets at most one
\* pool.  (Inner batches small enough that the pool is never cut.)
Missing == DrawnRows \ (served \cup current \cup Contents(pool))

SkippedBounded ==
  pc # "down" /\ InnerBsz <= PoolTarget + BatchSize =>
    Cardinality(Missing) <= (launches - 1) * (PoolTarget + InnerBsz - 1 - BatchSize)

\* A job that is over leaves less than one batch of what it drew unserved.
EverythingServed == pc = "over" => Len(pool) < BatchSize

\* recipe/irt/test_irt.py:191, "B3 fallback fills with duplicates when nothing else
\* exists": a prompt is served twice in a batch only if the pool held no other.
DuplicatesOnlyAsFallback ==
  [][Select => \/ Cardinality({Prompt(r) : r \in current'}) = BatchSize
               \/ Cardinality({Prompt(r) : r \in current'}) = Cardinality(PromptsOf(Indices))]_vars

===============================================================================

------------------------------- MODULE BatchFlow -------------------------------
(***************************************************************************)
(* The rows of one PPO step, between the driver and its workers: prompts   *)
(* are repeated, chunked to the agent workers and united with what they    *)
(* answer; the batch is balanced over the ranks while a reward task keeps  *)
(* a copy of it; the worker groups split each shard into micro-batches by  *)
(* tokens and restore the order; advantages are grouped by uid; the update *)
(* splits the shard again, for every epoch.  Also one batch of validation, *)
(* which is padded instead of repeated.                                    *)
(*                                                                         *)
(* A value is the sample it was computed from, so that a column whose rows *)
(* have moved shows.  The forward passes of the data-parallel ranks are    *)
(* collectives: a rank waits in one until all have entered.                *)
(***************************************************************************)
EXTENDS DataProto, FiniteSetsExt

CONSTANTS Prompts,       \* data.train_batch_size
          N,             \* rollout.n
          AgentWorkers,  \* rollout.agent.num_workers
          World,         \* world size of the worker groups
          SpSizes,       \* values of ulysses_sequence_parallel_size
          Calls,         \* the columns the worker groups compute, in order
          MaxTokens,     \* max_token_len of one GPU
          MicroSize,     \* micro_batch_size, when batches are not dynamic
          MiniPrompts,   \* actor.ppo_mini_batch_size
          Epochs,        \* actor.ppo_epochs
          MaxLen,        \* bound: tokens of a sample
          ValRows        \* bound: rows of a validation batch

Rows == Prompts * N

BatchFlowAssumption ==
  /\ {Prompts, N, AgentWorkers, World, MaxTokens, MicroSize, MiniPrompts, Epochs,
      MaxLen} \subseteq Nat \ {0}
  /\ Rows % AgentWorkers = 0 /\ Rows % World = 0
  /\ \A p \in SpSizes : World % p = 0 /\ MiniPrompts * N >= World \div p
  /\ MiniPrompts <= Prompts /\ MaxLen <= MaxTokens
  /\ SpSizes \subseteq Nat \ {0} /\ ValRows \in Nat
  /\ Calls \in Seq(STRING \ {"uid", "responses", "advantages"}) /\ Calls # <<>>

VARIABLES pc,       \* where the driver is in fit, or in _validate
          kind,     \* "train" or "validate"
          sp,       \* the sequence parallel size of the run
          dynamic,  \* use_dynamic_bsz
          columns,  \* the batch: name -> a value for every row
          answers,  \* the output of every agent worker, <<>> before it is there
          pool,     \* the states of karmarkar_karp while the batch is balanced
          future,   \* the reward task: the rows it was given, and if it is done
          call,     \* position in Calls
          rowOrder, \* rank -> the rows of its micro-batches, <<>> before it has them
          left,     \* rank -> micro-batches it has not been through
          entered,  \* ranks that wait in a forward pass
          epoch, mini,
          trained   \* row -> how often it took part in an optimizer step

vars == <<pc, kind, sp, dynamic, columns, answers, pool, future, call, rowOrder, left,
          entered, epoch, mini, trained>>

config   == <<kind, sp, dynamic>>
ranksRun == <<rowOrder, left, entered>>
steps    == <<epoch, mini, trained>>

Dp    == World \div sp
Ranks == 1 .. Dp

NoTask == [rows |-> <<>>, done |-> FALSE]

Init ==
  /\ pc = "generate"
  /\ kind \in {"train", "validate"} /\ sp \in SpSizes /\ dynamic \in BOOLEAN
  /\ \E n \in IF kind = "train" THEN {Prompts} ELSE 1 .. ValRows :
       columns = [uid |-> [i \in 1 .. n |-> i]]
  /\ answers = [w \in 1 .. AgentWorkers |-> <<>>]
  /\ pool = {} /\ future = NoTask /\ call = 1
  /\ rowOrder = [r \in Ranks |-> <<>>] /\ left = [r \in Ranks |-> 0] /\ entered = {}
  /\ epoch = 1 /\ mini = 1
  /\ trained = [i \in 1 .. Rows |-> 0]

\* union, or an assignment to a column.
With(name, values) ==
  [c \in DOMAIN columns \cup {name} |-> IF c = name THEN values ELSE columns[c]]

Tokens(samples) == MapThenSumSet(LAMBDA i : samples[i].len, DOMAIN samples)

------------------------------------------------------------------------------
(* Generation.                                                             *)

Asked ==
  IF kind = "train" THEN Repeated(columns.uid, N)
                    ELSE Padded(columns.uid, AgentWorkers)

\* Agent worker w: gather keeps the order of the rows it was given.
Answer(w) ==
  /\ pc = "generate" /\ answers[w] = <<>>
  /\ LET size == ChunkSize(Asked, AgentWorkers)
     IN  \E len \in [1 .. size -> 1 .. MaxLen] :
           answers' = [answers EXCEPT ![w] =
             [k \in 1 .. size |-> [prompt |-> Chunk(Asked, AgentWorkers, w)[k],
                                   id |-> (w - 1) * size + k, len |-> len[k]]]]
  /\ UNCHANGED <<pc, config, columns, pool, future, call, ranksRun, steps>>

Generated ==
  /\ pc = "generate" /\ \A w \in 1 .. AgentWorkers : answers[w] # <<>>
  /\ answers' = [w \in 1 .. AgentWorkers |-> <<>>]

\* The batch is repeated as the request was, and united with the answers.
UnionTrain ==
  /\ Generated
  /\ kind = "train"
  /\ columns' = [uid |-> Repeated(columns.uid, N),
                 responses |-> Concat(answers, AgentWorkers)]
  /\ pc' = "balance"
  /\ UNCHANGED <<config, pool, future, call, ranksRun, steps>>

UnionValidate ==
  /\ Generated
  /\ kind = "validate"
  /\ columns' = With("responses", Unpadded(Concat(answers, AgentWorkers),
                                           PadSize(columns.uid, AgentWorkers)))
  /\ pc' = "done"
  /\ UNCHANGED <<config, pool, future, call, ranksRun, steps>>

------------------------------------------------------------------------------
(* _balance_batch and the reward task.                                     *)

Lengths == [i \in DOMAIN columns.responses |-> columns.responses[i].len]

Balancing == INSTANCE KarmarkarKarp WITH
  NumItems <- Rows, K <- World, EqualSize <- TRUE, length <- Lengths

Balance ==
  /\ pc = "balance"
  /\ UNCHANGED <<pc, config, columns, answers, future, call, ranksRun, steps>>
  /\ Balancing!Fill \/ Balancing!Merge

\* Mutant of Order: the batch stays as it is.
OrderKept(s) == [i \in 1 .. Rows |-> i]

\* global_idx: the parts one after the other, each sorted.
Order(s) ==
  Flattened([i \in 1 .. Rows |-> CHOOSE p \in 1 .. World : i \in s[p].items])

Reorder ==
  /\ pc = "balance" /\ Balancing!IsDone
  /\ \E s \in pool : columns' = [c \in DOMAIN columns |-> Reordered(columns[c], Order(s))]
  /\ pool' = {}
  /\ pc' = "reward"
  /\ UNCHANGED <<config, answers, future, call, ranksRun, steps>>

\* The task is given a copy of the batch.
LaunchReward ==
  /\ pc = "reward"
  /\ future' = [rows |-> columns.responses, done |-> FALSE]
  /\ pc' = "call"
  /\ UNCHANGED <<config, columns, answers, pool, call, ranksRun, steps>>

RewardDone ==
  /\ future # NoTask /\ ~ future.done
  /\ future' = [future EXCEPT !.done = TRUE]
  /\ UNCHANGED <<pc, config, columns, answers, pool, call, ranksRun, steps>>

------------------------------------------------------------------------------
(* A call of a worker group: the rows are chunked to the ranks, each rank  *)
(* goes through its micro-batches, and the outputs are concatenated.       *)

Shard(r) == Chunk(columns.responses, Dp, r)

MiniSize == (MiniPrompts * N) \div Dp
Minis    == Splits(Shard(1), MiniSize)

\* What rank r works on: its shard, or a mini-batch of it.
Work(r) == IF pc = "call" THEN Shard(r) ELSE Split(Shard(r), MiniSize, mini)

LocalCount(r) ==
  LET byTokens == CeilDiv(Tokens(Work(r)), MaxTokens * sp)
  IN  IF byTokens < Len(Work(r)) THEN byTokens ELSE Len(Work(r))

\* Mutant of MicroCount: the ranks do not agree on the number.
MicroCountLocal(r) ==
  IF dynamic THEN LocalCount(r) ELSE Splits(Work(r), MicroSize)

\* The all-reduce of rearrange_micro_batches: the largest count of a rank.
LargestCount ==
  CHOOSE n \in {LocalCount(q) : q \in Ranks} : \A q \in Ranks : LocalCount(q) <= n

MicroCount(r) == IF dynamic THEN LargestCount ELSE Splits(Work(r), MicroSize)

Squares(samples) == MapThenSumSet(LAMBDA i : samples[i].len ^ 2, DOMAIN samples)

\* The key micro-batches are sorted by, the heaviest first: of the samples of
\* part p, and its first row.
Heavier(work, f, p, q) ==
  LET In(n) == SelectSeq([i \in 1 .. Len(work) |-> [len |-> work[i].len, at |-> f[i]]],
                         LAMBDA x : x.at = n)
      First(n) == CHOOSE i \in DOMAIN f : f[i] = n /\ \A j \in DOMAIN f : f[j] = n => i <= j
  IN  \/ Squares(In(p)) > Squares(In(q))
      \/ Squares(In(p)) = Squares(In(q)) /\ First(p) > First(q)

\* Any partition without an empty part, heaviest part first (KarmarkarKarp says
\* which of them is taken), or rows in order.
Partitions(work, n) ==
  IF dynamic
    THEN {f \in [1 .. Len(work) -> 1 .. n] :
            /\ \A p \in 1 .. n : \E i \in DOMAIN f : f[i] = p
            /\ \A p, q \in 1 .. n : p < q => Heavier(work, f, p, q)}
    ELSE {[i \in 1 .. Len(work) |-> (i - 1) \div MicroSize + 1]}

\* Rank r knows the number and makes its micro-batches.
Prepare(r) ==
  /\ pc \in {"call", "update"} /\ rowOrder[r] = <<>>
  /\ \E n \in {MicroCount(r)} :
       /\ \E f \in Partitions(Work(r), n) : rowOrder' = [rowOrder EXCEPT ![r] = Flattened(f)]
       /\ left' = [left EXCEPT ![r] = n]
  /\ UNCHANGED <<pc, config, columns, answers, pool, future, call, entered, steps>>

\* Rank r starts the forward pass of its next micro-batch; the last rank to do
\* so lets all of them through.
Forward(r) ==
  /\ r \in Ranks \ entered /\ left[r] > 0
  /\ IF entered \cup {r} = Ranks
       THEN entered' = {} /\ left' = [q \in Ranks |-> left[q] - 1]
       ELSE entered' = entered \cup {r} /\ UNCHANGED left
  /\ UNCHANGED <<pc, config, columns, answers, pool, future, call, rowOrder, steps>>

\* A rank in a forward pass polls for the others.
Poll == entered # {} /\ UNCHANGED vars

Through == \A r \in Ranks : rowOrder[r] # <<>> /\ left[r] = 0

\* The output of rank r: what its micro-batches gave, in the order of its rows.
Output(r) ==
  IF dynamic THEN Restored(Reordered(Work(r), rowOrder[r]), rowOrder[r]) ELSE Work(r)

\* What the workers of a group are registered with: their data-parallel rank,
\* and whether their output is collected.
DpRank(w)    == (w - 1) \div sp + 1
IsCollect(w) == (w - 1) % sp = 0

Collected ==
  Concat([w \in 1 .. World |-> IF IsCollect(w) THEN Output(DpRank(w)) ELSE <<>>], World)

CallReturns ==
  /\ pc = "call" /\ Through
  /\ columns' = With(Calls[call], Collected)
  /\ IF call = Len(Calls) THEN pc' = "advantage" /\ UNCHANGED call
                          ELSE call' = call + 1 /\ UNCHANGED pc
  /\ rowOrder' = [r \in Ranks |-> <<>>] /\ UNCHANGED left
  /\ UNCHANGED <<config, answers, pool, future, entered, steps>>

------------------------------------------------------------------------------
(* Advantages and the update.                                              *)

\* ray.get of the reward task, and the group of rows with the same uid.
Advantage ==
  /\ pc = "advantage" /\ future.done
  /\ columns' = With("advantages",
       [i \in 1 .. Rows |->
          [of |-> future.rows[i],
           group |-> {future.rows[j] : j \in {k \in 1 .. Rows : columns.uid[k] = columns.uid[i]}}]])
  /\ pc' = "update"
  /\ UNCHANGED <<config, answers, pool, future, call, ranksRun, steps>>

\* Mutant of IsLastMini: a short mini-batch is dropped.
IsLastFullMini == mini >= Len(Shard(1)) \div MiniSize

IsLastMini == mini = Minis

\* The rows of the micro-batches of every rank.
RowsOf(samples) == {samples[i].id : i \in DOMAIN samples}

OptimizerStep ==
  /\ pc = "update" /\ Through
  /\ trained' = [i \in 1 .. Rows |->
       trained[i] + Cardinality({r \in Ranks : i \in RowsOf(Reordered(Work(r), rowOrder[r]))})]
  /\ rowOrder' = [r \in Ranks |-> <<>>] /\ UNCHANGED left
  /\ IF ~ IsLastMini THEN mini' = mini + 1 /\ UNCHANGED <<pc, epoch>>
     ELSE IF epoch < Epochs THEN mini' = 1 /\ epoch' = epoch + 1 /\ UNCHANGED pc
     ELSE pc' = "done" /\ UNCHANGED <<epoch, mini>>
  /\ UNCHANGED <<config, columns, answers, pool, future, call, entered>>

Over == pc = "done" /\ UNCHANGED vars

Driver ==
  \/ UnionTrain \/ UnionValidate \/ Balance \/ Reorder \/ LaunchReward
  \/ CallReturns \/ Advantage \/ OptimizerStep

Next ==
  \/ RewardDone \/ Poll \/ Over
  \/ \E w \in 1 .. AgentWorkers : Answer(w)
  \/ \E r \in Ranks : Forward(r) \/ Prepare(r)
  \/ Driver

Spec == Init /\ [][Next]_vars

\* As long as anything can run something does.  Every step but a poll changes
\* one of these variables.
progress == <<pc, answers, pool, future, call, rowOrder, left, entered, epoch, mini>>

FairSpec == Spec /\ WF_progress(Next)

------------------------------------------------------------------------------
(* Properties.                                                             *)

Samples == columns.responses

\* In every row all columns are of the same sample, and the uid is the one of
\* its prompt, whatever was repeated, padded, chunked, reordered, restored or
\* computed from a copy in between; the advantage of a row is its own, among
\* all samples of its prompt.
RowsAligned ==
  "responses" \in DOMAIN columns =>
    /\ \A c \in DOMAIN columns : Len(columns[c]) = Len(Samples)
    /\ \A i \in DOMAIN Samples :
         /\ columns.uid[i] = Samples[i].prompt
         /\ \A c \in DOMAIN columns \ {"uid", "advantages"} : columns[c][i] = Samples[i]
         /\ "advantages" \in DOMAIN columns =>
              /\ columns["advantages"][i].of = Samples[i]
              /\ LET group == columns["advantages"][i].group
                 IN  Cardinality(group) = N /\ \A x \in group : x.prompt = Samples[i].prompt

\* Every sample takes part in exactly one optimizer step of every epoch, on one
\* rank, short last mini-batches included.
TrainedOnce ==
  /\ pc = "update" => \A i \in 1 .. Rows : trained[i] \in {epoch - 1, epoch}
  /\ pc = "done" /\ kind = "train" => \A i \in 1 .. Rows : trained[i] = Epochs

\* What balancing is for: from then on the ranks have shards whose tokens
\* differ by no more than two samples do, for each of the workers of a rank.
RanksBalanced ==
  kind = "train" /\ pc \notin {"generate", "balance"} =>
    \A q, r \in Ranks :
      LET more == Tokens(Shard(q)) - Tokens(Shard(r))
      IN  \E i, j \in 1 .. Rows : more <= sp * (Samples[i].len - Samples[j].len)

\* For a rank that waits in a forward pass every other rank has as many passes
\* ahead of it, and will have if it has not made its micro-batches yet: none of
\* them leaves the call, or the mini-batch, while another still waits for it.
RanksMeet ==
  \A q \in entered, r \in Ranks :
    /\ pc \in {"call", "update"}
    /\ left[q] > 0
    /\ left[q] = IF rowOrder[r] = <<>> THEN MicroCount(r) ELSE left[r]

\* The ranks never wait for each other for ever: the step ends.
StepEnds == <>(pc = "done")

===============================================================================

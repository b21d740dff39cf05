----------------------------- MODULE DapoTrainer ------------------------------
(***************************************************************************)
(* The DAPO training loop (RayDAPOTrainer.fit): generation batches are     *)
(* drawn from the data loader until enough prompts have a rollout group    *)
(* with differing rewards, the surplus is cut off, the batch is trained    *)
(* on, and the state of the loader is checkpointed with the weights.       *)
(*                                                                         *)
(* A prompt is its position in the stream of all draws (a new pass over    *)
(* the data draws new positions).  A row of a batch is one rollout and is  *)
(* represented by its prompt: each prompt has RolloutN rows.  A checkpoint *)
(* is one durable cell, which is what Checkpoint implements.               *)
(***************************************************************************)
EXTENDS Integers, Sequences, FiniteSets

CONSTANTS GenBsz,        \* data.gen_batch_size
          TrainBsz,      \* data.train_batch_size
          RolloutN,      \* actor_rollout_ref.rollout.n
          FilterGroups,  \* algorithm.filter_groups.enable
          MaxGenBatches, \* filter_groups.max_num_gen_batches; 0: no limit
          LoaderLen,     \* generation batches in one pass over the data
          TotalEpochs,   \* trainer.total_epochs
          TotalSteps,    \* total_training_steps
          SaveFreq,      \* trainer.save_freq
          MaxLaunches    \* bound: launches of the job

ASSUME DapoAssumption ==
  /\ GenBsz \in Nat \ {0} /\ TrainBsz \in Nat \ {0} /\ RolloutN \in Nat \ {0}
  /\ FilterGroups \in BOOLEAN
  /\ MaxGenBatches \in Nat
  /\ LoaderLen \in Nat \ {0} /\ TotalEpochs \in Nat \ {0}
  /\ TotalSteps \in Nat \ {0} /\ SaveFreq \in Nat \ {0}
  /\ MaxLaunches \in Nat \ {0}

VARIABLES pc,            \* "collect", "update", "save", "end" or at rest
          globalSteps,   \* trainer.global_steps
          genSteps,      \* trainer.gen_steps
          epoch,         \* the epoch of this launch's loop
          yielded,       \* batches the loader has yielded in this pass
          drawn,         \* batches drawn in the life of the training state
          batch,         \* the rows accumulated for the next update
          numPrompt,     \* num_prompt_in_batch
          numGen,        \* num_gen_batches
          trained,       \* the prompts the weights were trained on
          ckpt,          \* the tracked checkpoint: weights and loader state
          launches,      \* how many times the job was launched
          startStep      \* the global step this launch started with

vars == <<pc, globalSteps, genSteps, epoch, yielded, drawn, batch, numPrompt,
          numGen, trained, ckpt, launches, startStep>>
loader == <<epoch, yielded, drawn>>

AtRest == {"down", "done", "exhausted", "raised"}

NoCheckpoint == [step |-> 0, yielded |-> 0, drawn |-> 0, trained |-> {}]

Init ==
  /\ pc = "down"
  /\ globalSteps = 0 /\ genSteps = 0 /\ epoch = 0 /\ yielded = 0 /\ drawn = 0
  /\ batch = <<>> /\ numPrompt = 0 /\ numGen = 0
  /\ trained = {}
  /\ ckpt = NoCheckpoint
  /\ launches = 0 /\ startStep = 0

------------------------------------------------------------------------------
\* A new process: the weights and the loader come from the checkpoint, the
\* step continues after it, gen_steps and the epoch loop start over.
Launch ==
  /\ pc \in AtRest
  /\ launches < MaxLaunches
  /\ launches' = launches + 1
  /\ pc' = "collect"
  /\ globalSteps' = ckpt.step + 1
  /\ startStep' = ckpt.step + 1
  /\ genSteps' = 1
  /\ epoch' = 0
  /\ yielded' = ckpt.yielded
  /\ drawn' = ckpt.drawn
  /\ trained' = ckpt.trained
  /\ batch' = <<>> /\ numPrompt' = 0 /\ numGen' = 0
  /\ UNCHANGED ckpt

------------------------------------------------------------------------------
(* Drawing one generation batch.                                           *)

NewPrompts == drawn * GenBsz + 1 .. (drawn + 1) * GenBsz

\* The rollouts decide which groups have differing rewards.  A group of one is
\* always kept, and without the filter every group is.
PossiblyKept ==
  IF FilterGroups /\ RolloutN > 1 THEN SUBSET NewPrompts ELSE {NewPrompts}

\* The rows of a set of prompts in the order of the loader, RolloutN each.
Rows(kept) ==
  [i \in 1 .. Cardinality(kept) * RolloutN |->
     CHOOSE p \in kept :
       Cardinality({q \in kept : q < p}) = (i - 1) \div RolloutN]

\* Mutant of Accumulated: an earlier generation batch is overwritten.
Overwritten(kept) == Rows(kept)

Accumulated(kept) == IF FilterGroups THEN batch \o Rows(kept) ELSE Rows(kept)

\* Mutant of Truncated: cuts at the number of prompts, not of rollouts.
TruncatedToPrompts(rows) ==
  IF FilterGroups /\ Len(rows) > TrainBsz THEN SubSeq(rows, 1, TrainBsz) ELSE rows

Truncated(rows) ==
  IF FilterGroups /\ Len(rows) > TrainBsz * RolloutN
    THEN SubSeq(rows, 1, TrainBsz * RolloutN)
    ELSE rows

Draw ==
  /\ pc = "collect"
  /\ yielded < LoaderLen
  /\ yielded' = yielded + 1
  /\ drawn' = drawn + 1
  /\ numGen' = numGen + 1
  /\ UNCHANGED <<globalSteps, epoch, trained, ckpt, launches, startStep>>

Budget == MaxGenBatches = 0 \/ numGen + 1 < MaxGenBatches

\* Not enough prompts yet: the loop goes on to the next generation batch.
KeepGenerating(kept) ==
  /\ Draw
  /\ FilterGroups
  /\ numPrompt + Cardinality(kept) < TrainBsz
  /\ Budget
  /\ numPrompt' = numPrompt + Cardinality(kept)
  /\ batch' = Accumulated(kept)
  /\ genSteps' = genSteps + 1
  /\ UNCHANGED pc

\* Not enough prompts after the last batch allowed: fit raises ValueError.
GiveUp(kept) ==
  /\ Draw
  /\ FilterGroups
  /\ numPrompt + Cardinality(kept) < TrainBsz
  /\ ~ Budget
  /\ numPrompt' = numPrompt + Cardinality(kept)
  /\ batch' = Accumulated(kept)
  /\ pc' = "raised"
  /\ UNCHANGED genSteps

Enough(kept) ==
  /\ Draw
  /\ FilterGroups => numPrompt + Cardinality(kept) >= TrainBsz
  /\ numPrompt' = IF FilterGroups THEN numPrompt + Cardinality(kept) ELSE numPrompt
  /\ batch' = Truncated(Accumulated(kept))
  /\ pc' = "update"
  /\ UNCHANGED genSteps

\* Mutant of EndOfPass: the loop spins over a loader that stays exhausted.
EndOfPassSpins ==
  /\ pc = "collect"
  /\ yielded = LoaderLen
  /\ epoch' = (epoch + 1) % TotalEpochs
  /\ UNCHANGED <<pc, yielded, globalSteps, genSteps, drawn, batch, numPrompt,
                 numGen, trained, ckpt, launches, startStep>>

\* The loader is exhausted: the next epoch of the loop, or the end of fit,
\* which saves nothing.
EndOfPass ==
  /\ pc = "collect"
  /\ yielded = LoaderLen
  /\ yielded' = 0
  /\ IF epoch + 1 < TotalEpochs
       THEN epoch' = epoch + 1 /\ UNCHANGED pc
       ELSE pc' = "exhausted" /\ UNCHANGED epoch
  /\ UNCHANGED <<globalSteps, genSteps, drawn, batch, numPrompt, numGen,
                 trained, ckpt, launches, startStep>>

------------------------------------------------------------------------------
(* Training on the batch, saving, and the end of the step.                 *)

Prompts(rows) == {rows[i] : i \in 1 .. Len(rows)}

Update ==
  /\ pc = "update"
  /\ trained' = trained \cup Prompts(batch)
  /\ pc' = "save"
  /\ UNCHANGED <<globalSteps, genSteps, loader, batch, numPrompt, numGen, ckpt,
                 launches, startStep>>

IsLastStep == genSteps >= TotalSteps

\* Mutant of SaveDue: only the final save is made.
SaveAtTheEnd == IsLastStep

SaveDue == IsLastStep \/ globalSteps % SaveFreq = 0

\* Mutant of Snapshot: the state of a loader that is one batch behind.
LaggingSnapshot ==
  [step |-> globalSteps, yielded |-> yielded - 1, drawn |-> drawn - 1,
   trained |-> trained]

Snapshot ==
  [step |-> globalSteps, yielded |-> yielded, drawn |-> drawn,
   trained |-> trained]

Save ==
  /\ pc = "save"
  /\ ckpt' = IF SaveDue THEN Snapshot ELSE ckpt
  /\ pc' = "end"
  /\ UNCHANGED <<globalSteps, genSteps, loader, batch, numPrompt, numGen,
                 trained, launches, startStep>>

\* Mutant of EndStep: the count of generation batches survives the step.
EndStepKeepsGen ==
  /\ pc = "end"
  /\ batch' = <<>> /\ numPrompt' = 0
  /\ IF IsLastStep
       THEN pc' = "done" /\ UNCHANGED <<globalSteps, genSteps>>
       ELSE pc' = "collect" /\ globalSteps' = globalSteps + 1 /\ genSteps' = genSteps + 1
  /\ UNCHANGED <<loader, numGen, trained, ckpt, launches, startStep>>

EndStep ==
  /\ pc = "end"
  /\ batch' = <<>> /\ numPrompt' = 0 /\ numGen' = 0
  /\ IF IsLastStep
       THEN pc' = "done" /\ UNCHANGED <<globalSteps, genSteps>>
       ELSE pc' = "collect" /\ globalSteps' = globalSteps + 1 /\ genSteps' = genSteps + 1
  /\ UNCHANGED <<loader, trained, ckpt, launches, startStep>>

\* The job is killed: everything but the checkpoint is lost.
Crash ==
  /\ pc \notin AtRest
  /\ launches < MaxLaunches
  /\ pc' = "down"
  /\ UNCHANGED <<globalSteps, genSteps, loader, batch, numPrompt, numGen,
                 trained, ckpt, launches, startStep>>

\* The job has ended and is not launched again.
Over == pc \in AtRest \ {"down"} /\ UNCHANGED vars

Fit ==
  \/ \E kept \in PossiblyKept : KeepGenerating(kept) \/ GiveUp(kept) \/ Enough(kept)
  \/ EndOfPass \/ Update \/ Save \/ EndStep

Next == Launch \/ Fit \/ Crash \/ Over

Spec == Init /\ [][Next]_vars

\* The driver keeps running and a killed job is launched again.
FairSpec == Spec /\ WF_vars(Fit) /\ WF_vars(pc = "down" /\ Launch)

------------------------------------------------------------------------------
(* Properties.                                                             *)

TypeOK ==
  /\ pc \in AtRest \cup {"collect", "update", "save", "end"}
  /\ globalSteps \in Nat /\ genSteps \in Nat /\ startStep \in Nat
  /\ epoch \in 0 .. TotalEpochs - 1
  /\ yielded \in 0 .. LoaderLen
  /\ drawn \in Nat
  /\ batch \in Seq(Nat)
  /\ numPrompt \in Nat /\ numGen \in Nat
  /\ trained \in SUBSET Nat
  /\ ckpt \in [step : Nat, yielded : 0 .. LoaderLen, drawn : Nat, trained : SUBSET Nat]
  /\ launches \in 0 .. MaxLaunches

\* GRPO needs complete groups: every update sees exactly train_batch_size
\* prompts with all of their RolloutN rollouts, however the generation batches
\* were filtered, concatenated and cut.
ExactBatch ==
  FilterGroups /\ pc = "update" =>
    /\ Cardinality(Prompts(batch)) = TrainBsz
    /\ \A p \in Prompts(batch) :
         Cardinality({i \in 1 .. Len(batch) : batch[i] = p}) = RolloutN

\* The counter that decides whether to go on generating agrees with the rows
\* accumulated, also over the boundary of an epoch and after a relaunch.
CountMatches ==
  FilterGroups /\ pc = "collect" =>
    numPrompt < TrainBsz /\ Len(batch) = numPrompt * RolloutN

\* Across crashes and resumes no draw of a prompt is trained on twice: weights
\* and loader position always belong to the same moment.
TrainedOnce == pc = "update" => Prompts(batch) \cap trained = {}

\* No more than max_num_gen_batches generation batches go into one update.
GenBudget == FilterGroups /\ MaxGenBatches > 0 => numGen <= MaxGenBatches

\* What is thrown away when a batch is cut never amounts to a whole generation
\* batch.
SurplusBounded == pc = "update" => numPrompt < TrainBsz + GenBsz

\* One launch never makes more than total_training_steps updates.
LaunchCap == globalSteps - startStep < TotalSteps

\* A run that ends by its cap has its last step saved.
SavedAtTheEnd == pc = "done" => ckpt.step = globalSteps

\* What the end of a run costs: nothing if it ends by its cap; if the data ends,
\* or sampling gives up, fewer than save_freq finished updates.
LossBounded ==
  /\ SavedAtTheEnd
  /\ pc \in {"exhausted", "raised"} => globalSteps - 1 - ckpt.step < SaveFreq

\* Every launch comes to an end, whatever the rollouts are worth.
EndsEventually == <>(pc \in AtRest \ {"down"})

\* "Runs are capped at 400 steps", README.md:54: the cap on the step number.
StepCap == pc \notin AtRest => globalSteps <= TotalSteps

------------------------------------------------------------------------------
(* The run as its user sees it, as for Checkpoint: whether the data ends,  *)
(* sampling gives up or the job is killed makes no difference.             *)

Status == IF pc \notin AtRest THEN "up" ELSE IF pc = "done" THEN "done" ELSE "down"

Resumable == INSTANCE ResumableRun
  WITH status <- Status, step <- IF Status = "down" THEN 0 ELSE globalSteps,
       durable <- ckpt.step, MaxLoss <- SaveFreq, MaxStep <- TotalSteps * MaxLaunches

\* DAPO's loop, with a step counter of its own for the cap, its filter and its three
\* ends, is a counter and one durable cell: a launch continues right after the
\* saved step, none loses more than save_freq steps however it ends, and the run
\* is over only when its last step is saved.
ImplementsResumableRun == Resumable!Spec

===============================================================================

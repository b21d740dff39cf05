------------------------------ MODULE Checkpoint ------------------------------
(***************************************************************************)
(* Checkpointing and resumption of a training run: the PPO driver's fit    *)
(* loop (RayPPOTrainer), the FSDP checkpoint manager that every rank of a  *)
(* worker group runs, and the tracker file from which the next launch of   *)
(* the same job resumes.                                                   *)
(*                                                                         *)
(* A file on disk is an integer: 0 when it is absent, e > 0 when launch e  *)
(* of the job wrote it completely, -e when launch e opened (truncated) it  *)
(* and has not finished writing it.  The three files one rank writes       *)
(* (model, optim, extra_state) are one shard.  A crash kills the driver    *)
(* and every worker: memory is lost, the disk keeps what it had.           *)
(***************************************************************************)
EXTENDS Integers, Sequences, FiniteSets

CONSTANTS WorldSize,    \* ranks of a worker group
          UseCritic,    \* whether a critic is trained next to the actor
          UseSidecar,   \* whether a recipe saves controller state (KTSC, IRT)
          Keep,         \* max_actor_ckpt_to_keep, max_critic_ckpt_to_keep; 0: all
          SaveFreq,     \* trainer.save_freq
          TotalSteps,   \* total_training_steps
          Esi,          \* whether should_save_ckpt_esi may answer TRUE
          ResumeModes,  \* the resume modes the job is ever launched with
          MaxLaunches,  \* bound: launches of the job
          StepBound     \* bound: largest global step that is represented

Ranks == 0 .. WorldSize - 1
Roles == IF UseCritic THEN {"actor", "critic"} ELSE {"actor"}
Steps == 1 .. StepBound
Eras  == 1 .. MaxLaunches
File  == -MaxLaunches .. MaxLaunches

ASSUME CheckpointAssumption ==
  /\ WorldSize \in Nat \ {0}
  /\ UseCritic \in BOOLEAN
  /\ UseSidecar \in BOOLEAN
  /\ Keep \in [{"actor", "critic"} -> Nat]
  /\ SaveFreq \in Nat \ {0}
  /\ TotalSteps \in Nat \ {0}
  /\ Esi \in BOOLEAN
  /\ ResumeModes \subseteq {"auto", "disable", "resume_path"}
  /\ MaxLaunches \in Nat \ {0}
  /\ StepBound \in Nat /\ StepBound >= TotalSteps + MaxLaunches

VARIABLES pc,           \* where the driver is; "down" when the job was killed
          globalSteps,  \* trainer.global_steps
          era,          \* how many times the job was launched
          rpc,          \* where each rank is inside save_checkpoint
          saved,        \* previous_saved_paths of rank 0, as step numbers
          shard,        \* global_step_N/<role>/..._rank_R.pt
          data,         \* global_step_N/data.pt
          sidecar,      \* global_step_N/<recipe state>.json
          tracker       \* latest_checkpointed_iteration.txt

memory == <<pc, globalSteps, rpc, saved>>
disk   == <<shard, data, sidecar, tracker>>
vars   == <<pc, globalSteps, era, rpc, saved, shard, data, sidecar, tracker>>

NoFile == 0     \* the tracker file does not exist
Torn   == -1    \* it was truncated and its number not written yet

AtRest == {"down", "failed", "done"}
Saving == {"actor", "critic", "data", "tracker", "number", "sidecar"}

Init ==
  /\ pc = "down"
  /\ globalSteps = 0
  /\ era = 0
  /\ rpc = [q \in Ranks |-> "enter"]
  /\ saved = [r \in Roles |-> <<>>]
  /\ shard = [r \in Roles |-> [s \in Steps |-> [q \in Ranks |-> 0]]]
  /\ data = [s \in Steps |-> 0]
  /\ sidecar = [s \in Steps |-> 0]
  /\ tracker = NoFile

------------------------------------------------------------------------------
(* Launching the job: a new process, then _load_checkpoint.                *)

\* torch.load of every shard and of data.pt, json.load of the sidecar.  A
\* missing shard or a truncated file raises; a missing data.pt or sidecar is
\* only a warning.
Loadable(s) ==
  /\ \A r \in Roles : \A q \in Ranks : shard[r][s][q] > 0
  /\ data[s] >= 0
  /\ UseSidecar => sidecar[s] >= 0

ScratchIn(mode) ==
  \/ mode = "disable"
  \/ mode = "auto" /\ tracker = NoFile

Folders(mode) == IF mode = "auto" THEN {tracker} \cap Steps ELSE Steps

FreshStart(mode) ==
  /\ ScratchIn(mode)
  /\ globalSteps' = 1
  /\ pc' = "train"

\* Mutant of ResumeFrom: fit forgets to start from the step after the tracked one.
ResumeSameStep(mode) ==
  /\ mode # "disable"
  /\ tracker # Torn
  /\ \E s \in Folders(mode) \ {StepBound} :
        /\ Loadable(s)
        /\ globalSteps' = s
        /\ pc' = "train"

ResumeFrom(mode) ==
  /\ mode # "disable"
  /\ tracker # Torn
  /\ \E s \in Folders(mode) \ {StepBound} :
        /\ Loadable(s)
        /\ globalSteps' = s + 1
        /\ pc' = "train"

\* int('') in find_latest_ckpt_path, or a checkpoint that cannot be loaded.
ResumeFails(mode) ==
  /\ mode # "disable"
  /\ \/ tracker = Torn
     \/ \E s \in Folders(mode) : ~ Loadable(s)
  /\ globalSteps' = 0
  /\ pc' = "failed"

Launch ==
  /\ pc \in AtRest
  /\ era < MaxLaunches
  /\ era' = era + 1
  /\ rpc' = [q \in Ranks |-> "enter"]
  /\ saved' = [r \in Roles |-> <<>>]
  /\ \E mode \in ResumeModes :
        FreshStart(mode) \/ ResumeFrom(mode) \/ ResumeFails(mode)
  /\ UNCHANGED disk

------------------------------------------------------------------------------
(* One training step and the decision to save at its end.                  *)

IsLastStep == globalSteps >= TotalSteps

\* Mutant of SaveDue: the periodic condition is lost.
SaveAtTheEnd(esi) == IsLastStep \/ esi

SaveDue(esi) == IsLastStep \/ globalSteps % SaveFreq = 0 \/ esi

TrainStep ==
  /\ pc = "train"
  /\ \E esi \in {FALSE, Esi} :
        pc' = IF SaveDue(esi) THEN "actor" ELSE "end"
  /\ UNCHANGED <<globalSteps, era, rpc, saved, disk>>

EndStep ==
  /\ pc = "end"
  /\ IF IsLastStep
       THEN pc' = "done" /\ UNCHANGED globalSteps
       ELSE pc' = "train" /\ globalSteps' = globalSteps + 1
  /\ UNCHANGED <<era, rpc, saved, disk>>

------------------------------------------------------------------------------
(* save_checkpoint of one worker group: pc is the role whose ranks run it. *)

\* Mutants of Excess: one path too many, one too few is removed.
ExcessGreedy(r) ==
  IF Keep[r] > 0 /\ Len(saved[r]) >= Keep[r]
    THEN Len(saved[r]) - Keep[r] + 2
    ELSE 0

ExcessShy(r) ==
  IF Keep[r] > 0 /\ Len(saved[r]) >= Keep[r]
    THEN Len(saved[r]) - Keep[r]
    ELSE 0

\* How many of the earliest paths rank 0 removes before this save.
Excess(r) ==
  IF Keep[r] > 0 /\ Len(saved[r]) >= Keep[r]
    THEN Len(saved[r]) - Keep[r] + 1
    ELSE 0

Doomed(r) == {saved[r][i] : i \in 1 .. Excess(r)}

\* shutil.rmtree on rank 0, which is not atomic.
RemoveOld ==
  /\ pc \in Roles
  /\ rpc[0] = "enter"
  /\ \E s \in Doomed(pc), q \in Ranks :
        /\ shard[pc][s][q] # 0
        /\ shard' = [shard EXCEPT ![pc][s][q] = 0]
  /\ UNCHANGED <<memory, era, data, sidecar, tracker>>

\* The rest of the prologue of one rank, up to the first barrier.
ArriveAtBarrier(q) ==
  /\ pc \in Roles
  /\ rpc[q] = "enter"
  /\ IF q = 0
       THEN /\ \A s \in Doomed(pc), p \in Ranks : shard[pc][s][p] = 0
            /\ saved' = [saved EXCEPT ![pc] =
                           SubSeq(@, Excess(pc) + 1, Len(@))]
       ELSE UNCHANGED saved
  /\ rpc' = [rpc EXCEPT ![q] = "ready"]
  /\ UNCHANGED <<pc, globalSteps, era, disk>>

OpenShard(q) ==
  /\ pc \in Roles
  /\ rpc[q] = "ready"
  /\ \A p \in Ranks : rpc[p] # "enter"
  /\ shard' = [shard EXCEPT ![pc][globalSteps][q] = -era]
  /\ rpc' = [rpc EXCEPT ![q] = "dumping"]
  /\ UNCHANGED <<pc, globalSteps, era, saved, data, sidecar, tracker>>

DumpShard(q) ==
  /\ pc \in Roles
  /\ rpc[q] = "dumping"
  /\ shard' = [shard EXCEPT ![pc][globalSteps][q] = era]
  /\ rpc' = [rpc EXCEPT ![q] = "dumped"]
  /\ UNCHANGED <<pc, globalSteps, era, saved, data, sidecar, tracker>>

\* The second barrier; the path is recorded once every rank has dumped.
ReturnFromSave(q) ==
  /\ pc \in Roles
  /\ rpc[q] = "dumped"
  /\ \A p \in Ranks : rpc[p] \in {"dumped", "returned"}
  /\ rpc' = [rpc EXCEPT ![q] = "returned"]
  /\ saved' = IF q = 0
                THEN [saved EXCEPT ![pc] = Append(@, globalSteps)]
                ELSE saved
  /\ UNCHANGED <<pc, globalSteps, era, disk>>

\* The driver's blocking call on the worker group returns.
GroupSaved ==
  /\ pc \in Roles
  /\ \A q \in Ranks : rpc[q] = "returned"
  /\ rpc' = [q \in Ranks |-> "enter"]
  /\ pc' = IF pc = "actor" /\ UseCritic THEN "critic" ELSE "data"
  /\ UNCHANGED <<globalSteps, era, saved, disk>>

------------------------------------------------------------------------------
(* The driver's own files: data.pt, the tracker, the recipe's sidecar.     *)

OpenData ==
  /\ pc = "data"
  /\ data[globalSteps] # -era
  /\ data' = [data EXCEPT ![globalSteps] = -era]
  /\ UNCHANGED <<memory, era, shard, sidecar, tracker>>

WriteData ==
  /\ pc = "data"
  /\ data[globalSteps] = -era
  /\ data' = [data EXCEPT ![globalSteps] = era]
  /\ pc' = "tracker"
  /\ UNCHANGED <<globalSteps, era, rpc, saved, shard, sidecar, tracker>>

\* open(..., "w") truncates the tracker in place.
OpenTracker ==
  /\ pc = "tracker"
  /\ tracker' = Torn
  /\ pc' = "number"
  /\ UNCHANGED <<globalSteps, era, rpc, saved, shard, data, sidecar>>

WriteTracker ==
  /\ pc = "number"
  /\ tracker' = globalSteps
  /\ pc' = IF UseSidecar THEN "sidecar" ELSE "end"
  /\ UNCHANGED <<globalSteps, era, rpc, saved, shard, data, sidecar>>

OpenSidecar ==
  /\ pc = "sidecar"
  /\ sidecar[globalSteps] # -era
  /\ sidecar' = [sidecar EXCEPT ![globalSteps] = -era]
  /\ UNCHANGED <<memory, era, shard, data, tracker>>

WriteSidecar ==
  /\ pc = "sidecar"
  /\ sidecar[globalSteps] = -era
  /\ sidecar' = [sidecar EXCEPT ![globalSteps] = era]
  /\ pc' = "end"
  /\ UNCHANGED <<globalSteps, era, rpc, saved, shard, data, tracker>>

------------------------------------------------------------------------------
\* The whole job is killed.  Only a launch that can be followed by another one
\* crashes, so that the bound on launches does not look like a hang.
Crash ==
  /\ pc \notin AtRest
  /\ era < MaxLaunches
  /\ pc' = "down"
  /\ globalSteps' = 0
  /\ rpc' = [q \in Ranks |-> "enter"]
  /\ saved' = [r \in Roles |-> <<>>]
  /\ UNCHANGED <<era, disk>>

\* The job is over and is not launched again.
Over ==
  /\ pc \in {"failed", "done"}
  /\ UNCHANGED vars

Run ==
  \/ TrainStep \/ EndStep
  \/ RemoveOld \/ GroupSaved
  \/ \E q \in Ranks :
        ArriveAtBarrier(q) \/ OpenShard(q) \/ DumpShard(q) \/ ReturnFromSave(q)
  \/ OpenData \/ WriteData \/ OpenTracker \/ WriteTracker
  \/ OpenSidecar \/ WriteSidecar

Relaunch == pc = "down" /\ Launch

Next == Launch \/ Run \/ Crash \/ Over

Spec == Init /\ [][Next]_vars

\* Ranks and the driver keep running, and a killed job is launched again.
FairSpec == Spec /\ WF_vars(Run) /\ WF_vars(Relaunch)

------------------------------------------------------------------------------
(* Properties.                                                             *)

TypeOK ==
  /\ pc \in AtRest \cup {"train", "end"} \cup Saving
  /\ globalSteps \in 0 .. StepBound
  /\ pc \notin AtRest => globalSteps \in Steps
  /\ era \in 0 .. MaxLaunches
  /\ rpc \in [Ranks -> {"enter", "ready", "dumping", "dumped", "returned"}]
  /\ saved \in [Roles -> Seq(Steps)]
  /\ shard \in [Roles -> [Steps -> [Ranks -> File]]]
  /\ data \in [Steps -> File]
  /\ sidecar \in [Steps -> File]
  /\ tracker \in {NoFile, Torn} \cup Steps

\* Every shard of every role and data.pt of step s were written by launch e.
CompleteBy(s, e) ==
  /\ data[s] = e
  /\ \A r \in Roles : \A q \in Ranks : shard[r][s][q] = e

\* Whatever the tracker names can be resumed, at every moment at which the job
\* may be killed: rotation on rank 0 of each group, the ranks that dump at
\* their own pace and a relaunch that saves the same step again never touch the
\* checkpoint the tracker names, and it is the work of one launch.  (Resume
\* mode auto, and not max_ckpt_to_keep = 1.)
TrackedComplete ==
  tracker \in Steps => \E e \in 1 .. era : CompleteBy(tracker, e)

\* The directories one launch has written and not removed again never exceed
\* max_ckpt_to_keep, also while the next checkpoint is being written.
OwnDirs(r) == {s \in Steps : \E q \in Ranks : shard[r][s][q] \in {era, -era} \ {0}}

RotationBound ==
  \A r \in Roles : Keep[r] > 0 => Cardinality(OwnDirs(r)) <= Keep[r]

\* A resume never pairs the weights of one launch with the controller state of
\* another: the sidecar of the tracked step is absent, torn, or from the launch
\* that wrote the tracked weights, although it is written after the tracker.
SidecarNeverStale ==
  tracker \in Steps /\ sidecar[tracker] > 0 => sidecar[tracker] = data[tracker]

\* A crash costs at most save_freq steps of training: the step being trained is
\* never further ahead of the tracked one, whatever the resume history.
BoundedLoss ==
  pc \notin AtRest /\ tracker # Torn => globalSteps - tracker <= SaveFreq

\* The tracker is only ever truncated to be replaced by a later step.
TrackerMovesForward ==
  [][tracker' = Torn /\ tracker # Torn => globalSteps > tracker]_vars

\* What the next launch finds where the tracked checkpoint should be: nothing
\* while the tracker, or the sidecar of the step it names, is truncated.
Durable == IF tracker \in Steps /\ sidecar[tracker] < 0 THEN Torn ELSE tracker

\* Unless a crash hits one of the two instants at which the tracker, or the
\* sidecar of the step it names, is truncated, every launch history ends with
\* the run complete: no other crash makes a resume fail, and no rank waits at a
\* barrier forever.
TornAtCrash == pc = "down" /\ Durable = Torn

CompletesUnlessTorn == []~TornAtCrash => <>(pc = "done")

\* The claims of comments, docstrings and configuration files.

\* "latest checkpointed iteration tracker (for atomic usage)",
\* verl/trainer/ppo/ray_trainer.py:936: a launch never finds it half written.
TrackerIsAtomic == pc = "down" => tracker # Torn

\* "auto": resume from last checkpoint if available,
\* verl/trainer/config/ppo_trainer.yaml:289: a readable tracker names a
\* checkpoint that can be loaded.
LastCheckpointAvailable == pc = "down" /\ tracker \in Steps => Loadable(tracker)

------------------------------------------------------------------------------
(* The inductive invariant behind TrackedComplete, for a job that is always *)
(* launched with resume mode auto and never keeps exactly one checkpoint.   *)

AutoOnly == ResumeModes = {"auto"}

KeepNotOne == \A r \in Roles : Keep[r] # 1

\* The role whose save of the current step is behind the driver.
Behind(r) ==
  \/ r = "actor" /\ pc \in Saving \ {"actor"}
  \/ r = "critic" /\ pc \in Saving \ {"actor", "critic"}

Appended(r) == Behind(r) \/ (pc = r /\ rpc[0] = "returned")

\* Where the driver is fixes the order of the step being trained and the
\* tracked one.
TrackerOrder ==
  /\ pc \notin AtRest => globalSteps \in Steps /\ era \in Eras
  /\ pc \in {"train", "actor", "critic", "data", "tracker"} =>
       tracker # Torn /\ tracker < globalSteps
  /\ pc = "number" => tracker = Torn
  /\ pc = "sidecar" => tracker = globalSteps
  /\ pc = "end" => tracker # Torn /\ tracker <= globalSteps
  /\ pc = "critic" => UseCritic

\* What has been dumped of the current step is this launch's work.
DumpedSoFar ==
  /\ pc \notin Roles => \A q \in Ranks : rpc[q] = "enter"
  /\ pc \in Roles => \A q \in Ranks :
       rpc[q] \in {"dumped", "returned"} => shard[pc][globalSteps][q] = era
  /\ \A r \in Roles : Behind(r) =>
       \A q \in Ranks : shard[r][globalSteps][q] = era
  /\ pc \in {"tracker", "number", "sidecar"} => data[globalSteps] = era

Increasing(s) == \A i, j \in 1 .. Len(s) : i < j => s[i] < s[j]

\* The paths rank 0 remembers are ordered, and all but the one of the current
\* step are at most the tracked step.
SavedOrder ==
  \A r \in Roles :
    /\ Increasing(saved[r])
    /\ pc \notin AtRest => \A i \in 1 .. Len(saved[r]) :
         saved[r][i] <= IF Appended(r) THEN globalSteps ELSE tracker

IInv == TrackerOrder /\ DumpedSoFar /\ SavedOrder /\ TrackedComplete

\* No multiple of save_freq lies strictly between the tracked step and the one
\* being trained, and the last step is over only when it is tracked.
Milestones == {m \in 1 .. StepBound + SaveFreq : m % SaveFreq = 0}

NoMilestoneSkipped ==
  /\ pc \notin AtRest /\ tracker # Torn =>
       \A m \in Milestones : tracker < m => globalSteps <= m
  /\ pc = "end" => \A m \in Milestones : tracker < m => globalSteps < m
  /\ pc = "end" /\ IsLastStep => tracker = globalSteps

\* A sidecar exists only for steps the tracker has named; one that is torn
\* belongs to the step it names now, and every launch fails on it.
SidecarOrder ==
  /\ pc = "sidecar" => UseSidecar
  /\ pc \in {"tracker", "number", "sidecar"} => data[globalSteps] = era
  /\ pc = "number" => \A s \in Steps : sidecar[s] # 0 => s < globalSteps
  /\ tracker # Torn => \A s \in Steps : sidecar[s] # 0 => s <= tracker
  /\ \A s \in Steps : sidecar[s] < 0 =>
       UseSidecar /\ s = tracker /\ pc \in {"sidecar", "down", "failed"}

------------------------------------------------------------------------------
(* The inductive invariant behind RotationBound, in every resume mode.     *)

\* The barriers keep the ranks together with rank 0, which rotates.
BarrierOrder ==
  /\ pc \notin Roles => \A q \in Ranks : rpc[q] = "enter"
  /\ rpc[0] = "enter" => \A q \in Ranks : rpc[q] \in {"enter", "ready"}
  /\ rpc[0] = "returned" => \A q \in Ranks : rpc[q] \in {"dumped", "returned"}

\* Rank 0 has rotated for the current save and has not recorded it yet.
Rotating(r) == pc = r /\ rpc[0] \in {"ready", "dumping", "dumped"}

\* What a launch has on disk is what rank 0 remembers, and the current step
\* between rotation and the end of the save.
Remembered(r) == {saved[r][i] : i \in 1 .. Len(saved[r])}

Owned(r) ==
  /\ OwnDirs(r) \subseteq Remembered(r) \cup (IF Rotating(r) THEN {globalSteps} ELSE {})
  /\ Keep[r] > 0 =>
       Len(saved[r]) <= IF Rotating(r) THEN Keep[r] - 1 ELSE Keep[r]

OwnOrder ==
  /\ \A r \in Roles : \A s \in Steps : \A q \in Ranks :
       shard[r][s][q] \in -era .. era
  /\ pc \notin AtRest => \A r \in Roles : Owned(r)

RInv == BarrierOrder /\ OwnOrder /\ (pc \in AtRest => RotationBound)

------------------------------------------------------------------------------
(* The run as its user sees it: a counter and one durable cell.            *)

Status == IF pc \in AtRest THEN pc ELSE "up"

Resumable == INSTANCE ResumableRun
  WITH status <- Status, step <- globalSteps, durable <- Durable,
       MaxLoss <- SaveFreq, MaxStep <- StepBound

\* Checkpointing implements the durable cell: seen from outside, shards,
\* rotation, barriers, the recipe's sidecar and partial files do not exist.
ImplementsResumableRun == Resumable!Spec

===============================================================================

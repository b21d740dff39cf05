# A verification project for verl and its recipes

This directory holds TLA+ models of the parts of the repository whose
correctness depends on the order of events or on the order of rows:
checkpointing and resumption, the DAPO training loop, the prompt-selecting
loader of the IRT recipe, the learning-rate controller of the KTSC recipe, the
asynchronous rollout, the two multi-turn rollouts and the limits on their tool
calls, the way a batch takes through one training step, with the offloading of
activations, the scoring of rows and the estimation of advantages inside it, and
the cache of models on a node. TLC checks them on small instances; TLAPS proves
the main properties of most of them for every value of the constants. The
sources are the only reference: every definition that models code is tied to
the lines it translates in the `map` of `PROJECT.json`.

Contents: [inventory](#inventory), [modules](#modules), [runs](#runs),
[fairness](#fairness), [deviations found](#deviations-found),
[proofs](#proofs), [limits](#what-is-not-modelled), [plan](#plan).

## Inventory

verl trains a language model by reinforcement learning. One *driver* process
(the trainer's `fit`) owns the loop; *worker groups* of ranks, one process per
GPU, hold actor, critic and rollout engine and obey the driver through Ray. A
step is: draw prompts, generate responses, score them, compute advantages,
update, perhaps save. `recipe/` holds trainers that change parts of this loop.

| Component | State it keeps | Operations | Talks to | What is hard | What makes it correct |
|---|---|---|---|---|---|
| Checkpointing (`ray_trainer.py`, `utils/checkpoint/`) | step directories of shards, `data.pt`, tracker file, recipe sidecars on disk; the remembered paths in memory | save and load on every rank, rotation, find the latest | driver calls all ranks; ranks meet at barriers; the next launch reads the disk | a crash at any instant, rotation before commit, re-saving a step, several launches | the tracker names a complete checkpoint of one launch; loss is bounded; every relaunch completes |
| PPO loop (`ray_trainer.py`) | `global_steps`, loader, KL controller | train, validate, save, finish | worker groups, reward managers | resume arithmetic, when to save | steps in order, last step saved |
| DAPO loop (`recipe/dapo`) | the above, `gen_steps`, partial batch, two counters | generate, filter, accumulate, cut, update, give up | loader, worker groups | counters over epochs, retries, caps that count different things | complete groups, bounded sampling, nothing trained twice |
| IRT loader (`recipe/irt`) | pool of rows, inner loader's position, tracker of difficulty | fill, select, trim, save | trainer iterates it and saves its state | pool not saved, duplicates, the end of a pass | full batches, no row twice, bounded loss |
| Asynchronous rollout (`experimental/agent_loop`, `vllm_async_server.py`, `fsdp_vllm.py`) | engine state, weights, prefix cache per server; counts and session cache per worker; turns per request | wake, load weights, generate, call tools, collect, sleep | trainer shares GPUs and weights; workers send to any server | collectives, coroutines, a failing loop, caches | on-policy tokens, exclusive use of memory, sticky and balanced sessions, calls that end |
| Agent loops (`tool_agent_loop.py`) | token ids, response mask, turn counters, instances of tools | generate, call tools concurrently, release, cut | server manager, tools | six ways out of the loop, exceptions in a `finally`, siblings of a call that failed | mask and ids agree, the model has the last word, nothing is left open |
| SGLang rollout (`sglang_rollout.py`, `schemas.py`) | a request: its state, ids, loss mask, turns, instances | create, generate, call tools, interact, finalize | engine, tools, interactions | breaks out of every branch, headers appended and taken back | the request ends, with an accepted reason, and is a conversation |
| Tools and limiters (`tools/`) | semaphore, queue of acquires, token bucket | acquire, run, release; poll | agent loops, SGLang rollout | a limit shared by processes, a release nobody awaits, polling | the limit holds, every caller proceeds |
| KTSC (`recipe/ktsc`) | multiplier, history, counters | update, save, load | wraps `update_actor`; sidecar | warm-up, seeding, resume under another configuration | it knows what it measured, and moves only on that, within bounds |
| Data transfer (`protocol.py`, `single_controller`) | none across calls | repeat, chunk, split, pad, concat, reorder, dispatch | driver and ranks | divisibility, order | rows come back in order |
| Sequence balancing (`seqlen_balancing.py`) | a heap of partial partitions | Karmarkar-Karp; micro-batches and their restoration | driver and ranks | ties, empty parts, collectives | a balanced partition, the same number of micro-batches on all ranks |
| Workers (`fsdp_workers.py`, `dp_actor.py`) | position in mini- and micro-batches | forward passes, optimizer steps | driver, collectives | a rank that waits alone, a short last mini-batch | each sample trained on once an epoch |
| CSR and PSO recipes | as DAPO | other advantages | as DAPO | as DAPO | as DAPO |
| Advantages and losses (`core_algos.py`, `recipe/fipok`) | a running sum per row | walk a response backwards; other tensor arithmetic | rewards, masks, update | tokens of tools among those of the model | tokens of tools change nothing for the model's |
| Reward managers (`workers/reward_manager`) | a process pool (prime): a queue of rows, processes, a deadline | score, time out, kill | the reward task beside the step | scorers that loop, raise or die | one row's fate is not another's; it ends |
| Model cache (`utils/fs.py`, `hdfs_io.py`) | a directory with a record of its entries and a file lock; a copy in shared memory | lock, check, remove, get, record, copy, load | all processes of a node; the next launch | crashes in the middle, a copy without a lock | what is loaded is whole |
| Activation offload (`utils/activation_offload.py`) | a group of saved tensors per layer: on the device, on the CPU or copied back; three streams of the device | push, commit, uncommit, pop: hooks of the forward and the backward pass | autograd calls the hooks; the device runs behind the host | two streams read and write memory the host has already dropped | the backward pass finds what the forward pass saved, in little memory |
| Mergers, SFT, datasets, profiling, kernels, vendored code | see `PROJECT.json` | | | | |

The list with every component, its sources and its status is `components` in
`PROJECT.json`; the places where this code is hard to test are `hazards` there,
each with the properties that watch it or the reason why none does.

## Modules

| Module | Role |
|---|---|
| `Checkpoint` | driver, ranks and disk: saving, rotation, resumption, crashes |
| `ResumableRun` | what checkpointing promises: a counter and one durable cell |
| `DapoTrainer` | the DAPO loop on top of that durable cell |
| `IrtLoader` | the IRT loader with its trainer's saves and relaunches |
| `AgentLoop` | trainer, manager, servers, workers and agent loops |
| `Conversation` | what a multi-turn rollout promises the trainer |
| `ToolAgentLoop` | one run of the tool agent loop with its concurrent tool calls |
| `RolloutRequest` | one multi-turn request of the SGLang rollout |
| `RateLimiter`, `TokenBucket` | the semaphore of the search and sandbox tools; the bucket of the MCP tools |
| `KtscController` | the KTSC controller over launches and configurations |
| `DataProto` | operations on rows, as operators |
| `KarmarkarKarp` | the balancing algorithm, a step for each turn of its loop |
| `BatchFlow` | the rows of one PPO step, on top of the last two |
| `ActivationOffload` | host hooks, CUDA streams and memory of the activation offload |
| `RewardPool` | the scoring of a batch by the prime reward manager |
| `Advantages` | two estimators that walk a response token by token |
| `ModelCache` | how the processes of a node come by a model |
| `MC*` | constants for TLC, and what is checked together: `MCCheckpoint` (a job restarted in mode auto), `MCJobs` (DAPO, IRT, a job an operator launches, a node), `MCAgentLoop`, `MCMultiTurn` (two rollouts, two limiters), `MCStep` (a batch in a step, and inside the step a GPU, the reward task, the driver; the KTSC controller after it) |
| `CheckpointProofs`, `IrtProofs`, `JobProofs` | theorems about checkpointing; the IRT loader; the jobs of `MCJobs`: the DAPO loop, the model cache, and the first two carried over |
| `AgentLoopProofs`, `ToolAgentLoopProofs` | theorems about the asynchronous rollout; both multi-turn rollouts and both limiters |
| `StepProofs` | theorems about what happens inside and after a step: the KTSC controller, the estimators, the reward pool, the activation offload, the rows of the batch |
| `PartitionProofs` | theorems about `DataProto` and `KarmarkarKarp` |
| `Lemmas` | what the proofs share: sums, ranks, multiples, sequences without repetition |

### Checkpoint

`pc` is the driver's position: `train`, the role whose ranks are saving
(`actor`, `critic`), `data`, `tracker` and `number` (the two halves of writing
the tracker), `sidecar`, `end`, or at rest (`down`, `failed`, `done`).
`rpc[q]` is rank q's position in `save_checkpoint`; `saved` is
`previous_saved_paths` of rank 0 of each group. On disk, a file is 0 when
absent, `e` when launch `e` of the job wrote it, `-e` when launch `e` opened
and did not finish it, so that one integer tells both completeness and origin.
The three files of a rank are one shard.

| Action | Code |
|---|---|
| `Launch` | start of `fit`, `_load_checkpoint`, `find_latest_ckpt_path`, `load_checkpoint` of all ranks; `FreshStart`, `ResumeFrom`, `ResumeFails` are its outcomes |
| `TrainStep`, `EndStep` | a step, the decision to save at its end, and the end of the loop |
| `RemoveOld` | one file at a time of `shutil.rmtree` of the doomed directories, on rank 0 |
| `ArriveAtBarrier`, `OpenShard`, `DumpShard`, `ReturnFromSave` | a rank in `save_checkpoint`, between and at its two barriers |
| `GroupSaved` | the driver's blocking call returns; next role, or `data.pt` |
| `OpenData` ... `WriteSidecar` | the driver's own files, each opened (truncated) and written in two steps |
| `Crash` | the whole job is killed: memory is lost, the disk stays |

Loading is one step: it reads only, and a crash during it is the same as a
crash after it.

### ResumableRun

The abstract specification. `Start` continues after the durable step or fails
when the cell is empty, `Advance` needs `step < durable + MaxLoss`, `Finish`
needs the last step durable, `Persist` writes the step to the cell and `Erase` empties
it, `Die` loses memory. `Checkpoint` maps its tracker to the
cell, and `DapoTrainer` its one checkpoint, which it replaces at once. That the cell
may be empty for an instant is part of the specification, because the code has that
weakness (see below).

### DapoTrainer

A prompt is its position in the stream of draws; a row of a batch is its
prompt, `RolloutN` times. One generation batch is drawn and judged in one of
`KeepGenerating`, `GiveUp`, `Enough`; the filter may keep any subset of the
prompts, because rewards may be anything. `EndOfPass`, `Update`, `Save` and
`EndStep` follow the loop; `Launch` resets `gen_steps` and the epoch and takes
weights and loader position from the checkpoint; `Crash` may come anywhere. A
checkpoint is one durable cell here, which is what `Checkpoint` implements.

### IrtLoader

A row is its position in the stream of draws; `PromptAt` says which prompt is
at each position of a pass. `Ingest`, `StopIteration` and `EndOfPass` are the
filling loop of `__iter__`; `Select` is `_select` in whole, including the trim:
the best rows by score (one per prompt), explored rows, left-over rows. The
tracker's scores are reals that depend on rewards, so each selection may see
any scoring; the shuffle is a choice among what the walk can pick. `Train` is
the trainer's step with a save that may or may not happen; the checkpoint has
the inner loader's position and not the pool.

### AgentLoop

Weights are the number of updates they have seen; a server stands for its
engine and the ranks it drives. `GenerateSequences` starts a batch. `WakeUp`
reaches servers in any order; `UpdateParams` gathers shards from the ranks of
all servers, so it waits until no server is asleep; `Awake`, `Collect`,
`Sleep`, `Asleep` are the manager's waits. `Generate` is `_choose_server` with
the call that follows it, without an await in between, so it is atomic in the
code too; `Answer` is the rest of a turn, when the server has answered;
`ToolsAnswer` the end of the tool calls. `LoopRaises` is an exception in a
coroutine; `Raise` lets it out of `gather` and of the whole call while the
sibling coroutines go on. Of the heap only its root matters: `Least` allows any
server with the least count, as equal counts are ordered by a hash.

### Conversation, ToolAgentLoop, RolloutRequest

A token is who wrote it, so that ids are a sequence of authors and the mask can
be compared with them position by position. `Conversation` is the abstract
specification: environment and model append (`Hear`, `Speak`), the mask gets a
1 for the model's tokens, and `Close` may only drop what lies beyond the limit
or a header nobody spoke after. Both rollouts are refinements of it.

`ToolAgentLoop`: `Generate` is a turn of the model with all the tests that
follow it, `Create`, `Execute` and `Release` are the steps of `_call_tool`
between its awaits, one set per concurrent call; `ToolsAnswer` is what follows
`gather`, `GatherRaises` the exception a release lets out of it, after which
the other calls still go on; `Finish` splits and cuts. A call's instance is
held in the states `open`, `answered` and `failed`.

`RolloutRequest`: one action per state `_async_rollout_a_request` finds
(`Pending`, `Generate` or `ContextFull`, `ToolCalling`, `Interacting`), each
with every way out of it, `Raises`, and for what follows the loop `Finalize` or,
when a tool's reward or release or the last call of the engine raises,
`EndRaises`. `WithHeader`, `Trimmed` and `HeaderMask` are the methods of the request
that append and take back the generation prompt. Attention mask and positions
are extended and cut by the same calls as the ids and are left out.

### RateLimiter, TokenBucket

`RateLimiter`: a pool (the actor of one tool in one process) comes up
(`InitPool`; the first limited one makes the limiter and fixes its size), a
call gets a thread and asks (`Ask`), `Acquire` is the limiter's one acquiring
thread, `Return` the end of a call, which sends a release, `Release` its
execution. Pools without a limit run a search at once (`StartUnlimited`) and
fail in the sandbox tool, whose `execute` does not test for the missing
limiter. `TokenBucket`: `Poll` is one turn of the `while` loop in `call_tool`
with the `acquire` in it; `Tick` is time.

### KtscController

`UpdateActor` is `_ktsc_update_actor` with `update`, or with the metric
missing; `EndStep` the trainer's step with a save or without; `Crash` and
`CrashBeforeSidecar` are what `Checkpoint` allows to be left on disk; `Launch`
loads what is there under any configuration. The multiplier is its logarithm in
whole steps, the ratio of target and statistic a difference with the same sign
and direction; `ema_beta` and `kl_floor_frac` are in quarters, and the two clamps
are numbers of their own. `Targets` is `delta_effective`: with `adv_aware` an
update may aim at anything up to the target, and `delta` is what it aimed at
(`last["delta_eff"]`). The ghost `evidence` is the list of measurements made
under the present `behaviour_key` by the training that survived, each with the
`ema_beta` of its launch; it is saved and lost with the sidecar and read by no
action. The key does not have `ema_beta` and `adv_aware` in it, so a launch that
changes them goes on with the average as it was mixed before; the second
configuration of the run does that, and `SameEvidence` says what the average then
is.

### DataProto, KarmarkarKarp, BatchFlow

`DataProto` has an operator for each operation on rows, on one column. A step of
`KarmarkarKarp` is a push of all items or one merge; sets that the code orders
by their lists of items are ordered in any way, so every tie is explored.

`BatchFlow` is one step of `fit`, or one batch of `_validate`. The value of a
column at a row is the sample it was computed from, so a column that moved
against the others shows. `Answer` is an agent worker; `Balance` and `Reorder`
are `_balance_batch`, whose heap is `KarmarkarKarp`'s; `LaunchReward` and
`RewardDone` the reward task with its copy of the batch; `Prepare` and
`Forward` a rank that cuts its shard into micro-batches and goes through them,
`Poll` a rank waiting in a collective, `CallReturns` the collection of the
outputs; `OptimizerStep` a mini-batch. Balancing is on and the reward is
computed asynchronously: without either there is less to go wrong. Further
columns (reference log probabilities, a reward model, the baseline of REMAX)
are further calls of the same shape, and the update of the critic has the shape
of the actor's. A sequence-parallel group acts as one rank. Micro-batches are
any partition without an empty part; `KarmarkarKarp` says which one is taken.

### ActivationOffload

`pc` is the hook autograd calls next, `current` and `offloaded` the handler's
counters. The host never runs an operation: `Push`, `Commit`, `Uncommit` and
`Pop` append operations to the logs of the three streams, and a `wait_stream`
is an operation too, which waits for what the other stream's log held when it
was put there. `Device` runs the next operation of any stream. A copy takes
what the memory it reads holds at that instant. Memory whose last reference
the host drops is handed out again by the allocator to the stream it was
allocated on, which overwrites it there when that stream gets so far, so the
handler's references are part of the model. A group is
one tensor, and contents are the number of the pass that wrote them or `Junk`.
Pinned memory on the CPU is assumed to stay until the copies that use it are
over, which is what torch's allocator of pinned memory does.

### RewardPool

`work[r]` is what scoring row r takes: some time, or it raises, loops for ever
or kills its process. `Take`, `Complete` and `Break` are the process pool,
`TimeOut` is the `wait_for` of every row, whose deadlines pass together because
`gather` starts them together; `Gathered`, `Terminate` and `Shutdown` are the
`finally` and the end of the `with`. `Tick` passes only when no process that is
there could do something without it: time is slower than a computer.

### Advantages

A step is a turn of the loop of `compute_gae_advantage_return` (`Gae`) or of
`compute_reinforce_plus_plus_outcome_advantage` (`ReinforcePlusPlus`), on a row
in which a token is the model's, a tool's or padding. `Reward` has the score at
the last token of the response, where the reward managers put it, less the
masked penalty. The reference is the textbook sum over the model's tokens alone.

### ModelCache

`cached` and `record` are the directory in the cache and the list of entries
beside it, `shm` the files in `/dev/shm`; they outlive a `Crash`. `Lock` to
`LeaveLock` are `copy_local_path_from_hdfs` under its lock, with one step for
each entry that is fetched or removed; `UseShm`, `OpenCopy` and `FillCopy` are
`copy_to_shm`, which has no lock; `Load` is the reader of the returned path.
`hdfs dfs -get` writes under another name and renames, so a fetched file is
whole; its return code is not looked at, so a failed one goes on to the record.

## Runs

Every bound is a constant of the configuration. Deadlock is checked in all
runs: a system that has come to its end stutters by an explicit action (`Over`)
that is enabled only there, so a hang would be reported.

| Run | Instance | Question |
|---|---|---|
| `ckpt` | a scheduler restarts a job in mode auto: 2 ranks, actor and critic, keep 2 and 3, `save_freq` 2, forced saves, sidecar, 4 steps, 3 launches | is the tracked checkpoint complete at every instant, is its sidecar its own, is loss bounded, is the whole a durable cell, does rotation keep to its number, does every history without a torn file complete |
| `jobs` | DAPO: updates of 2 prompts from batches of 2, 2 rollouts each, at most 3 batches, 2 epochs of 3, `save_freq` 3, 2 launches; or IRT: batches of 2, pool of 6, 4 inner batches a pass of which 3 repeat one prompt, 2 epochs, 2 launches; or an operator launches a job of 3 steps in any of the three modes, 3 times; or 3 processes of a node fetch a model of 2 files, one of them on into shared memory, with two crashes and a failing copy | DAPO: exact batches, agreeing counters, bounded sampling, is the whole a durable cell however a launch ends, is any draw trained on twice, termination; IRT: full batches, each row once, bounded loss by a relaunch; does rotation keep to its number in any mode; does a process load a whole model, and does it come to an end |
| `agent_loop` | 2 servers, 2 workers with 2 requests, 2 turns, 2 batches, a session cache of 2 | on-policy tokens, memory in turns, sticky and balanced sessions, calls end |
| `multi_turn` | a run of the tool agent loop (2 concurrent calls, response of 6), or a request (2 tools, an interaction, 3 turns, header of 2, context of 13), or 6 calls at a limiter of 1 or 2 in 4 pools, or 3 at a bucket of 2 a second | is each a conversation, does the model have the last word, is every instance released, do the limits hold, does all of it end, with a reason that is accepted |
| `step` | 3 prompts with 2 samples of length 1 or 2, 3 agent workers, 2 ranks or 1 of 2 workers, dynamic micro-batches or fixed, mini-batches of 2 prompts, 2 epochs; validation of 1 to 4 rows. Or 2 passes over 4 layers of which 3 are offloaded; or 4 rows scored by 2 processes within 5 units of time; or a response of 4 tokens with every estimator, factor, value and penalty; or the KTSC controller over 6 steps and 2 launches with 3 configurations, of which one narrows the bounds and changes `ema_beta` and `adv_aware`, which the key does not notice, and one changes statistic and target, and 3 values of the KL | do columns stay aligned, is each sample trained on once an epoch, are the ranks balanced, does the backward pass find what the forward pass saved, with two groups in memory, are healthy rows scored, do tools change nothing, does each of them end; does the controller know what it measured, does it move only on that, and with the majority |
| `ckpt_torn_tracker`, `ckpt_keep_one`, `dapo_step_cap`, `irt_duplicates`, `agent_loop_kept_cache`, `shm_shared`, `advantages_reset` | see below | statements of the repository that the code does not keep |

Why the bounds are enough. Two ranks give every order of two processes around
two barriers, and a third adds no new kind of neighbour. Three launches are
needed for a relaunch to save over what an earlier relaunch had left half
written; four steps with `save_freq` 2 and forced saves make rotation remove
twice. Three prompts from batches of two make every update cut or carry; two
epochs make a partial batch cross the boundary. In the IRT instance a pool can
consist of one prompt only, and can be larger than twice a batch, which are the
two branches of the exploration. A response of 6 with answers of up to 3 tokens
is reached in the middle of an answer, exactly at its end, and by the model. In
the request the response is cut inside a header as well as behind one. A
limiter of 1 with two threads in its pool has calls that wait in the semaphore
while others wait behind them, and either pool may have made it. A window of 3
takes a median of even and of odd length. With 3 prompts and mini-batches of 2
the last mini-batch is short on every rank. Three of four layers is what
`enable_activation_offloading` asks for; two passes let the second find memory
of the first. Four rows on two processes make rows wait behind one that loops
while another loops too, and rows that time out before they began. Three
processes of a node are one that copies, one that waits and one that is done.
With four tokens a response has two turns of the model and a tool that speaks
last. Two requests to a worker and two batches make
the session cache hold stale entries of an earlier batch when it must not evict
a current one. The proofs below lift most of the checked properties to all
instances.

Every property has a mutant: a named definition (its comment says "Mutant of")
that changes one mapped definition in the way a plausible bug would, under
which the property fails.

## Fairness

- `Checkpoint`: weak fairness of `Run`, that is of the driver and the ranks as
  long as any of them can move, and of a relaunch of a killed job. The code
  blocks only at barriers and in `ray.get`, which are the guards; a job
  scheduler restarts a killed job, which is what `resume_mode` auto is for.
- `DapoTrainer`: weak fairness of `Fit` and of the relaunch, for the same
  reasons. Nothing is assumed of the filter: it may reject everything.
- `AgentLoop`: weak fairness of `Rollout`, the disjunction of what the event
  loops, servers and tools do. No fairness is assumed of the trainer or of
  exceptions. Tools have timeouts of their own, and a generation is bounded by
  its token limit, so calls in flight return.
- `ToolAgentLoop`, `RolloutRequest`: weak fairness of the loop, and of each
  tool call by itself, since a call goes on whatever became of the others.
- `RateLimiter`, `TokenBucket`: weak fairness of the next-state relation as a
  whole: something happens as long as anything can. Calls that run return
  (requests have timeouts) and time goes on. A poll that changes nothing is a
  stutter, so polling alone does not count as progress.
- `BatchFlow`: weak fairness of the whole again, with respect to the variables
  every step but a poll in a collective changes, so that a rank that polls for
  ever counts as a hang.
- `ActivationOffload`: weak fairness of the host and of the device: autograd
  goes on calling hooks, streams go on executing.
- `RewardPool`: weak fairness of `Evaluate`, the pool, the event loop and time.
  A scorer that loops is not required to end.
- `ModelCache`: weak fairness of `Fetch`, whatever any process can do. A
  `FileLock` of a killed process is free.
- Crashes and launches are bounded (`MaxLaunches`, `MaxCrashes`): a crash is
  possible only when another launch is.

## Deviations found

Each is a run that violates one property, which states what a document, comment
or test of the repository says; the quotes are under `findings`.

- `ckpt_torn_tracker`: the tracker is "for atomic usage" but rewritten in
  place. A crash between truncation and flush makes every later automatic
  resume fail at `int('')`. `ckpt` shows that this and the sidecar written
  the same way are the only instants at which a crash has such an effect.
- `ckpt_keep_one`: with `max_actor_ckpt_to_keep = 1` the only checkpoint is
  removed before the next one is written. With any other value `TrackedComplete`
  holds; that is a theorem.
- `dapo_step_cap`: the cap compares `gen_steps`, which a relaunch resets, so the
  step number passes `total_training_steps` over relaunches. The repository's
  README tells in its next sentence how a run was continued to 400 by relaunching a
  script with 200, which works for this very reason; the same with a script
  that says 400 passes the 400 steps runs are said to be capped at. `LaunchCap` is
  what does hold within a launch; it is a theorem and no run repeats it.
- `irt_duplicates`: a prompt is served twice in a batch although others are
  pooled, because the walk ignores repetition in a small remainder.
- `agent_loop_kept_cache`: with `free_cache_engine` off, the asynchronous mode
  never loads updated weights into the engines.
- `shm_shared`: a process that finds the copy in shared memory unfinished copies
  again over it, while the process that made it already loads it. In `jobs` one
  process of the node uses shared memory, and loads a whole model.
- `advantages_reset`: the return of REINFORCE++ is "reset after EOS" and also at
  every tool's answer, so that the score never reaches the tokens the model
  wrote before its last tool call. `gae` skips those tokens (`ToolsDoNotCount`).

More are visible in the models and not stated as runs, most of them because no
document says otherwise:

- Rotation forgets the directories of earlier launches, so `max_ckpt_to_keep`
  bounds the directories of one launch only (`RotationBound` says exactly
  that). Launching a finished run trains one more step each time.
- `sglang_rollout.py:854` and `:968` take `len` of a tensor of one row, so these
  length tests never hold; the test before the next generation ends the loop
  instead (`BatchRows`, `RolloutEnds`). `finalize_interaction`
  (`verl/interactions/base.py:66`) is never called. A response of the SGLang
  rollout may end with tokens of a tool or a user, one of the tool agent loop
  never does. A tool that answers to its creation would move text from behind
  the prompt into it (`CreateTalks`); no tool of the repository does.
- The search and the sandbox tool share the actor name "rate-limiter": the one
  that comes up first decides the limit of both. A sandbox tool with
  `enable_global_rate_limit` off fails on every call. A token bucket with a
  rate below one never lets a call through.
- `load_state_dict` of the KTSC controller keeps a multiplier outside the
  bounds of a new configuration until the first update that adapts it, and the
  moving average of a launch with another `ema_beta` or without `adv_aware`.
- `seqlen_balancing.py:264` calls `max_token_len` the "max sum of
  attention_mask per micro-batch", but only the number of micro-batches is
  computed from it: three sequences of 3 tokens with a limit of 5 give two
  micro-batches, one with 6. A mini-batch that is short, because the shard is
  no multiple of it, is weighted as if it were full.
- A crash while the record of a cached model is written, and a second one in the
  `rmtree` of the next launch, can leave an empty directory with an empty record,
  which the check accepts. The proof of `LoadsWholeModel` found this history; the
  property names it as its only exception, and the run has two crashes to reach
  it. A copy from HDFS that fails is recorded as it is: `LoadsWholeModel` speaks
  of runs without one.
- The comment at `prime.py:51` says that an exception halts the evaluation. A row
  that raises is scored 0 and the others go on; one that kills its process zeroes
  all rows without an answer.
- A score that falls on a token of a tool, when a response ends with one, reaches
  no token in `gae` either.

## Proofs

All theorems hold for every value of the constants that satisfies the
assumption of the module, which TLC evaluates in every run. Modules that are
extended name theirs (`CheckpointAssumption`, `DapoAssumption`,
`AgentLoopAssumption`, `ToolAgentAssumption`); modules that are only
instantiated have them in the MC module (`JobsAssumption`,
`MultiTurnAssumption`, `StepAssumption`), whose theorems are about the
specification the run checks (`MCSpec`). `KtscAssumption` and
`IrtAssumption` are hypotheses of the theorems that need them. Beyond the shape
of the constants these say that the files of a model and the labels of its
readers are different things, that sets of rows are finite, that a token's
value may be 0, that the batch divides as `_validate_config` and `chunk` ask, and
that the calls of a step write columns of their own. Further hypotheses are in the theorems:

| Hypothesis | Says | Needed because |
|---|---|---|
| `AutoOnly` | every launch is in resume mode auto | in the other modes an operator may go back to an older step, or start again over it |
| `KeepNotOne` | rotation does not keep exactly one checkpoint | `ckpt_keep_one` |
| `FreeCache` | `free_cache_engine` is on | `agent_loop_kept_cache` |
| `OneSharer` | at most one process of a node uses shared memory | `shm_shared` |
| `ToolLen # 0` | the answer of a tool has at least one token | without one the model of a run would stop at it (`RunMustEnd` only) |

`CheckpointProofs`

- `Typing`: `TypeOK`, in all resume modes.
- `TrackedIsComplete`: `TrackedComplete`, for resume mode auto (`AutoOnly`) and
  rotation that does not keep exactly one (`KeepNotOne`). `TrackedComplete`
  alone is not inductive: rotation could remove the tracked step, and a dump
  could overwrite it. `IInv` adds where the tracker stands relative to the
  current step (`TrackerOrder`), that what has been dumped of the current step
  is this launch's (`DumpedSoFar`), and that the remembered paths are
  increasing and, but for the current one, not beyond the tracked step
  (`SavedOrder`). Rotation keeps the newest remembered path when it keeps more
  than one, hence what it removes is older than the tracked step
  (`DoomedIsOlder`).
- `TrackerOnlyForward`: `TrackerMovesForward`, from `TrackerOrder` alone: only
  `OpenTracker` truncates, and then the tracked step is behind. No run repeats it.
- `CrashCostsLittle`: `BoundedLoss`. The invariant is `NoMilestoneSkipped`: no
  multiple of `save_freq` lies strictly between the tracked and the current
  step. `Lemmas` shows that any `save_freq` consecutive numbers hold
  such a multiple.
- `RotationIsBounded`: `RotationBound`, in every resume mode. `BarrierOrder`
  keeps the ranks with rank 0, which rotates; `Owned` says that what a launch
  has on disk is what rank 0 remembers, and the step being saved.
- `SidecarIsFresh`: `SidecarNeverStale`. `SidecarOrder`: sidecars exist only
  for steps the tracker has named, and a torn one only for the one it names.
- `Implementation`: every behaviour is one of `ResumableRun`, for mode auto and
  rotation as above, with sidecars and torn files. `Launch` maps to `Start` (it
  fails only on a torn file, by `TrackedComplete` and `SidecarOrder`),
  `EndStep` to `Advance` or `Finish` (by the milestones), `OpenTracker` to
  `Erase`, the write that completes the checkpoint to `Persist`, `Crash` to
  `Die`, everything else to a stutter.

`JobProofs`

- `LaunchMustEnd`: `FitLeft` counts what is left of the passes over the data, the
  ends of the epochs included, and of the loop; every step of `Fit` leaves less
  (`PassesShrink`), so a filter that throws everything away does not keep a launch alive.
- `LaunchIsCapped`: `gen_steps` grows at least as fast as `global_steps`
  (`GenAhead`).
- `LastStepIsSaved`, `EndCostsLittle`: from `SavedSoFar`, the milestones of
  this loop. `LossBounded` contains `SavedAtTheEnd`.
- `DapoImplementsResumableRun`: the loop maps to `ResumableRun` by its status, its
  step and the step of its checkpoint, with `save_freq` for the steps a crash can
  cost: `Launch` is `Start`, `Save` is `Persist`, a hopeless batch, the end of the
  data and a crash are `Die`, `EndStep` is `Advance` or `Finish` by `SavedSoFar`. The
  checkpoint cell that `DapoTrainer` takes for granted is the one `Checkpoint`
  implements.
- `GenerationIsBudgeted`, `SurplusIsBounded`: from `RoomToGenerate`, and
  `KeptBound`: a filter keeps at most a generation batch.
- `BatchesAreExact`, `CounterMatchesRows`: `ExactBatch`, `CountMatches`. Two rows
  of the batch are of one draw exactly when they are in one block of `n` places
  (`GroupsOf`, in `Whole`), so that its first `train_batch_size * n` rows are whole
  groups too.
- `DrawsTrainOnce`: `TrainedOnce`. What the weights were trained on and what
  is in the batch was drawn before the loader's position, in memory and in the
  checkpoint alike (`Drawn`), and the two are apart (`Whole`).
- `RunsServeFullBatches`, `RunsServeRowsOnce`, `RunsBoundSkips`,
  `RunsLeaveNothing`: the theorems of `IrtProofs`, for the run `jobs`.
- `RotatesInAnyMode`: `RotationIsBounded` of `CheckpointProofs`, for the job of
  that run which an operator launches in any mode.
- `ModelsLoadWhole`: `LoadsWholeModel`, with `OneSharer`. While no copy has
  failed a node is in one of three conditions (`NodeInv`): the cache is being
  built under the lock (`Building`), it is the model (`Complete`), or it is the
  empty directory that takes two crashes (`Hollow`). The third was not in
  the first version of the invariant, and the proof of `Remove` asked for it.

`IrtProofs`: `BatchesAreFull`, `RowsAreOnce`, `SkipsAreBounded`, `NothingIsLeft`.
`IrtInv` says that the rows served, being served and pooled are distinct and were
drawn (`IrtOnce`), that what is served is full batches, and that less than a batch
is left when a job is over (`IrtWhole`). `Select` is followed part by part: best
rows, explored rows, left-overs, the trim; each takes rows by their place, so
that two rows of one prompt stay two rows, and the number taken is counted by
ranks. `IrtMissing` accounts for what was drawn and is nowhere: each relaunch has
forgotten at most the pool of one save (`Postponed`, `Forgotten`).

`AgentLoopProofs`

- `Typing`: with lemmas that the session cache stays within its size when an
  entry is touched (`Touched`) or added (`Added`).
- `TokensOnPolicy`, `MemoryIsExclusive`: `OnPolicy` and `MemoryInTurns`, with
  `FreeCache`. They follow from `AInv`,
  defined in `AgentLoop`: the manager's position determines what the engines
  hold (`EngineOrder`), prefix caches hold nothing older than the current
  weights and nothing when an engine is asleep (`PrefixOrder`), and a request
  is in flight only while the manager generates or has raised (`FlightOrder`).
- `SessionsStick`: `Sticky`. `SessionOrder`: the requests of the current batch
  that have a server are the most recent entries of the worker's session cache,
  which is large enough for one batch, so that what is evicted is older.
- `LoadIsBalanced`: `Balanced`. In one worker two counts differ by one at most,
  because each session goes to a server with the least (`LoadEven`); the sum over
  workers follows by the least worker at which it would not (`SumsClose`).

- `CallMustEnd`: `CallLeft` adds up what the servers and the agent loops still have to
  do, three steps a turn; every step of the call leaves less in one summand and no
  more in any other (`SumsOrdered`). Somebody can always take one, because the
  shards are only awaited while all servers are being woken (`InTurn`), and there is
  always a least loaded server (`SomeLeast`).

`ToolAgentLoopProofs`

- `ModelHasLastWord`, `OutputAligned`, `AlwaysRoom`, `ReturnsEmptyHanded`:
  `EndsWithModel`, and three more that no run needs to check. The invariant
  `LInv` relates ids and mask position by position (`Parallel`) and says where
  the model spoke last (`ModelLast`): from the last position at which the
  response can be cut on, every token is the model's, because answers of tools
  are only appended when they leave room. That is why a cut never ends in a
  tool's answer.
- `RunMustEnd`: `RunLeft` is the room left in the response times the steps a turn
  and its calls can take, and what the calls of this turn have left. It needs that an answer has at
  least one token (`ToolLen # 0`).
- `RequestMustEnd`: `RequestLeft`, two steps a turn. Nothing in the loop looks at the
  length of what tools and users add; the limit of turns and the engine's context end it.
- `RunIsConversation`: every run implements `Conversation`. `Generate` is
  `Speak`, an appended answer `Hear`, `Finish` is `Close`.
- `RequestIsConversation`: `RequestImplementsConversation`, for all lengths and limits.
  The invariant `RequestInv` says where a header can be: in the loop only at the end of
  the prompt, never behind a tool call, and behind anything else only when the
  loop was left because the context is full. So what `add_tool_response_messages`
  trims is nothing, and what the end takes back is a header or lies in the prompt. `Generate`
  is `Speak` after a header of no or of `HeaderLen` tokens, `ContextFull` is
  `Hear`, what tools and users add is `Hear` too, `Finalize` is `Close` (`BehindIs`: what
  two cuts and two slices leave).
- `FinalizeNeverRejects`: `finalize` is given "stop" or "length" on every path.
  `RolloutEnds` has the other half, that it is reached.
- `LimitsHold`: `ToolsWithinLimits`, of the semaphore and of the bucket.
  `LimiterInv`: those who hold a place, the free places and the releases that
  were sent and not executed add up to the limit, and nobody queues twice.
  `BucketInv`: for every start of a window, the tokens taken since and the ones
  left are what was there and what has come in.

`StepProofs`

- `HoldsItsMeasurements`: seen counts the measurements of the evidence and the
  history is the last of their KLs, of the controller and of the sidecar alike, over any launches and
  configurations (`LastOfAppend`: what falls out of the window once is never
  missed).
- `ResumesItsAverage`: `SameEvidence`, which adds the moving average. It is a
  recursive function of the evidence; that there is such a function and that it
  gives the same average to the same measurements follows by the least length
  at which it would not.
- `MovesSafely`, `OutliersDoNotDecide`: `AdaptsSafely` and `MajorityDecides`.
  The second is about the target of the update, whatever `adv_aware` makes of
  it, and counts: more than half of a window, and the half not above its
  median, share an element.
- `ToolsAreSkipped`: `ToolsDoNotCount`. Going backwards, what the loop of `gae`
  carries is the textbook's sum over the model's tokens seen so far (`Carried`).
- `HealthyRowsAreScored`: `HealthyRowsScored`, for rows of which fewer loop than
  there are processes, and none kills its process. Time passes
  only while every process is busy, and they cannot all be busy with loops; so while
  a healthy row waits, the clock and the work left do not exceed the work of all
  healthy rows (`WorkLeft` in `PoolInv`), for which the timeout is long enough.
- `ActivationsStayIntact`: `ActivationsIntact`. The handler's counters and
  groups follow from the layer the host is at, and the window of a group ends one
  layer after its own (`Handled`). `HostInv` is about what the host has put on the
  streams: one operation *needs* another when it comes behind it on its stream or
  behind a wait for it (`Needs`), and any two operations on the same memory of
  which one writes are related so (`RaceFree`). `DeviceInv` follows the device
  through such logs, in every order it may choose: memory holds what was last
  written to it.
- `TwoGroupsAtMost`: `TwoGroupsInMemory`, from the same counters.
- `OffloadNeverSticks`: why the host finds what its hooks look up (`Handled`,
  `Mapped`), and why the streams never wait in a circle: what a wait is for was put on
  the other stream before it and did not wait for it (`Grounded`). That is the
  safety half of `PassesEnd`.
- `ColumnsStayAligned`: `RowsAligned`. `FlowInv` says of every column that its
  values are those of the batch as it stands, that the batch is the samples that were
  asked for in some order (`TrueBatch`), and where in it each rank, each worker
  and the reward task are. Each operation on rows enters by its theorem or lemma
  in `PartitionProofs`; the columns an asynchronous reward or a call brings
  later are in the order of the batch because nothing reorders it after
  `Reorder`, which the driver's position says.
- `SamplesTrainOnce`: `SamplesTrainedOnce`. The mini-batches a rank has been through
  are the first of its shard (`FlowInv`), the shards are the blocks of the batch, and a row
  is in one of them.
- `RanksStayBalanced`: `RanksBalanced`. The heap of `_balance_batch` has an
  invariant of its own, `KKSums`: the sum in every state is that of the lengths of its
  items. With `PartsAreEven` any two parts differ by no more than two
  sequences do (`SharesAreEven`); parts of one size, put one behind another, are
  the blocks of the reordered batch (`PartsAreBlocks`), and stay so (`Evened`).
- `CollectivesMatch`: why no rank is left alone in a collective, the safety half of
  `NobodyHangs` for the ranks (no run repeats it): `RanksMeet` in `BatchFlow`. The ranks agree on the
  number of micro-batches, dynamic or not (`AgreedCount`), and those that have theirs
  have equally many ahead (`Meeting`), since a forward pass lets all through at
  once.

`PartitionProofs`

- Rows: the index map of any partition names each row once
  (`FlattenedNamesOnce`, by the ranks of a total order in `Lemmas`), restoring
  undoes reordering (`RestoreUndoes`, `DynamicBatchRestored`), unpadding undoes
  padding (`UnpadUndoes`), padded batches divide (`PaddedDivides`), chunks hold
  every row (`ChunksHoldAll`).
- Balancing: `EverySequenceOnce`, `PartsOfOneSize`, `PartsAreEven`,
  `NoPartIsEmpty`, for any number of sequences, parts and lengths. The invariant
  `KKInv` says of every state on the heap that its sets are in decreasing order
  (`Ordered`), of one size where sizes are equal (`Level`), no further apart than
  two sequences (`Narrow`), and that empty sets come last (`Filled`). Crossing
  two ordered states, largest with smallest, keeps `Narrow`. Three of the four
  are the assertions the code makes of its own result.
- Both: what a batch looks like that was put in the order of such a partition
  (`PartsAreBlocks`), and what each of its blocks adds up to (`SharesAreEven`). Sums over
  sets, for which the library has no theorems, are in `Lemmas`: what is carried over by
  a bijection adds up to the same (`SumMoved`).

Model-checked only:

- liveness, which TLAPS does not handle: `CompletesUnlessTorn`, `LaunchesEnd`,
  `CallEnds`, `RolloutEnds`, `InstancesReleased`, `NobodyHangs`.
  Of four of them the part that is safety is proved for all constants: `LaunchesEnd`
  (DAPO's launches, by `LaunchMustEnd`), `CallEnds` (`CallMustEnd`),
  `RolloutEnds` (runs and requests, by `RunMustEnd` and `RequestMustEnd`) and
  `NobodyHangs` (ranks and streams, by `CollectivesMatch` and
  `OffloadNeverSticks`): a measure that every step makes smaller, or that nobody waits in a
  circle. What fairness adds, that an enabled step is taken, stays with TLC.

## What is not modelled

Tensor computations, losses, scores and all advantages but those of two
estimators: the models let them come out any way that control can tell apart. Real-valued controllers (the adaptive
KL coefficient, the Beta tracker). Generated configuration, logging, metrics,
profiling, kernels, vendored code and format converters. Partial failure of a
job (one rank dying while the others live) is not modelled because Ray and NCCL
turn it into the failure of the job. The file system is assumed to keep what
was written: there is no fsync in the code, and no model of a disk that loses
acknowledged writes. Megatron's checkpoint manager and the other sharding
managers follow the interfaces modelled here and are left out. Starting the
rollout servers is not modelled: a server that fails to start is restarted
without limit, and no fairness makes that end. The limiter's actor is assumed
to live as long as its callers. Most of the repository's lines are tensor code,
kernels, model definitions and format converters, which have no behaviour in
time that a state machine could capture; `components` names each part.

## Plan

Written: what `PROJECT.json` lists. In this order, what would come next:

1. The other dispatch modes of `decorator.py` on `DataProto`, and Megatron's
   pipeline ranks in `BatchFlow`.
2. The start of rollout servers, with named actors.

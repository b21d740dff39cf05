-------------------------------- MODULE MCJobs ---------------------------------
(***************************************************************************)
(* Jobs on small instances, each with its crashes and its relaunches: the  *)
(* loop of DAPO and the prompt-selecting loader of IRT, which come back    *)
(* from the one durable checkpoint; a job that an operator launches in any *)
(* mode, over whatever an earlier launch has left (Checkpoint); and the    *)
(* processes of a node that fetch the model a launch begins with           *)
(* (ModelCache).  A behaviour is about one of them; the variables of the   *)
(* others keep their initial values.                                       *)
(***************************************************************************)
EXTENDS DapoTrainer

\* The parameters of IrtLoader, Checkpoint and ModelCache; those with a prefix
\* have another name there.
CONSTANTS InnerBsz, BatchSize, PoolFactor, NExplore, PromptAt, Scores,
          IrtLoaderLen, IrtEpochs, IrtLaunches,
          WorldSize, UseCritic, UseSidecar, Keep, Esi, StepBound,
          OpSaveFreq, OpTotalSteps, OpLaunches,
          Users, ShmUsers, Files, MaxCrashes, MaxFails

VARIABLES about,
          iPc, iEpoch, iYielded, iDrawn, iExhausted, iPool, iCurrent, iServed, iCkpt,
          iLaunches,
          oPc, oSteps, oEra, oRpc, oSaved, oShard, oData, oSidecar, oTracker,
          nPc, nLock, nCached, nRecord, nShm, nTodo, nCrashes, nFails

iVars == <<iPc, iEpoch, iYielded, iDrawn, iExhausted, iPool, iCurrent, iServed, iCkpt,
           iLaunches>>
oVars == <<oPc, oSteps, oEra, oRpc, oSaved, oShard, oData, oSidecar, oTracker>>
nVars == <<nPc, nLock, nCached, nRecord, nShm, nTodo, nCrashes, nFails>>

\* Of the eight rows of a pass six hold the same prompt, so that a whole pool
\* can hold a single one.
OftenTheSame == [i \in 0 .. 7 |-> IF i < 6 THEN 0 ELSE i]

KeepTwo == [r \in {"actor", "critic"} |-> 2]

Irt == INSTANCE IrtLoader WITH
  LoaderLen <- IrtLoaderLen, TotalEpochs <- IrtEpochs, MaxLaunches <- IrtLaunches,
  pc <- iPc, epoch <- iEpoch, yielded <- iYielded, drawn <- iDrawn,
  exhausted <- iExhausted, pool <- iPool, current <- iCurrent, served <- iServed,
  ckpt <- iCkpt, launches <- iLaunches

Operator == INSTANCE Checkpoint WITH
  SaveFreq <- OpSaveFreq, TotalSteps <- OpTotalSteps, MaxLaunches <- OpLaunches,
  ResumeModes <- {"auto", "disable", "resume_path"},
  pc <- oPc, globalSteps <- oSteps, era <- oEra, rpc <- oRpc, saved <- oSaved,
  shard <- oShard, data <- oData, sidecar <- oSidecar, tracker <- oTracker

Node == INSTANCE ModelCache WITH
  pc <- nPc, lock <- nLock, cached <- nCached, record <- nRecord, shm <- nShm,
  todo <- nTodo, crashes <- nCrashes, fails <- nFails

ASSUME JobsAssumption ==
  Irt!IrtAssumption /\ Operator!CheckpointAssumption /\ Node!ModelCacheAssumption

MCInit ==
  /\ Init /\ Irt!Init /\ Operator!Init /\ Node!Init
  /\ about \in {"dapo", "irt", "operator", "node"}

Dapo(A)      == about = "dapo" /\ A /\ UNCHANGED <<about, iVars, oVars, nVars>>
Selection(A) == about = "irt" /\ A /\ UNCHANGED <<about, vars, oVars, nVars>>
Operated(A)  == about = "operator" /\ A /\ UNCHANGED <<about, vars, iVars, nVars>>
OnNode(A)    == about = "node" /\ A /\ UNCHANGED <<about, vars, iVars, oVars>>

MCNext ==
  Dapo(Next) \/ Selection(Irt!Next) \/ Operated(Operator!Next) \/ OnNode(Node!Next)

MCVars == <<about, vars, iVars, oVars, nVars>>

MCSpec ==
  /\ MCInit /\ [][MCNext]_MCVars
  /\ WF_MCVars(Dapo(Fit)) /\ WF_MCVars(Dapo(pc = "down" /\ Launch))
  /\ WF_MCVars(OnNode(Node!Fetch))

\* Properties of IrtLoader and ModelCache, by their names there.
FullBatches      == Irt!FullBatches
RowsOnce         == Irt!RowsOnce
SkippedBounded   == Irt!SkippedBounded
EverythingServed == Irt!EverythingServed
LoadsWholeModel  == Node!LoadsWholeModel

\* RotationBound of the operator's job: whatever modes its launches have, no
\* launch keeps more directories of its own than it was asked to.
RotationInAnyMode == Operator!RotationBound

\* Every launch of DAPO comes to an end, and so does every process of a node that
\* fetches the model.
LaunchesEnd ==
  /\ about = "dapo" => EndsEventually
  /\ about = "node" => Node!EveryoneLoads

===============================================================================

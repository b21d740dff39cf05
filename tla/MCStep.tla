-------------------------------- MODULE MCStep ---------------------------------
(***************************************************************************)
(* A step of training on small instances: the rows of its batch            *)
(* (BatchFlow), a GPU while a rank goes forward and backward through its   *)
(* micro-batches (ActivationOffload), the reward task that scores the      *)
(* batch (RewardPool), the driver while it computes advantages             *)
(* (Advantages), and the controller that sets the learning rate after each *)
(* step's update (KtscController).  A behaviour is inside one of them; the *)
(* variables of the others keep the values of one of their initial states. *)
(***************************************************************************)
EXTENDS KtscController

CONSTANTS Prompts, N, AgentWorkers, World, SpSizes, Calls, MaxTokens, MicroSize,
          MiniPrompts, Epochs, MaxLen, ValRows,
          ModelLayers, MicroBatches, ScoredRows, PoolProcesses, ScoringTimes, TaskTimeout,
          GenLen, TokenValues

VARIABLES inside,
          bPc, bKind, bSp, bDynamic, bColumns, bAnswers, bPool, bFuture, bCall, bRowOrder,
          bLeft, bEntered, bEpoch, bMini, bTrained,
          oPc, oPass, oCurrent, oOffloaded, oState, oBuf, oMapping, oLog, oRan, oMemory,
          pPc, pWork, pClock, pQueue, pRunning, pLeft, pResult, pScores,
          aEstimator, aGamma, aLam, aResponse, aValues, aKld, aT, aNext, aLast, aAdvantages

bVars == <<bPc, bKind, bSp, bDynamic, bColumns, bAnswers, bPool, bFuture, bCall,
           bRowOrder, bLeft, bEntered, bEpoch, bMini, bTrained>>
oVars == <<oPc, oPass, oCurrent, oOffloaded, oState, oBuf, oMapping, oLog, oRan, oMemory>>
pVars == <<pPc, pWork, pClock, pQueue, pRunning, pLeft, pResult, pScores>>
aVars == <<aEstimator, aGamma, aLam, aResponse, aValues, aKld, aT, aNext, aLast,
           aAdvantages>>

LogProbsAndValues == <<"old_log_probs", "values">>

\* The second configuration has, under the same key, narrower bounds, a longer
\* warm-up, another ema_beta, and targets that follow the advantages; the third
\* has another statistic and target.
Base == [stat |-> "median", window |-> 3, klKey |-> "actor/ppo_kl", target |-> 2,
         advAware |-> FALSE, beta |-> 3, floor |-> 1, warmup |-> 1, seed |-> 1,
         clampLo |-> 1, clampHi |-> 2, min |-> -2, max |-> 2]

LowOrHighKLs == {-1, 2, 5}

ThreeConfigs ==
  {Base,
   [Base EXCEPT !.min = -1, !.max = 1, !.warmup = 3, !.beta = 1, !.advAware = TRUE],
   [Base EXCEPT !.stat = "ema", !.target = 1, !.seed = 2]}

Flow == INSTANCE BatchFlow WITH
  pc <- bPc, kind <- bKind, sp <- bSp, dynamic <- bDynamic, columns <- bColumns,
  answers <- bAnswers, pool <- bPool, future <- bFuture, call <- bCall,
  rowOrder <- bRowOrder, left <- bLeft, entered <- bEntered, epoch <- bEpoch,
  mini <- bMini, trained <- bTrained

Offload == INSTANCE ActivationOffload WITH
  NumLayers <- ModelLayers, NumOffload <- ModelLayers - 1, Passes <- MicroBatches,
  pc <- oPc, pass <- oPass, current <- oCurrent, offloaded <- oOffloaded,
  state <- oState, buf <- oBuf, mapping <- oMapping, log <- oLog, ran <- oRan,
  memory <- oMemory

Scoring == INSTANCE RewardPool WITH
  NumRows <- ScoredRows, Processes <- PoolProcesses, Times <- ScoringTimes,
  Timeout <- TaskTimeout,
  pc <- pPc, work <- pWork, clock <- pClock, queue <- pQueue, running <- pRunning,
  left <- pLeft, result <- pResult, scores <- pScores

Estimating == INSTANCE Advantages WITH
  Numbers <- TokenValues, estimator <- aEstimator, gamma <- aGamma, lam <- aLam,
  response <- aResponse, values <- aValues, kld <- aKld, t <- aT, next <- aNext,
  last <- aLast, advantages <- aAdvantages

ASSUME StepAssumption ==
  /\ KtscAssumption /\ Flow!BatchFlowAssumption
  /\ Flow!Balancing!KarmarkarKarpAssumption /\ Offload!ActivationOffloadAssumption
  /\ Scoring!RewardPoolAssumption
  /\ Estimating!AdvantagesAssumption /\ 0 \in TokenValues

MCInit ==
  /\ inside \in {"job", "gpu", "reward", "driver", "controller"}
  /\ inside = "job" \/ (bKind = "train" /\ bSp = 1 /\ bDynamic = FALSE)
  /\ inside = "reward" \/ pWork = [r \in 1 .. ScoredRows |-> Scoring!Raises]
  /\ inside = "controller" \/ cfg = Base
  /\ \/ inside = "driver"
     \/ /\ aEstimator = "gae" /\ aGamma = 1 /\ aLam = 1
        /\ aResponse = [i \in 1 .. GenLen |-> "model"]
        /\ aValues = [i \in 1 .. GenLen |-> 0] /\ aKld = [i \in 1 .. GenLen |-> 0]
  /\ Init /\ Flow!Init /\ Offload!Init /\ Scoring!Init /\ Estimating!Init

Job(A)         == inside = "job" /\ A /\ UNCHANGED <<inside, vars, oVars, pVars, aVars>>
Gpu(A)         == inside = "gpu" /\ A /\ UNCHANGED <<inside, vars, bVars, pVars, aVars>>
Reward(A)      == inside = "reward" /\ A /\ UNCHANGED <<inside, vars, bVars, oVars, aVars>>
Driving(A)     == inside = "driver" /\ A /\ UNCHANGED <<inside, vars, bVars, oVars, pVars>>
Controlling(A) == inside = "controller" /\ A
                    /\ UNCHANGED <<inside, bVars, oVars, pVars, aVars>>

MCNext ==
  \/ Job(Flow!Next) \/ Gpu(Offload!Next) \/ Reward(Scoring!Next)
  \/ Driving(Estimating!Next) \/ Controlling(Next)

MCVars   == <<inside, vars, bVars, oVars, pVars, aVars>>
progress == Flow!progress

MCSpec ==
  /\ MCInit /\ [][MCNext]_MCVars
  /\ WF_progress(Job(Flow!Next))
  /\ WF_MCVars(Gpu(Offload!Host))
  /\ \A s \in Offload!Streams : WF_MCVars(Gpu(Offload!Run(s)))
  /\ WF_MCVars(Reward(Scoring!Evaluate))

\* Properties of the parts, by their names there.
RowsAligned        == Flow!RowsAligned
SamplesTrainedOnce == Flow!TrainedOnce
RanksBalanced      == Flow!RanksBalanced
ActivationsIntact  == Offload!ActivationsIntact
TwoGroupsInMemory  == Offload!TwoGroupsInMemory
HealthyRowsScored  == Scoring!HealthyRowsScored
ToolsDoNotCount    == Estimating!ToolsDoNotCount

\* Neither ranks nor streams nor scorers ever keep the rest waiting for ever: the
\* step ends, and so does every pass through the model and every evaluation.
NobodyHangs ==
  /\ inside = "job" => Flow!StepEnds
  /\ inside = "gpu" => Offload!PassesEnd
  /\ inside = "reward" => Scoring!EvaluationEnds

===============================================================================

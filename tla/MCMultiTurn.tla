----------------------------- MODULE MCMultiTurn ------------------------------
(***************************************************************************)
(* The multi-turn rollouts on small instances.  A behaviour is one run of  *)
(* the tool agent loop, one request of the SGLang rollout, or the calls of *)
(* either at one of the two limits on tool calls; the variables of the     *)
(* others keep their initial values.                                       *)
(***************************************************************************)
EXTENDS ToolAgentLoop

CONSTANTS HeaderLen, EngineLen, Turns, UserTurns, Tools,
          PoolTable, Caller, McpCalls, McpRate, Second

VARIABLES rollout, rPc, rState, rIds, rMask, rTurns, rUserTurns, rFinish,
          rInstances, rResponse,
          lWhere, lReady, lLimit, lFree, lAsked, lReleases,
          bWaiting, bTokens, bNow, bLastUpdate, bStarts

rVars == <<rPc, rState, rIds, rMask, rTurns, rUserTurns, rFinish, rInstances,
           rResponse>>
lVars == <<lWhere, lReady, lLimit, lFree, lAsked, lReleases>>
bVars == <<bWaiting, bTokens, bNow, bLastUpdate, bStarts>>

\* Two processes with a search and a sandbox tool each, of which the second
\* process has turned the limit off.
TwoProcesses ==
  [p \in {"search", "sandbox", "freeSearch", "freeSandbox"} |->
     [tool    |-> IF p \in {"search", "freeSearch"} THEN "search" ELSE "sandbox",
      limited |-> p \in {"search", "sandbox"},
      rate    |-> IF p = "search" THEN 1 ELSE 2,
      workers |-> IF p = "search" THEN 2 ELSE 1]]

SixCalls == <<"search", "search", "search", "sandbox", "freeSearch", "freeSandbox">>

Request == INSTANCE RolloutRequest WITH
  MaxModelLen <- EngineLen, MaxAssistantTurns <- Turns, MaxUserTurns <- UserTurns,
  Interactions <- TRUE, CreateTalks <- FALSE, EnvLen <- ToolLen,
  pc <- rPc, state <- rState, ids <- rIds, lossMask <- rMask, turns <- rTurns,
  userTurns <- rUserTurns, finish <- rFinish, instances <- rInstances,
  response <- rResponse

Limiter == INSTANCE RateLimiter WITH
  Pools <- DOMAIN PoolTable, Pool <- PoolTable, PoolOf <- Caller,
  where <- lWhere, ready <- lReady, limit <- lLimit, free <- lFree,
  asked <- lAsked, releases <- lReleases

Bucket == INSTANCE TokenBucket WITH
  Calls <- McpCalls, Rate <- McpRate,
  waiting <- bWaiting, tokens <- bTokens, now <- bNow, lastUpdate <- bLastUpdate,
  starts <- bStarts

ASSUME MultiTurnAssumption ==
  /\ Request!RolloutRequestAssumption
  /\ Limiter!RateLimiterAssumption
  /\ Bucket!TokenBucketAssumption

MCInit ==
  /\ Init /\ Request!Init /\ Limiter!Init /\ Bucket!Init
  /\ rollout \in {"tool_agent", "sglang", "limiter", "bucket"}

Agent(A) == rollout = "tool_agent" /\ A /\ UNCHANGED <<rollout, rVars, lVars, bVars>>
SGLang(A) == rollout = "sglang" /\ A /\ UNCHANGED <<rollout, vars, lVars, bVars>>
Limited(A) == rollout = "limiter" /\ A /\ UNCHANGED <<rollout, vars, rVars, bVars>>
Polling(A) == rollout = "bucket" /\ A /\ UNCHANGED <<rollout, vars, rVars, lVars>>

MCNext ==
  Agent(Next) \/ SGLang(Request!Next) \/ Limited(Limiter!Next) \/ Polling(Bucket!Next)

MCVars == <<rollout, vars, rVars, lVars, bVars>>

MCSpec ==
  /\ MCInit /\ [][MCNext]_MCVars
  /\ WF_MCVars(Agent(Run))
  /\ \A c \in Calls : WF_MCVars(Agent(Call(c)))
  /\ WF_MCVars(SGLang(Request!Run))
  /\ WF_MCVars(Limited(Limiter!Next))
  /\ WF_MCVars(Polling(Bucket!Next))

\* Properties of the parts, by their names there.
RequestImplementsConversation == Request!ImplementsConversation

\* Whichever limit a behaviour is about holds.
ToolsWithinLimits == Limiter!LimitHolds /\ Bucket!RateHolds

\* A run, a request and every tool call that has to wait come to an end.
RolloutEnds ==
  /\ rollout = "tool_agent" => RunEnds
  /\ rollout = "sglang" => Request!RequestEnds
  /\ rollout = "limiter" => Limiter!CallsReturn
  /\ rollout = "bucket" => Bucket!CallsStart

===============================================================================

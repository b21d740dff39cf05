SPECIFICATION MCSpec
CONSTANTS
  PromptLen = 1
  PromptLength = 3
  ResponseLength = 6
  MaxAssistantTurns = 0
  MaxUserTurns = 0
  MaxParallelCalls = 2
  MaxCalls = 3
  ToolLen = 3
  HeaderLen = 2
  EngineLen = 13
  Turns = 3
  UserTurns = 1
  Tools = {t1, t2}
  PoolTable <- TwoProcesses
  Caller <- SixCalls
  McpCalls = {m1, m2, m3}
  McpRate = 2
  Second = 3
INVARIANTS EndsWithModel ToolsWithinLimits
PROPERTIES InstancesReleased RolloutEnds ImplementsConversation RequestImplementsConversation

SPECIFICATION Spec
CONSTANTS
  Servers = {s1, s2}
  Workers = {"w1", "w2"}
  Requests = {1, 2, 3, 4}
  WorkerOf <- InTurn
  FreeCache = FALSE
  CacheSize = 2
  MaxTurns = 2
  MaxRounds = 2
INVARIANT LatestWeights

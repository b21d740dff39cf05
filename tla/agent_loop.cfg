SPECIFICATION FairSpec
CONSTANTS
  Servers = {s1, s2}
  Workers = {"w1", "w2"}
  Requests = {1, 2, 3, 4}
  WorkerOf <- InTurn
  FreeCache = TRUE
  CacheSize = 2
  MaxTurns = 2
  MaxRounds = 2
INVARIANTS OnPolicy MemoryInTurns Sticky Balanced
PROPERTIES CallEnds

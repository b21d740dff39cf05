SPECIFICATION FairSpec
CONSTANTS
  Users = {"p1", "p2"}
  ShmUsers = {"p1", "p2"}
  Files = {"config", "weights"}
  MaxCrashes = 0
  MaxFails = 0
INVARIANT PathHoldsResource

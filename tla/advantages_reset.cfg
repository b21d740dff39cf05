SPECIFICATION Spec
CONSTANTS
  GenLen = 3
  Numbers = {0}
INVARIANT ResetOnlyAfterEos

SPECIFICATION FairPoolSpec
CONSTANTS
  Requests = {r1, r2, r3}
  Sessions = {failed}
  Diagnosed = {failed}
  Verdict <- MCVerdict
  MaxHints = 1
  PoolSize = 2
  MaxFaults = 1
  RagDbErrors = FALSE
INVARIANTS
  PoolInv
  PoolBoundsHints
PROPERTIES
  EveryRequestAnswered
  ImplementsLedger

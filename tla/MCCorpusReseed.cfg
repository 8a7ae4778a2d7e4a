SPECIFICATION FairSpec
CONSTANTS
  v1 = v1
  v2 = v2
  Solver = s1
  Verifies = {v1, v2}
  Hints = {h1}
  Variants <- MCVariants
  Code <- MCCode
CHECK_DEADLOCK FALSE
INVARIANTS
  ReseedFailsForCause
PROPERTIES
  ReseedIsWhole
  EveryoneAnswered

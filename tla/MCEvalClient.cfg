SPECIFICATION EvalSpec
CONSTANTS
  Requests = {r1, r2, r3}
  Sessions = {variant1}
  Diagnosed = {variant1}
  Verdict <- MCVerdict
  MaxHints = 3
  NHints = 3
  MaxFaults = 1
  RagDbErrors = TRUE
CHECK_DEADLOCK FALSE
INVARIANTS
  LevelsNeverUnderstated
  ReportMatchesTable
PROPERTY
  EvaluationEnds

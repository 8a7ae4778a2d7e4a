SPECIFICATION CallersFairSpec
CONSTANTS
  MaxAttempts = 3
  NCases = 2
  NVariants = 2
  NHints = 2
  Sources <- MCSources
CHECK_DEADLOCK FALSE
INVARIANTS
  RowTellsTheTruth
  CallBudget
  RejectedForCause
  MetricsAddUp
  EmittedIsUsable
  ReportIsHonest
PROPERTIES
  ImplementsContract
  CallersEnd

SPECIFICATION FairFeedbackSpec
CONSTANTS
  MaxFaults = 2
  NTests = 3
  Short = {2}
  Topics = {"tree", "dynamic-programming"}
  Constrained = {"tree", "recursion"}
  PastFacts <- MCPastFacts
  MaxShown = 1
  MaxChecked = 2
INVARIANTS
  FeedbackInv
  VerdictIsSound
  TimeoutHasCause
  CleansUp
  AnswersStayHidden
  LeaksWereAskedTwice
PROPERTY
  RunEnds

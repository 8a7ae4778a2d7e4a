SPECIFICATION FairSpec
CONSTANTS
  Requests = {v1, v2}
  Runs = {b1}
  MaxFaults = 1
INVARIANTS
  AnswersMatchTable
  OnlyFailuresEmbedded
  RunSettlesBatch
PROPERTY
  EveryoneFinishes

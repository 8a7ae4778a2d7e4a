SPECIFICATION Spec
CONSTANTS
  failed = failed
  passed = passed
  malformed = malformed
  absent = absent
  Requests = {r1, r2, r3}
  Sessions = {failed, passed, malformed, absent}
  Diagnosed = {failed}
  Verdict <- MCVerdict
  MaxHints = 2
  MaxFaults = 1
  RagDbErrors = TRUE
SYMMETRY Symmetry
INVARIANTS
  Contiguous
  OvershootBound
  PromptNeverAhead
  SuccessIsDurable
  RefusalLeavesNoRow
  RefusalIsJustified

SPECIFICATION Spec
CONSTANTS
  failed = failed
  passed = passed
  malformed = malformed
  absent = absent
  Requests = {r1, r2, r3}
  Sessions = {failed}
  Diagnosed = {failed}
  Verdict <- MCVerdict
  MaxHints = 2
  MaxFaults = 0
  RagDbErrors = TRUE
SYMMETRY Symmetry
INVARIANT
  AtMostOneOverCap

SPECIFICATION Spec
CONSTANTS
  Requests = {v1}
  Runs = {b1}
  MaxFaults = 1
PROPERTY
  HookNeverFailsRequest

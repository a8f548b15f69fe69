SPECIFICATION Spec
CONSTANTS
  Backend = "river"
  Docs = {d1}
  Sections = {s1}
  Payloads <- MCTwoPayloads
  MaxAttempts = 2
  TOCEnabled = TRUE
  MaxDBFaults = 0
  MaxCancels = 1
  MaxCrashes = 0
  MaxTimeouts = 0
CHECK_DEADLOCK FALSE
INVARIANT OneTree

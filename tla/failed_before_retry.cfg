SPECIFICATION Spec
CONSTANTS
  Backend = "qstash"
  Docs = {d1}
  Sections = {s1}
  Payloads <- MCTwoPayloads
  MaxAttempts = 2
  TOCEnabled = TRUE
  MaxDBFaults = 0
  MaxCancels = 0
  MaxCrashes = 0
  MaxTimeouts = 0
CHECK_DEADLOCK FALSE
INVARIANT FailedIsFinal

SPECIFICATION FairSpec
CONSTANTS
  Backend = "asynq"
  Docs = {d1}
  Sections = {s1}
  Payloads <- MCPayloads
  MaxAttempts = 2
  TOCEnabled = TRUE
  MaxDBFaults = 1
  MaxCancels = 1
  MaxCrashes = 1
  MaxTimeouts = 1
CHECK_DEADLOCK FALSE
PROPERTIES JobSettles DocumentSettles

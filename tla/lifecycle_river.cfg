SPECIFICATION Spec
CONSTANTS
  Backend = "river"
  Docs = {d1}
  Sections = {s1, s2}
  Payloads <- MCPayloads
  MaxAttempts = 3
  TOCEnabled = TRUE
  MaxDBFaults = 1
  MaxCancels = 1
  MaxCrashes = 1
  MaxTimeouts = 1
CHECK_DEADLOCK FALSE
INVARIANTS TypeOK RefsResolve ReadyHasTree FailedIsFinal OneDelivery
PROPERTY ReadyIsStable

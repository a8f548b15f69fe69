SPECIFICATION Spec
CONSTANTS
  Requests = {r1, r2, r3}
  Orgs = {o1, o2}
  Keys = {k1}
  NoKey = NoKey
  Servers = {s1, s2}
  MaxFaults = 1
SYMMETRY RequestSymmetry
CHECK_DEADLOCK FALSE
INVARIANTS OneDocumentPerKey SameAnswer TenantIsolation LoserLeavesNoSource AcceptedHasJob

SPECIFICATION FairSpec
CONSTANTS
  top = top
  left = left
  right = right
  Sections = {top, left, right}
  NoParent = NoParent
  Parent <- MCParent
  Depth <- MCDepth
  HyDEEnabled = TRUE
  SummaryAxesEnabled = TRUE
  Concurrency <- MCConcurrency
  GlobalLLM = 2
  MaxRuns = 2
  MaxFailures = 1
CHECK_DEADLOCK FALSE
INVARIANTS SlotsBalance ParentSeesChildren NoSilentGap
PROPERTY StagesEnd

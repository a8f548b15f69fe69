SPECIFICATION FairSpec
CONSTANTS
  Documents <- MCDocuments
  MaxHops = 2
  PageContentLimit = 5
  MaxCitations = 2
  PageArgs <- MCPageArgs
  CitationLists <- MCCitationLists
  Confidences <- MCConfidences
  NaN = NaN
CHECK_DEADLOCK FALSE
INVARIANTS ShownInDocument BestCitationsKept ReadIsRendered HopBudget
PROPERTY WalkEnds

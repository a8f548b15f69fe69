SPECIFICATION ContentSpec
CONSTANTS
  TocDocs <- MCTocDocs
  TocReplies <- MCTocReplies
  TocCheckPages = 2
  TocFirstPass = 1
  TocScores = {0, 1, 2}
  TocThreshold = 0
  TocMaxPerLeaf = 2
  TocGenerations = 2
  TocMaxDepth = 3
  TocFaults = 2
  CitAnswers <- MCCitAnswers
  CitRanges <- MCCitRanges
  CitShortlist = 2
  CitMaxWords = 4
  CitNumeric = {9}
  CitStopwords = {4}
  PrgPayloads <- MCPayloads
  PrgDeliveries = 2
  PrgCrashes = 1
  PrgLosses = 1
INVARIANTS ContentsSound HeadingPathsFit CitingSound ProgressTells

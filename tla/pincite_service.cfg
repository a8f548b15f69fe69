SPECIFICATION FairSpec
CONSTANTS
  Readers = {r1, r2}
  LastPage = 3
  Wanted = {0, 3}
  warmChunk = 2
  RenderSlots = 1
  MaxFailures = 1
CHECK_DEADLOCK FALSE
INVARIANTS SlotsMatchRenders DeletedIsGone WarmIsComplete
PROPERTY ReaderAnswered

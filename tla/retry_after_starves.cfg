SPECIFICATION GtSpec
CONSTANTS
  GtRequests = {r1}
  GtConfigs <- MCTwentyAMinute
  GtMinute = 60
  GtReap = 600
  GtMaxTime = 4
  GtMaxBuckets = 1
INVARIANT RetryIsServed

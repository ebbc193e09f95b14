SPECIFICATION Spec
CONSTANTS
  Tabs = {"t1", "t2"}
  Streams = {"s1", "s2", "s3"}
  MaxRetry = 1
  MaxRuns = 1
INVARIANTS OpenStreamsAreNotified
CHECK_DEADLOCK FALSE

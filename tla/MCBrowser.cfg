SPECIFICATION MCSpec
CONSTANTS
  Tabs = {"a"}
  Most = 2
  Limit = 1
  MaxClicks = 2
  MaxFaults = 1
  Interval = 2
  TrialDays = 1
  GraceDays = 1
  MaxClock = 5
  MaxCharges = 2
  MaxChanges = 2
  MaxAttempts = 2
  MaxRenders = 1
  MaxSends = 1
INVARIANTS OutcomesShow
PROPERTIES MismatchEndsSession CatchesUp CancellationHolds DeadAreReleased SilenceIsNoticed
CHECK_DEADLOCK FALSE

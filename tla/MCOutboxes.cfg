SPECIFICATION MCSpec
CONSTANTS
  Deliveries = {d1, d2}
  Workers = {w1, w2}
  MaxAttempts = 1
  Limit = 2
  MaxFaults = 1
  MaxRedeliveries = 1
  RowDeliveries = {d1}
  RowAttempts = 2
  RowLimit = 1
  ChatEvents = {e1}
  ChatPlatforms = {telegram}
  ChatAttempts = 2
  ChatLimit = 2
  MaxKills = 1
  MaxSaves = 2
INVARIANTS OneSenderPerRow ClaimsAreHeld
PROPERTIES KeepsPromise RetriesKeepPromise RowsAreSettled
CHECK_DEADLOCK FALSE

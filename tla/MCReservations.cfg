SPECIFICATION MCSpec
CONSTANTS
  Clients = {"t1", "t2"}
  Checkouts = {"c1", "c2"}
  Skus = {"a", "B"}
  Carts <- MCCarts
  Listed = {"a"}
  Stock0 = 2
  Levels = {1}
  CodeOrder <- Locale
  DbOrder <- Bytes
  TTL = 1
  MaxClock = 0
  LapseSkus = {"a"}
  LapseCarts <- OneCart
  LapseListed = {"a"}
  LapseStock = 1
  LapseOrder <- OneSku
  LapseClock = 2
INVARIANTS HoldsAreCovered RetryFindsItsHold LapsesAreCovered
PROPERTIES EveryCallEnds
CHECK_DEADLOCK FALSE

SPECIFICATION LevelsSpec
CONSTANTS
  Clients = {"t1", "t2"}
  Checkouts = {"c1", "c2"}
  Skus = {"a"}
  Carts <- OneCart
  Listed = {"a"}
  Stock0 = 2
  Levels = {1}
  CodeOrder <- OneSku
  DbOrder <- OneSku
  TTL = 2
  MaxClock = 2
  LapseSkus = {"a"}
  LapseCarts <- OneCart
  LapseListed = {"a"}
  LapseStock = 1
  LapseOrder <- OneSku
  LapseClock = 2
INVARIANTS HoldsAreCovered
CHECK_DEADLOCK FALSE

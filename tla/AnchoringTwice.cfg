SPECIFICATION Spec
CONSTANTS
  Leaves = 8
  Payment = {1, 2}
  Mine = {1, 2}
  Panel = {"q1", "q2"}
  MaxBatch = 2
  MaxFaults = 1
  MaxPurges = 0
INVARIANTS AnchoredOnce
CHECK_DEADLOCK FALSE

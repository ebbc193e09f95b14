SPECIFICATION MCSpec
CONSTANTS
  Event <- MCEvent
  LedgerOf <- MCLedgerOf
  StartLedger = 1
  EndLedger = 7
  HeadLedger = 8
  Window = 2
  Concurrency = {1, 2, 3}
  PageLimit = 2
  Leaves = 8
  Payment = {1, 2}
  Mine = {1, 2}
  Panel = {"q1", "q2"}
  MaxBatch = 2
  MaxLosses = 1
  MaxPurges = 1
  Batches <- TwoBatches
  Files <- MCFiles
  Deployments <- MCDeployments
  Versions = {"v1", "v9"}
  MaxChecks = 2
  MaxEdits = 2
  MaxErrors = 1
  Tx = {"t1", "t2", "t3"}
  Transfer = {1, 2, 3, 4}
  AuditTx <- TxOfTransfer
  AuditLedger <- LedgerOfTransfer
  BatchSize = 1
  MaxLedger = 4
  AuditWindow = 2
  AuditPage = 1
  Lookback = 2
  FromLedger = {1}
  MaxAltered = 1
INVARIANTS ReceiptsVerify OkMeansAgreed TreesVerify
PROPERTIES ImplementsSweep SweepsEnd ReceiptsAreFinal EventuallyAnchored
CHECK_DEADLOCK FALSE

SPECIFICATION FairSpec
CONSTANTS
  t1 = t1  t2 = t2  cron = cron  manual = manual  NoRun = NoRun
  Tx <- MCTx  Transfer <- MCTransfer  TxOf <- MCTxOf  LedgerOf <- MCLedgerOfLate
  BatchSize = 2
  Cron <- MCCron  Manual <- MCManual
  MaxLedger = 4  Window = 2  PageLimit = 1  ColdStart = 1  Lookback = 4
  MaxLag = 1  PeerLag = 0  Attempts = 2  Configured <- MCConfigured  MaxFaults = 0  MaxReports = 0
PROPERTIES EventuallyBooked

SPECIFICATION FairSpec
CONSTANTS
  t1 = t1  t2 = t2  cron = cron  manual = manual  NoRun = NoRun
  Tx <- MCTx  Transfer <- MCTransfer  TxOf <- MCTxOf  LedgerOf <- MCLedgerOf
  BatchSize = 2
  Cron <- MCCron  Manual <- MCManual
  MaxLedger = 5  Window = 2  PageLimit = 1  ColdStart = 1  Lookback = 1
  MaxLag = 1  PeerLag = 1  Attempts = 2  Configured <- MCConfigured  MaxFaults = 2  MaxReports = 1
INVARIANTS TypeOK CursorCoversBooks AnnouncedPerBooking
PROPERTIES BookedFieldsFrozen PurgeRewindsCursor ImplementsBooks EventuallyBooked

SPECIFICATION FairJSpec
CONSTANTS
  Ledgers <- AllLedgers
  MaxFaults = 2
  MaxFaultsRead = 1
  RECENT_SIGNATURES = 2
  Readers <- AllReaders
  JOURNAL_PAGE = 1
  FEED_PAGE = 1
  Periods <- AllPeriods
  Backlogs = {0, 1}
  MintRead <- Token
  AfterFirstSave = TRUE
INVARIANTS
  MirrorIsAPrefix
  MirrorRowsSettle
  DelegationHistoryChains
  ExportVerifies
  FeedLosesNothing
PROPERTIES
  ImplementsMirror
  CatchesUp
CHECK_DEADLOCK FALSE

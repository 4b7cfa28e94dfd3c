SPECIFICATION FairJSpec
CONSTANTS
  Ledgers <- AllLedgers
  MaxFaults = 0
  RECENT_SIGNATURES = 2
  Readers <- NoReader
  JOURNAL_PAGE = 1
  FEED_PAGE = 1
  Periods <- NoPeriod
  Backlogs = {0}
  MintRead <- Token
  MaxFaultsRead = 0
  AfterFirstSave = TRUE
PROPERTIES
  EventuallyShown
CHECK_DEADLOCK FALSE

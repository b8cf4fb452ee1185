\* Both threads, one reset, one late answer, two heartbeats.
CONSTANTS
  MAX_RETRIES = 2
  MaxSales = 2
  MaxConns = 3
  MaxResets = 1
  MaxTimeouts = 1
  MaxBeats = 2
  BufferSize = 3
SPECIFICATION LinkSpec
INVARIANTS
  LinkTypeOK
  ConfirmedIsStored
  OnceWhenCalm
  SenderSurvives
  RegisteredIsRunning
PROPERTIES
  ImplementsFeed
  StockAdvances
CHECK_DEADLOCK FALSE

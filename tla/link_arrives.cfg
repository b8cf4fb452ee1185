\* No heartbeat, no late answer: every sale arrives.
CONSTANTS
  MAX_RETRIES = 2
  MaxSales = 2
  MaxConns = 3
  MaxResets = 2
  MaxTimeouts = 0
  MaxBeats = 0
  BufferSize = 3
SPECIFICATION FairLinkSpec
PROPERTY EverySaleArrives
CHECK_DEADLOCK FALSE

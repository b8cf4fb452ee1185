\* A sale is confirmed by the answer to a heartbeat, and lost.
CONSTANTS
  MAX_RETRIES = 2
  MaxSales = 1
  MaxConns = 1
  MaxResets = 1
  MaxTimeouts = 0
  MaxBeats = 1
  BufferSize = 3
SPECIFICATION LinkSpec
INVARIANT AckedIsNotLost
CHECK_DEADLOCK FALSE

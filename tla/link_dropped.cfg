\* The heartbeat thread takes the socket away from the sender.
CONSTANTS
  MAX_RETRIES = 2
  MaxSales = 1
  MaxConns = 2
  MaxResets = 1
  MaxTimeouts = 1
  MaxBeats = 1
  BufferSize = 3
SPECIFICATION LinkSpec
INVARIANT SendQueueKept
CHECK_DEADLOCK FALSE

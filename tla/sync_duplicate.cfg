\* A SYNC whose SYNC_ACK is lost is recorded twice.
CONSTANTS
  MaxItems = 1
  MaxConns = 2
  MaxResets = 1
  MaxTimeouts = 0
SPECIFICATION SyncSpec
INVARIANT DuplicateIgnored
CHECK_DEADLOCK FALSE

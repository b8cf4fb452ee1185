\* One direction of the synchronisation, the peer's store and a page request.
CONSTANTS
  MaxItems = 2
  MaxConns = 3
  MaxResets = 1
  MaxTimeouts = 1
  d1 = d1
  d2 = d2
  Drinks = {d1, d2}
  Price <- MCPrice
  Dates <- MCDates
  Feeds <- MCFeeds
  Year = 2026
  Month = 1
  Months = 2
  Days <- MCDays
SPECIFICATION FairPeerSpec
INVARIANTS
  SyncTypeOK
  PeerTypeOK
  NothingForgotten
  StoreMatchesHistory
  BreakdownBetween
  BreakdownFailsOnlyOnFirstSale
  ChartsBetween
PROPERTIES
  ImplementsFeed
  SnapshotAdvances
  EveryItemArrives
CHECK_DEADLOCK FALSE

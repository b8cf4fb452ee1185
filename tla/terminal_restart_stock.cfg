\* A new process does not take its stock from the logs.
CONSTANTS
  MAX_BILL_TOTAL = 1000
  MAX_TOTAL = 1000
  INITIAL = 1
  MIN_RESERVE = 0
  d1 = d1
  d2 = d2
  Drinks <- MCDrinks
  DefaultPrice <- MCDefaultPrice
  Prices <- MCPrices
  Units <- MCUnits
  DEFAULT_STOCK = 2
  MAX_STOCK = 2
  NoSlot = NoSlot
  MaxSales = 2
  MaxDay = 1
  MaxRestarts = 1
SPECIFICATION TerminalSpec
INVARIANT StockFollowsLogs
CHECK_DEADLOCK FALSE

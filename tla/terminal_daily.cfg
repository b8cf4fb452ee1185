\* daily_sales runs on after midnight.
CONSTANTS
  MAX_BILL_TOTAL = 1000
  MAX_TOTAL = 1000
  INITIAL = 1
  MIN_RESERVE = 0
  d1 = d1
  d2 = d2
  Drinks <- MCDrinks
  DefaultPrice <- MCDefaultPrice
  Prices <- MCPrices
  Units <- MCUnits
  DEFAULT_STOCK = 2
  MAX_STOCK = 2
  NoSlot = NoSlot
  MaxSales = 2
  MaxDay = 2
  MaxRestarts = 0
SPECIFICATION TerminalSpec
INVARIANT DailySalesIsOfTheDay
CHECK_DEADLOCK FALSE

\* The machine process: windows, files, sender thread, restarts.
CONSTANTS
  MAX_BILL_TOTAL = 1000
  MAX_TOTAL = 500
  INITIAL = 1
  MIN_RESERVE = 0
  d1 = d1
  d2 = d2
  Drinks <- MCDrinks
  DefaultPrice <- MCDefaultPrice
  Prices <- MCPrices
  Units <- MCUnits
  DEFAULT_STOCK = 1
  MAX_STOCK = 2
  NoSlot = NoSlot
  MaxSales = 2
  MaxDay = 2
  MaxRestarts = 1
SPECIFICATION TerminalSpec
INVARIANTS
  TerminalTypeOK
  InOrderCustody
  StockCap
  ButtonsFresh
PROPERTY PricesSurviveRestart
CHECK_DEADLOCK FALSE

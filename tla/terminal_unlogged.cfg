\* append_sale does not always get the row of the sale.
CONSTANTS
  MAX_BILL_TOTAL = 1000
  MAX_TOTAL = 1000
  INITIAL = 1
  MIN_RESERVE = 0
  d1 = d1
  d2 = d2
  Drinks <- MCDrinks
  DefaultPrice <- MCDefaultPrice
  Prices <- MCPrices
  Units <- MCUnits
  DEFAULT_STOCK = 2
  MAX_STOCK = 2
  NoSlot = NoSlot
  MaxSales = 3
  MaxDay = 1
  MaxRestarts = 0
SPECIFICATION TerminalSpec
INVARIANT SaleLogged
CHECK_DEADLOCK FALSE

\* Money, stock and change of one machine.
CONSTANTS
  MAX_BILL_TOTAL = 1000
  MAX_TOTAL = 2000
  INITIAL = 2
  MIN_RESERVE = 1
  d1 = d1
  d2 = d2
  Drinks <- MCDrinks
  DefaultPrice <- MCDefaultPrice
  Prices <- MCPrices
  Units <- MCUnits
  DEFAULT_STOCK = 1
  MAX_STOCK = 2
  NoSlot = NoSlot
  MaxSales = 3
  MaxDay = 2
SPECIFICATION Spec
INVARIANTS
  TypeOK
  SlotSound
  RefusalJustified
  SoldOutLogged
 

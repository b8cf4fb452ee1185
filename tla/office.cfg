\* Two administrators' processes and two sales processes over the shared files.
CONSTANTS
  a1 = a1
  a2 = a2
  d1 = d1
  d2 = d2
  n1 = n1
  n2 = n2
  vm2 = vm2
  Admins = {a1, a2}
  Machine = vm1
  Elsewhere = {vm2}
  Drinks = {d1, d2}
  Names = {n1, n2}
  DefaultMenu <- MCDefaultMenu
  Prices = {500, 700}
  DefaultStock = 1
  MaxStock = 2
  Dates <- MCDates
  Budgets <- MCBudgets
SYMMETRY OfficeSymmetry
SPECIFICATION Spec
INVARIANTS
  OfficeTypeOK
  LoggedStockCap
  ChosenMenuSaved
  FilesReadable
  CollectedOnce
  CollectedIsLogged
  DrinksAgree
PROPERTY
  RowsKept
CHECK_DEADLOCK FALSE

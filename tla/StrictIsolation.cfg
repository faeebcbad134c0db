SPECIFICATION Spec
CONSTANTS
  Threads = {t1, t2}
  NoThread = NoThread
  Users = {1, 2}
  Products = {1}
  OriginalPrice <- MCOriginalPrice
  Discount <- MCDiscount
  CashInit = 1
  CreditInit = 2
  ProductStockMax = 2
  BatchSize = 1
  BillAmounts = {2}
  RechargeAmounts = {2}
  KeysMayExpire = TRUE
  ClockMayGoBack = TRUE
  Workload <- MCStrictLoad
  MaxRequests = 3
  MaxTries = 1
SYMMETRY MCThreads
INVARIANTS
  AccountsBalance
  StockWithinMax
PROPERTY PlanIsLeases

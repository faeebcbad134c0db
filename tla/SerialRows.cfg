SPECIFICATION Spec
CONSTANTS
  Threads = {t1, t2}
  NoThread = NoThread
  Users = {1, 2}
  Products = {1, 2}
  OriginalPrice <- MCOriginalPrice
  Discount <- MCDiscount
  CashInit = 0
  CreditInit = 2
  ProductStockMax = 2
  BatchSize = 2
  BillAmounts = {0, 2}
  RechargeAmounts = {0, 2}
  KeysMayExpire = FALSE
  ClockMayGoBack = TRUE
  Workload <- MCSerialLoad
  MaxRequests = 2
  MaxTries = 1
PROPERTY ActsSerially

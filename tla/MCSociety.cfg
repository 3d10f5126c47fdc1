SPECIFICATION Spec
CONSTANTS
  ada = ada
  bob = bob
  wheat = wheat
  Agents = {ada, bob}
  Items = {wheat}
  HaulsOf <- Hauls
  InitBalance <- Balances
  InitInventory <- Stock
  InitScore <- Scores
  TICKS_PER_DAY = 3
  MaxTick = 4
  LastRequest = 1
  MaxRestarts = 1
  MAX_BUSINESSES_PER_AGENT = 1
  MAX_EMPLOYEES_PER_BUSINESS = 2
  MAX_PRODUCTS_PER_BUSINESS = 1
  MAX_SALARY = 5000
  PAYMENT_INTERVAL = 2
  MAX_TRADE_ITEMS = 2
  MAX_TRADE_QUANTITY = 1
  AskedCases = {"fraud"}
  AskedBusinesses = {"service"}
  AskedSalaries = {5000}
  AskedAmounts = {0, 5000}
  AskedTrades <- Trades
  AskedAccounts = {"savings"}
  AskedSums = {6000}
  AskedBuildings = {"building"}
  MAX_INVESTMENT = 20000
  MaxRows = 3
INVARIANTS
  TypeOK
  JobsAddUp
  DebtIsFines
  VerdictsAreInTime
  ClosedLoansStayPaid
PROPERTIES
  WealthIsAccounted
  BankingKeepsWorth
  BarterIsFair
CHECK_DEADLOCK FALSE

SPECIFICATION Spec
CONSTANTS
  ada = ada
  bob = bob
  wheat = wheat
  Agents = {ada, bob}
  Items = {wheat}
  HaulsOf <- Hauls
  InitBalance <- Balances
  InitInventory <- Stock
  InitScore <- Scores
  TICKS_PER_DAY = 3
  MaxTick = 4
  LastRequest = 3
  MaxRestarts = 0
  MAX_BUSINESSES_PER_AGENT = 1
  MAX_EMPLOYEES_PER_BUSINESS = 2
  MAX_PRODUCTS_PER_BUSINESS = 1
  MAX_SALARY = 5000
  PAYMENT_INTERVAL = 2
  MAX_TRADE_ITEMS = 2
  MAX_TRADE_QUANTITY = 1
  AskedCases = {"fraud"}
  AskedBusinesses = {}
  AskedSalaries = {}
  AskedAmounts = {}
  AskedTrades = {}
  AskedAccounts = {}
  AskedSums = {}
  AskedBuildings = {"land"}
  MAX_INVESTMENT = 20000
  MaxRows = 2
INVARIANT NoDebts
CHECK_DEADLOCK FALSE

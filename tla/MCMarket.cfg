SPECIFICATION Spec
CONSTANTS
  Agents = {ada, bob}
  Items = {wheat}
  Orders = {o1, o2, o3}
  NoTerms = NoTerms
  NoExpiry = NoExpiry
  AskedPrices <- Asked
  AskedQuantities <- Asked
  Expiries = {NoExpiry, 1}
  MAX_ORDER_PRICE = 2
  MAX_ORDER_QUANTITY = 2
  InitBalance = 3
  InitStock = 2
  MaxTick = 1
SYMMETRY Symmetry
INVARIANTS
  TypeOK
  Conservation
  TradeLogExplainsState
PROPERTIES
  PriceTimePriority
  NoMissedTrade
  LedgerSpec

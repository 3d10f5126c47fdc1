SPECIFICATION Spec
CONSTANTS
  N = 2
  Clients = {p, q}
  Ticks = {tick1}
  Free = Free
  Unread = Unread
  InitAmount = 1
  MAX_AGENTS = 1
  Sellers = {2}
  Judged <- Cases
  Employed <- Jobs
INVARIANT NoLostUpdate
CHECK_DEADLOCK FALSE

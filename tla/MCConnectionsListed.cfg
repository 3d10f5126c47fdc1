SPECIFICATION Spec
CONSTANTS
  Agents = {ada}
  Sockets = {s1, s2}
  NoAgent = NoAgent
  NoSocket = NoSocket
  NoSend = NoSend
  MaxFaults = 0
INVARIANTS
  ServedAgentsAreListed
CHECK_DEADLOCK FALSE

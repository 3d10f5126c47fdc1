SPECIFICATION FairSpec
CONSTANTS
  Agents = {ada, bob}
  Sockets = {s1, s2}
  NoAgent = NoAgent
  NoSocket = NoSocket
  NoSend = NoSend
  MaxFaults = 2
INVARIANTS
  TypeOK
  EntriesAreServing
  SoleConnectionIsListed
PROPERTIES
  LostEntriesGo
CHECK_DEADLOCK FALSE

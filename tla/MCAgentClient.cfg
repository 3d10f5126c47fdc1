SPECIFICATION FairSpec
CONSTANTS
  MAX_ATTEMPTS = 2
  MAX_RETRIES = 2
  MAX_CRASH_RESTARTS = 3
  BUFFER = 2
  QueueBound = 2
INVARIANTS
  TypeOK
  ConnectionIsWatched
PROPERTIES
  LossIsNoticed
  ShutdownEnds
  GivesUp

SPECIFICATION Spec
CONSTANTS
  MAX_ATTEMPTS = 2
  MAX_RETRIES = 1
  MAX_CRASH_RESTARTS = 2
  BUFFER = 1
  QueueBound = 1
PROPERTIES
  ConnectHeedsShutdown

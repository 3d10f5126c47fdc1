SPECIFICATION MemorySpec
CONSTANTS
  MAX_SIZE = 3
  PERSIST_INTERVAL = 2
  failed = failed
  weather = weather
  Texts = {failed, weather}
  Importance <- MCImportance
  MaxTick = 3
  MaxLives = 2
INVARIANTS
  MemoryTypeOK
  NothingForgotten
  DuplicatesAreLoaded
CHECK_DEADLOCK FALSE

\* Flushes fail in part, Close races with redirects, midnight comes, the process ends.
CONSTANTS
  a = a
  b = b
  Codes = {a, b}
  BufferSize = 1
  MaxHits = 3
  BackendFails = TRUE
  ExitAllowed = TRUE
  Retention = 1
  BackendDays = 1
SPECIFICATION DaysFairSpec
\* When the tables have expired and the process has ended nothing is left to do.
CHECK_DEADLOCK FALSE
INVARIANTS DaysOK Conservation CleanShutdown WindowComplete
PROPERTIES EveryHitSettles CloseReturns

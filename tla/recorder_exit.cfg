\* The server program ends without Close.
CONSTANTS
  a = a
  b = b
  Codes = {a, b}
  BufferSize = 1
  MaxHits = 3
  BackendFails = FALSE
  ExitAllowed = TRUE
  Retention = 1
  BackendDays = 1
SPECIFICATION DaysSpec
\* When the process has ended nothing is left to do.
CHECK_DEADLOCK FALSE
INVARIANTS FlushedBeforeExit

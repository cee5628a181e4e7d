SPECIFICATION Spec
CONSTANTS
  Plain = {"127.0.0.1", "5025", "15025", "-94975", "ann"}
  Number <- Typed
  LongRange = 100000
  IntRange = 10000
  MIN_PORT_ALLOWED = 5000
  MAX_PORT_ALLOWED = 5050
  Addresses <- Convertible
  MaxWords <- UpTo
INVARIANTS
  InArgv
  StartsAsMeant
  GivesUpForAReason
CHECK_DEADLOCK FALSE

SPECIFICATION FairSpec
CONSTANTS
  Users = {"Ann", "Bob"}
  MaxTexts = 2
  MaxUsers = 2
  MaxRuns = 3
  Files <- AnyFile
  Faults = {"settings", "unreadable", "unwritable", "full", "bind", "accept", "crash", "torn"}
INVARIANTS
  ProcessTypeOK
  OrderKept
  StopSaves
  DurableKept
PROPERTIES
  StopsWhenWaiting
CHECK_DEADLOCK FALSE

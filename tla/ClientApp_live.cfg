SPECIFICATION FairSpec
CONSTANTS
  MaxTexts = 1
  MaxKeys = 1
  Platforms = {"linux", "windows"}
  MaxSpurious = 1
INVARIANTS
  ClientTypeOK
  LockedIsHolder
  Handshake
  QuitsForAReason
PROPERTIES
  StopsInTheEnd
  KeysAreRead
  SocketIsRead
CHECK_DEADLOCK FALSE

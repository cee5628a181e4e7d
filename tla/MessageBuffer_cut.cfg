SPECIFICATION FairSpec
CONSTANTS
  Radix = 6
  Size = 17
  Wrap = 128
  AddrBytes = 1
  PortBytes = 1
  TimeBytes = 2
  ToServer <- MCToServer
  ToClient <- MCToClient
  Saved <- MCSaved
  MaxSent = 3
  CutStatus = FALSE
INVARIANTS
  BufferTypeOK
  GotIsPrefix
  BytesConserved
  NeverJammed
  LoadsWhole
PROPERTIES
  AllArrive
CHECK_DEADLOCK FALSE

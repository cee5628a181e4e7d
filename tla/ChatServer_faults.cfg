SPECIFICATION Spec
CONSTANTS
  c1 = c1
  c2 = c2
  c3 = c3
  Ann = Ann
  Bob = Bob
  p = p
  q = q
  NoName = NoName
  NoCred = NoCred
  Clients = {c1, c2}
  Names = {Ann}
  Passwords = {p}
  LoadedUsers <- AnnKnown
  LoadedBacklog <- OneText
  MaxSend = 2
  Faults = {"stall", "close", "reset", "other", "fragment"}
  OnBroken = {"sigpipe", "error"}
SYMMETRY Symmetry
INVARIANTS TypeOK LiveExact ReplayIsPrefix RefusedForAReason
CHECK_DEADLOCK FALSE

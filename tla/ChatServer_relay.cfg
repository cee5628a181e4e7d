SPECIFICATION Spec
CONSTANTS
  c1 = c1
  c2 = c2
  c3 = c3
  Ann = Ann
  Bob = Bob
  p = p
  q = q
  NoName = NoName
  NoCred = NoCred
  Clients = {c1, c2}
  Names = {Ann}
  Passwords = {p}
  LoadedUsers <- AnnKnown
  LoadedBacklog <- OneText
  MaxSend = 3
  Faults = {}
  OnBroken = {"sigpipe"}
SYMMETRY Symmetry
INVARIANTS MutexHeld LiveExact StatusFirst SpeakersAreAuthenticated AuthorOrder
PROPERTIES ImplementsRoom
CHECK_DEADLOCK FALSE

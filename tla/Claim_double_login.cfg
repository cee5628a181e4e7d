SPECIFICATION Spec
CONSTANTS
  c1 = c1
  c2 = c2
  c3 = c3
  Ann = Ann
  Bob = Bob
  p = p
  q = q
  NoName = NoName
  NoCred = NoCred
  Clients = {c1, c2}
  Names = {Ann}
  Passwords = {p}
  LoadedUsers <- AnnKnown
  LoadedBacklog <- NoTexts
  MaxSend = 1
  Faults = {}
  OnBroken = {"sigpipe"}
SYMMETRY Symmetry
INVARIANTS NoDoubleLogin
CHECK_DEADLOCK FALSE

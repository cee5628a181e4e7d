SPECIFICATION Spec
CONSTANTS
  Characters = {"q", "t", "esc"}
  Wide = {"esc"}
  Width = 4
  MaxLine = 3
  Quit <- QuitLine
  MaxKeys = 6
INVARIANTS
  LinesFit
  SentAsEdited
  EchoMatches
CHECK_DEADLOCK FALSE

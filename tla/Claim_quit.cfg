SPECIFICATION FairSpec
CONSTANTS
  MaxTexts = 0
  MaxKeys = 2
  Platforms = {"linux", "windows"}
  MaxSpurious = 0
PROPERTIES
  QuitSuffices
CHECK_DEADLOCK FALSE

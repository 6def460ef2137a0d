SPECIFICATION Spec
CONSTANTS
  a = a
  b = b
  c1 = c1
  c2 = c2
  Blank = Blank
  Kana = Kana
  KeyMark = KeyMark
  BadMark = BadMark
  NoContext = NoContext
  CandidateLists <- Pair
  Faults = {}
  Contexts = {c1}
  Sharing = FALSE
  ConvertEmits = FALSE
  PageSize = 2
  MaxBuffer = 1
  MaxMade = 1
  MaxSel = 1
  MaxDoc = 2
CHECK_DEADLOCK FALSE
PROPERTY DirectModeIsClean

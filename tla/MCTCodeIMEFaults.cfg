SPECIFICATION Spec
CONSTANTS
  a = a
  b = b
  c1 = c1
  c2 = c2
  Blank = Blank
  Kana = Kana
  KeyMark = KeyMark
  BadMark = BadMark
  NoContext = NoContext
  CandidateLists <- Mixed
  Faults = {"refused", "lostReply", "editDenied", "noRange", "appRejects"}
  Contexts = {c1}
  Sharing = TRUE
  ConvertEmits = TRUE
  PageSize = 2
  MaxBuffer = 1
  MaxMade = 1
  MaxSel = 2
  MaxDoc = 1
CHECK_DEADLOCK FALSE
INVARIANTS TypeOK CandidateWindowCurrent ElementHasThreadMgr CacheCoherent HighlightedIsSelected

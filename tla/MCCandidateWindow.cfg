SPECIFICATION Spec
CONSTANTS
  a = a b = b c = c
  Blank = Blank
  Kana = {}
  KeyMark = KeyMark
  BadMark = BadMark
  CandidateLists <- MCCandidateLists
  ConvertEmits = FALSE
  Faults = {}
  MaxBuffer = 0
  MaxMade = 0
  PageSize = 2
  Places = {p, q}
  Corner = Corner
  MaxIndex = 2
PROPERTY FollowsCalls
INVARIANTS TypeOK VisibleIsShown PaintedIsCurrent FollowsCaret ListenerMirrors SameRows

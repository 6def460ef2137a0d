SPECIFICATION FairSpec
CONSTANTS
  p1 = p1
  p2 = p2
  Proxies = {p1, p2}
  Faults = {"noJob", "noLimit", "noScript", "noAssign", "noWindow", "noSnapshot", "noKill", "taskkill", "javaDies"}
INVARIANTS TypeOK ExitStopsEngine JobStopsEngine
PROPERTIES LeftForGood ExitEndsOwnEngine
CHECK_DEADLOCK FALSE

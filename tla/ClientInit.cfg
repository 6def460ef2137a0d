SPECIFICATION Spec
CONSTANTS
  Threads = {t1, t2, t3}
  NoClient = NoClient
INVARIANTS TypeOK GlobalIsLive AlwaysAClient HarmTakesARace
PROPERTY OnePerThread

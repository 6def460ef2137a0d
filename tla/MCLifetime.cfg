SPECIFICATION Spec
CONSTANTS
  i1 = i1
  i2 = i2
  c1 = c1
  c2 = c2
  m1 = m1
  m2 = m2
  Instances = {i1}
  Contexts = {c1, c2}
  NoContext = NoContext
  b1 = b1
  b2 = b2
  Buttons = {b1, b2}
  Addresses = {m1, m2}
  NoAddress = NoAddress
  MaxSinks = 2
  MaxLocks = 1
SYMMETRY Symmetry
INVARIANTS TypeOK ButtonHasOwner UnloadSafe ReleasedIsDestroyed

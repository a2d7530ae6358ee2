SPECIFICATION Spec
CONSTANTS
  daemon = daemon  web = web  d1 = d1  d2 = d2  w1 = w1
  k1 = k1  k2 = k2  old = old  new = new
  NoValue = NoValue
  Nil = Nil
  Process = {daemon, web}
  Thread <- ThreeThreads
  Home <- HomeOfThree
  Setter = {w1}
  Key = {k1, k2}
  Value = {old, new}
  Stored <- FirstOnly
  MaxSaves = 2
SYMMETRY Symmetric
INVARIANTS CommittedOnly AloneNeverRaises
CHECK_DEADLOCK FALSE

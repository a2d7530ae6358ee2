SPECIFICATION AuthorizationSpec
CONSTANTS
  r1 = r1  r2 = r2  u1 = u1  u2 = u2  g1 = g1  g2 = g2
  w1 = w1  w2 = w2  a1 = a1  a2 = a2  checks = checks  default = default  other = other
  Request = {r1, r2}
  User = {u1}
  Group = {g1, g2}
  Row = {w1}
  Attribute = {a1, a2}
  Table = {checks}
  Default = default
  Name = {default, other}
  Seed = g1
  Null = Null
SYMMETRY Symmetric
INVARIANTS ListedAsDue NothingLeft
PROPERTY KeyOnce
CHECK_DEADLOCK FALSE

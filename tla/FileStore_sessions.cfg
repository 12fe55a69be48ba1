SPECIFICATION Spec
CONSTANTS
  MaxFiles = 2
  MaxMsgs = 2
  a = a
  b = b
  d = d
  x = x
  y = y
  s1 = s1
  s2 = s2
  s3 = s3
  c1 = c1
  c2 = c2
  Names = {a}
  Contents = {x}
  Sessions = {s1, s2}
  TargetOf <- SameName
  Clients = {c1}
  Hashing <- Both
  Encryption <- No
  Features <- SessionFeatures
  Empty = Empty
  None = None
SYMMETRY SymmetryOfSessions
INVARIANTS LossInv
CHECK_DEADLOCK FALSE

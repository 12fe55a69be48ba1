SPECIFICATION Spec
CONSTANTS
  MaxFiles = 3
  MaxMsgs = 3
  a = a
  b = b
  d = d
  x = x
  y = y
  s1 = s1
  s2 = s2
  s3 = s3
  c1 = c1
  c2 = c2
  Names = {a, b, d}
  Contents = {x}
  Sessions = {s1}
  TargetOf <- OneSession
  Clients = {c1}
  Hashing <- Yes
  Encryption <- No
  Features <- JobFeatures
  Empty = Empty
  None = None
SYMMETRY SymmetryOfFree
INVARIANTS LossInv DedupCollapses
CHECK_DEADLOCK FALSE

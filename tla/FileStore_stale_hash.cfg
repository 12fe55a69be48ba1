SPECIFICATION Spec
CONSTANTS
  MaxFiles = 2
  MaxMsgs = 3
  a = a
  b = b
  d = d
  x = x
  y = y
  s1 = s1
  s2 = s2
  s3 = s3
  c1 = c1
  c2 = c2
  Names = {a, b}
  Contents = {x, y}
  Sessions = {s1, s2}
  TargetOf <- TwoNames
  Clients = {c1}
  Hashing <- Yes
  Encryption <- No
  Features = {"create", "updateDirect", "reuse"}
  Empty = Empty
  None = None
SYMMETRY Symmetry
INVARIANTS NeverWrongContent
CHECK_DEADLOCK FALSE

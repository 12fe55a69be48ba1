SPECIFICATION MCSpec
CONSTANTS
  name1 = name1
  name2 = name2
  c1 = c1
  c2 = c2
  i1 = i1
  i2 = i2
  i3 = i3
  i4 = i4
  MaxNodes = 5
  StartNodes = 4
  NodeNames = {name1, name2}
  RootName = root
  Actors = {c1, c2}
  TreeOps <- AllOps
  MaxPath = 2
  MaxIds = 1
  MaxCalls = 2
  NoName = NoName
  Items = {i1, i2, i3, i4}
  MaxKey = 3
  Limits = {1, 2}
  MaxEdits = 1
  Null = Null
  Gone = Gone
  CheckRows = 2
  CheckMsgs = 3
  CheckParts = 2
  CheckBatch = 1
  CheckEvents = 2
SYMMETRY Symmetry
INVARIANTS StorageTypeOK ZipMissesNothing ListingFaithful QuietRunRepairs
PROPERTIES StrandsHaveCause MoveKeepsContents HarmHasCause
CHECK_DEADLOCK FALSE

SPECIFICATION MCSpec
CONSTANTS
  key1 = key1
  key2 = key2
  c1 = c1
  c2 = c2
  v1 = v1
  ShareIds = {1, 2}
  Codes = {key1, key2}
  NoCode = NoCode
  Owners = {c1, c2}
  Visitors = {v1}
  ShareKinds = {"file", "folder"}
  NewShares <- NewShareFlags
  MaxShareOps = 2
  Hashes = {key1, key2}
  NoHash = NoHash
  Calls = {c1, c2}
  JobUsers = {key1, key2}
  MaxJobIds = 4
  MaxJobs = 2
  MaxClock = 1
  BotOps = {"stream", "upload"}
  MaxBots = 3
  MaxPicks = 4
SYMMETRY Symmetry
INVARIANTS ServerTypeOK StaleShareHasCause StaleSessionHasCause JobsLedger TurnsAreFair
CHECK_DEADLOCK FALSE

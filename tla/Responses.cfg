SPECIFICATION MCSpec
CONSTANTS
  c1 = c1
  c2 = c2
  PartSizes <- ThreeParts
  Encryption = {TRUE, FALSE}
  MinChunk = 2
  MaxChunk = 4
  Concurrency = 2
  Buffers = 1
  ReadSizes = {1, 4}
  HeaderSize = 2
  TagSize = 1
  BlockData = 2
  Base = 2
  LowDigits = 2
  Nonces <- WrappingNonces
  Faults = TRUE
  None = None
  Zips = {c1, c2}
  ZipSlots = 1
  ZipMaxFiles = 3
  ZipFiles <- ZipSamples
  MaxEntries = 4
  Previews = {c1, c2}
  PsdPieces = 2
INVARIANTS WithinBounds ArchiveWhole
PROPERTIES ImplementsTransfer Served SlotsReturn PsdAnswered
CHECK_DEADLOCK FALSE

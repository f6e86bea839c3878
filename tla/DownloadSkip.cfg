CONSTANTS
  w1 = w1
  w2 = w2
  Workers = {w1, w2}
  FileCount = 1
  RangeFiles = {1}
  Validated = {1}
  SizeOf <- MCSizeOf
  PieceLengthOf <- MCPieceLengthOf
  SmallFile = 2
  Split = 2
  MaxTries = 1
  MaxVersion = 1
  WriteErrors = FALSE
  Kills = TRUE
SPECIFICATION DownloaderSpec
INVARIANTS
  SkippedIsWhole

CONSTANTS
  w1 = w1
  w2 = w2
  Workers = {w1}
  FileCount = 2
  RangeFiles = {2}
  Validated = {2}
  SizeOf <- MCSizeOf
  PieceLengthOf <- MCPieceLengthOf
  SmallFile = 2
  Split = 1
  MaxTries = 1
  MaxVersion = 1
  WriteErrors = FALSE
  Kills = FALSE
SPECIFICATION DownloaderSpec
INVARIANTS
  WorkersLeave

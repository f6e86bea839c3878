CONSTANTS
  FileCount = 2
  RangeFiles = {1}
  Validated = {1}
  SizeOf <- MCSizeOf
  PieceLengthOf <- MCPieceLengthOf
  SmallFile = 2
  w1 = w1
  w2 = w2
  Workers = {w1, w2}
  Split = 2
  MaxTries = 2
  MaxVersion = 2
  WriteErrors = TRUE
  Kills = TRUE
SPECIFICATION DownloaderSpec
SYMMETRY WorkerSymmetry
VIEW DownloaderView
INVARIANTS
  ClaimsOnDisk
  NoMixedVersions
  FlightOwned
  WaitersHaveWorker
PROPERTIES
  ControlKept

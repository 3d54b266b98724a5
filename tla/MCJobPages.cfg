SPECIFICATION JobSpec
CONSTANTS
  PipeSize = 1
  MaxOutput = 2
  MaxWritten = 3
  StdinSize = 2
  TimeLimit = TRUE
  JobTours <- MCJobTours
  JobEnds <- MCJobEnds
  AudioPages = 2
  MaxTakes = 2
  Clips <- MCClips
  Chunk = 2
  MaxSounds = 4
  MaxNodes = 4
  Buffers = 3
  MaxOpened = 2
  Workloads = {"cpu", "memory"}
  MaxCycles = 2
  MaxSpawns = 3
  MaxPercent = 12
  InitialPercent = 8
  StartLevels = {0, 8}
  MaxChanges = 2
  MaxSegment = 4
  MaxDirectory = 9
  Header = 1
  Lines = {2, 6}
  Names = {"a", "b"}
  OldFiles <- MCOldFiles
  MaxRuns = 2
  MaxParts = 3
  FoundFiles <- MCFoundFiles
  MaxSaves = 2
INVARIANTS Inv JobsInv DevicesInv FilesInv OutputUnderstood
PROPERTIES LimitKept JobsEnd
CHECK_DEADLOCK FALSE

SPECIFICATION FairSpec
CONSTANTS
  MaxPacket = 2
  PageSegments = 3
  PipePages = 1
  MaxPackets = 3
  Misflags = {FALSE, TRUE}
  PrintedEntries <- MCPrintedEntries
  FrameCapacity = 1
INVARIANTS
  TypeOK
  FramesWhole
  ReadAheadBounded
  NoOrphans
PROPERTIES
  StreamSpec
  TaskSettles
  EndReported

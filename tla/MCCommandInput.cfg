SPECIFICATION Spec
CONSTANTS
  MaxU64 = 4194303
  TypedNumbers <- MCTypedNumbers
  MaxFields = 4
  MaxPlaylistItems = 3
  DefaultPlaylistItems = 2
  MaxPrinted = 4
  PrintedEntries <- MCPrintedEntries
INVARIANT PlaylistAsAsked
PROPERTY SeekReadsClock

SPECIFICATION Spec
CONSTANTS
  c1 = c1
  c2 = c2
  v1 = v1
  v2 = v2
  NoCommand = NoCommand
  NoChannel = NoChannel
  Shutdown = Shutdown
  Commands <- MCCommands
  Channels <- MCChannels
  MaxWorkers = 2
  MaxTracks = 2
  MaxPrevious = 1
  HistoryLimit = 2
SYMMETRY Symmetry
PROPERTY SessionsApart

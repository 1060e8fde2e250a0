SPECIFICATION Spec
CONSTANTS
  g1 = g1
  g2 = g2
  Guilds <- MCGuilds
  IdModulus = 5
  MaxTracks = 3
  MaxQueue = 2
  HistoryLimit = 1
  PreviewLimit = 2
  PageSize = 2
SYMMETRY Symmetry
INVARIANTS
  TypeOK
  Owned
  GuildsIsolated
  HistoryBounded
  NumbersNameTracks
PROPERTIES
  FreshTrackIds
  TracksKept

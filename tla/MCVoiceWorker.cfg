SPECIFICATION FairSpec
CONSTANTS
  MaxTracks = 2
  MaxRewinds = 1
  MaxSessions = 2
  HistoryLimit = 1
  DecoderCap = 2
  TrackFrames = 2
  Timed <- MCTimed
  Volumes <- MCVolumes
  FullVolume = 100
INVARIANTS
  TypeOK
  SlotAgrees
  SpeakingMirrored
  DecoderMatches
  IdleArmed
PROPERTIES
  OnlySeekJumps
  JukeboxSpec
  QueueAdvances

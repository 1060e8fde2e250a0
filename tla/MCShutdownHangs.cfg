SPECIFICATION FairSpec
CONSTANTS
  g1 = g1
  g2 = g2
  v1 = v1
  v2 = v2
  c1 = c1
  c2 = c2
  c3 = c3
  NoChannel = NoChannel
  NoCall = NoCall
  Shutdown = Shutdown
  Guilds <- TwoGuilds
  Channels <- OneChannel
  Calls <- TwoCalls
  MaxId = 4
  EventCap = 1
  CommandCap = 1
  Updates <- Reliable
PROPERTY ShutdownCompletes
CHECK_DEADLOCK FALSE

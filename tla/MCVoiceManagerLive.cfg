SPECIFICATION FairSpec
CONSTANTS
  g1 = g1
  g2 = g2
  v1 = v1
  v2 = v2
  c1 = c1
  c2 = c2
  c3 = c3
  NoChannel = NoChannel
  NoCall = NoCall
  Shutdown = Shutdown
  Guilds <- OneGuild
  Channels <- OneChannel
  Calls <- ThreeCalls
  MaxId = 6
  EventCap = 4
  CommandCap = 1
  Updates <- Reliable
INVARIANT ShutdownDisconnects
PROPERTIES
  CallsAnswered
  ShutdownCompletes
  GatewayResponsive

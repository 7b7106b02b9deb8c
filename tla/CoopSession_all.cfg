SPECIFICATION FairSpec
CONSTANTS
  Host = Host
  Client = Client
  Versions = {1, 2}
  Seeds <- MaybeForced
  Rolls <- AnyRoll
  MaxMazes = 2
INVARIANTS
  SessionInv
  ReadinessIsMutual
  SameMazeIfForced
PROPERTIES
  HostSeedWins
  BothGetReady
CHECK_DEADLOCK FALSE

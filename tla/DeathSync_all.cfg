SPECIFICATION FairSpec
CONSTANTS
  Host = Host
  Client = Client
  MaxMazes = 2
INVARIANTS
  DeathInv
  AnnouncedOnce
  AnnouncedByAuthority
PROPERTIES
  DeathIsAnnounced
  DeathIsApplied
CHECK_DEADLOCK FALSE

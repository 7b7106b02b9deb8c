SPECIFICATION FairSpec
CONSTANTS
  Worlds = {w1, w2}
  NoWorld = NoWorld
  MaxMazes = 2
  MaxSteps = 2
  MaxLevels = 3
  MaxBegins = 3
INVARIANTS
  PuppetInv
  NoDeadPuppetUsed
PROPERTIES
  PuppetKeepsUp
CHECK_DEADLOCK FALSE

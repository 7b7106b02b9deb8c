SPECIFICATION FairSpec
CONSTANTS
  Host = Host
  Client = Client
  Ids = {i1, i2}
  MaxRuns = 1
  MaxKeyframes = 1
INVARIANTS
  PickupsInv
PROPERTIES
  AuthoritySpec
  MirrorConverges
  CollectedIsHidden
CHECK_DEADLOCK FALSE

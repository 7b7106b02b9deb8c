SPECIFICATION FairSpec
CONSTANTS
  Host = Host
  Client = Client
  NoAddr = NoAddr
  SeqSpace = 5
  MayRestart = {}
  MaxReliable <- TwoByClient
  MaxUnreliable <- OneByClient
  MaxDups = 1
  MaxRestarts = 0
INVARIANTS
  TypeOK
  NoBlobLost
PROPERTIES
  LinkSpec
  EventuallyHanded
  PendingDrains
CHECK_DEADLOCK FALSE

SPECIFICATION InputSpec
CONSTANTS
  NumCheese = 4
  IdSpace = 4
  IdStep = 3
  Pickups = {p1, p2, p3}
  Base = 2
  CheeseHashes <- AllCheeseHashes
  Cells <- TwoCells
  PickupHashes <- CollidingHashes
  FrameLists <- UpToTwoFrames
  Messages <- MarkedMessages
  Batches <- BitBatches
INVARIANTS
  RegistryIsSound
  EachPickupHasOneId
  PickupIdsAgree
  DatagramIsParsed
  FieldsSurvive
  BatchSurvives
CHECK_DEADLOCK FALSE

SPECIFICATION Spec
CONSTANTS
  Host = host
  Client = client
  NumCheese = 2
  IdSpace = 4
  IdStep = 3
  HashOf <- Colliding
  MaxMazes = 2
INVARIANT CountedOnce
INVARIANT AnnouncedByTaker
CHECK_DEADLOCK FALSE

SPECIFICATION FairSpec
CONSTANTS
  Host = host
  Client = client
  NumCheese = 3
  IdSpace = 4
  IdStep = 3
  HashOf <- Distinct
  MaxMazes = 1
INVARIANTS
  CheeseInv
PROPERTIES
  TakeIsReplayed
CHECK_DEADLOCK FALSE

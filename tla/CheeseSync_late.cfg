SPECIFICATION Spec
CONSTANTS
  Host = host
  Client = client
  NumCheese = 2
  IdSpace = 4
  IdStep = 3
  HashOf <- Distinct
  MaxMazes = 1
INVARIANT SameCheeseGone
CHECK_DEADLOCK FALSE

SPECIFICATION FairSpec
CONSTANTS
  Enemies = {e1, e2}
  Locals = {l1}
  Archetype <- OneArchetype
  MaxRetries = 1
  MaxIds = 2
  MaxMazes = 1
  MaxStates = 1
INVARIANTS
  EnemyInv
  NeverResurrected
PROPERTIES
  EnemyIsShown
CHECK_DEADLOCK FALSE

SPECIFICATION FairSpec
CONSTANTS
  Host = Host
  Client = Client
  None = None
  Seeds = {s1, s2}
  Params = {a, b}
  RegenPaths = {"function", "reload", "none"}
INVARIANTS
  VerdictInv
PROPERTIES
  ClientHeals
  VerdictComes
CHECK_DEADLOCK FALSE

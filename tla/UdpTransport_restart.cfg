SPECIFICATION Spec
CONSTANTS
  Host = Host
  Client = Client
  NoAddr = NoAddr
  SeqSpace = 2
  MayRestart = {Host, Client}
  MaxReliable <- TwoAndOne
  MaxUnreliable <- OneByHost
  MaxDups = 1
  MaxRestarts = 1
INVARIANTS
  AtMostOnce
  KeptOverRestarts
CHECK_DEADLOCK FALSE

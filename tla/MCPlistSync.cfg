CONSTANTS
  Clients = {c1, c2}
  c1 = c1
  c2 = c2
  Path = {"a", "b"}
  MaxLen = 2
  MaxActs = 2
  Acts = {"add", "del", "move", "play", "clear", "desync", "load", "rm", "mod"}
SPECIFICATION SyncFairSpec
INVARIANTS
  ViewAgrees
PROPERTIES
  Converges
CHECK_DEADLOCK FALSE

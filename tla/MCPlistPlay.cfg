CONSTANTS
  Path = {"a", "b", "x"}
  Sound = {"a", "b"}
  Directory <- OneDirectory
  MaxItems = 2
  MaxNv = 3
  Repeats = {"off", "all", "one"}
  Tracked = TRUE
  Ops = {"play", "next", "prev", "stop", "look", "add", "insert",
         "invalidate", "repeat", "rename"}
SPECIFICATION Spec
INVARIANTS
  NvExact
  NoFault
PROPERTIES
  CurrentKept
CHECK_DEADLOCK FALSE

CONSTANTS
  Path = {"a", "x"}
  Sound = {"a"}
  Directory <- SmallDirectory
  MaxItems = 3
  MaxNv = 3
  Repeats = {"off", "all"}
  Tracked = FALSE
  Ops = {"playstale", "playfile", "playfirst", "next", "prev", "look",
         "remove", "removefiles", "move", "invalidate", "repeat", "shuffle"}
SPECIFICATION Spec
INVARIANTS
  NvNotLow
PROPERTIES
  NextIsValid
  RepeatPlaysOn
CHECK_DEADLOCK FALSE

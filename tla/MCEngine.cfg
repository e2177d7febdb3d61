CONSTANTS
  BufSize = 1
  Chunk = 1
  OpenMayFail = TRUE
  Params = {"a", "b"}
  Song <- ThreeSongs
  Bad = {2}
  PcmSize = 1
  Growth <- Doubled
  SeekMayFail = TRUE
  Slow = {"a"}
  Commands = {"play", "stop", "next", "prev", "seek", "jump", "pause", "unpause"}
  MaxCmds = 2
SPECIFICATION FairSpec
INVARIANTS
  PlayedOut
  SoundInPlace
  RightParameters
  NothingLeft
PROPERTIES
  SkipKept
  StopEndsOrIsLost
  PlayEnds
CHECK_DEADLOCK FALSE

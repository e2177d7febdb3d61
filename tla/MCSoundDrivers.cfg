CONSTANTS
  NE = "LE"
  Compiled <- Builds
  Room = 4
  MaxPlay = 4
  MaxGiven = 9
  Chunk = 3
  BufSize = 5
  Period = 2
SPECIFICATION FairSpec
INVARIANTS
  SoundKept
  ChannelsInStep
PROPERTIES
  CallsEnd
CHECK_DEADLOCK FALSE

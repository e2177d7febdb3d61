CONSTANTS
  BufSize = 2
  Chunk = 2
  OpenMayFail = TRUE
  Batch = 3
  MaxPos = 3
  MaxStreams = 2
  MaxPauses = 1
  UseCallback = TRUE
SPECIFICATION FairSpec
INVARIANTS
  NoStaleSound
  SoundAccounted
  TimeTracksSound
PROPERTIES
  IsSoundStream
  CallsReturn

CONSTANTS
  Frames = 9
  FrameBytes = 3
  FrameLens <- Lengths
  Rate = 4
  BufLen = 4
  MaxSeeks = 2
  MaxFailed = 2
  InBuf = 5
  Guard = 1
  AacBuf = 5
  Header = 2
  Piece = 2
  Codecs <- Decoders
  Damage <- Damages
SPECIFICATION FairSpec
INVARIANTS
  SoundInOrder
  
  EndIsEnd
PROPERTIES
  CallsEnd
CHECK_DEADLOCK FALSE

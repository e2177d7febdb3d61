CONSTANTS
  BufSize = 4
  Char <- Chars
  Name <- Names
  File <- Files
  MaxLen = 12
SPECIFICATION Spec
INVARIANTS
  PlaceIsRating
CHECK_DEADLOCK FALSE

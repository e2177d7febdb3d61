SPECIFICATION Spec
CONSTANTS
  Path = {f, g}
  N = 2
  Ratings = {3}
  MaxTags = 3
  Second <- MCSecond
  MaxCalls = 4
INVARIANTS
  
  RatingTrue
PROPERTIES
  ServedInTurn
CHECK_DEADLOCK FALSE
SYMMETRY MCSymmetry

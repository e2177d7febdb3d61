SPECIFICATION FairSpec
CONSTANTS
  c1 = c1
  c2 = c2
  Conn = {c1, c2}
  CLIENTS_MAX = 1
  Cap = 3
  Commands <- MCCommands
  MaxCmds = 1
  MaxEvents = 1
  Mortal = {c1}
  MaySignal = TRUE
INVARIANTS
  EventsInOrder
  WholeMessages
  QueueIsOwn
PROPERTIES
  Answered
CHECK_DEADLOCK FALSE

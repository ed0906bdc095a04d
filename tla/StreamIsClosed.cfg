SPECIFICATION FairSpec
CONSTANTS
  MaxRounds = 1
  EventCap = 1
  StreamCap = 1
  MaxChunks = 3
  Indices = {0}
PROPERTIES
  StreamIsClosed
\* A turn comes to its end.
CHECK_DEADLOCK FALSE

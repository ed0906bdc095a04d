\* Two rounds of up to two tool calls, short channels, a client that may leave,
\* fair goroutines and tools that return or hang.
SPECIFICATION FairSpec
CONSTANTS
  MaxRounds = 2
  EventCap = 2
  StreamCap = 1
  MaxChunks = 3
  Indices = {0, 1}
INVARIANTS
  TypeOK
  RequestsWellFormed
  ResultsFollowCalls
  NoToolOutlivesItsRound
  ErrorMeansNotStored
PROPERTIES
  KeepsEventPromise
  TurnEnds
\* A turn comes to its end.
CHECK_DEADLOCK FALSE

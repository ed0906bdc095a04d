\* Three attempts as in the program, then replies of up to three events with text
\* and deltas of two tool calls.
SPECIFICATION FairSpec
CONSTANTS
  MaxAttempts = 3
  MaxEvents = 3
  Indices = {0, 1}
INVARIANTS
  TypeOK
  RepeatedOnlyWhileTransient
  TextIsShownOnce
  CallsAreAssembled
PROPERTIES
  CancelEndsCall
\* A call comes to its end.
CHECK_DEADLOCK FALSE

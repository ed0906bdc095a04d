SPECIFICATION Spec
CONSTANTS
  MaxAttempts = 3
  MaxEvents = 0
  Indices = {0}
INVARIANT
  TransientIsRetried
\* A call comes to its end.
CHECK_DEADLOCK FALSE

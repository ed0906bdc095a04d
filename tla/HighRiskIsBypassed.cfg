\* One turn with a style processor, and responses of every risk.
SPECIFICATION Spec
CONSTANTS
  TurnIds = {"t1"}
  Items = {"step"}
  Structures <- SomeStructures
  Measures <- SomeMeasures
  RingSize = 2
  MaxMeasured = 1
INVARIANTS
  HighRiskIsBypassed
\* Turns come to their end.
CHECK_DEADLOCK FALSE

\* Two turns at the same time with turns of other sessions, over a ring of two slots
\* that wraps around.
SPECIFICATION Spec
CONSTANTS
  TurnIds = {"t1", "t2"}
  Items = {"step"}
  Structures <- SomeStructures
  Measures <- SomeMeasures
  RingSize = 2
  MaxMeasured = 3
INVARIANTS
  TypeOK
  StyledIsChecked
  EmptyOutputMeansNoAnswer
  RememberedIsStreamed
  MetricsExplainStyle
  AnsweredIsMeasured
PROPERTIES
  IsTheLastTurns
\* Turns come to their end.
CHECK_DEADLOCK FALSE

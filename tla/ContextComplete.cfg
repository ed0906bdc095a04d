\* The capacities the program runs with: NewShortTerm(50) and a window of 20.
SPECIFICATION Spec
CONSTANTS
  MaxSize = 50
  MaxHistory = 20
  MaxMessages = 70
INVARIANT ContextComplete
CHECK_DEADLOCK FALSE

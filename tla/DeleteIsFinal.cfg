SPECIFICATION Spec
CONSTANTS
  s1 = s1
  r1 = r1
  r2 = r2
  Ids = {s1}
  Requests = {r1, r2}
  NoSession = NoSession
  DiskMayFail = FALSE
  MaxSize = 6
  MaxHistory = 4
  Talkative = s1
  Length = 2
  MaxMessages <- Conversations
  MaxRestarts = 1
INVARIANTS
  DeleteIsFinal
\* A server that is down and not started again does nothing.
CHECK_DEADLOCK FALSE

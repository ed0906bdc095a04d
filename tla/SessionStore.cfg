\* Two sessions and two handlers at a time, one restart, a disk that may fail, with
\* every interleaving of creating, deleting, turns and shutdown. One session has a
\* conversation of four turns, so that its history (capacity 6, threshold 4) is drained
\* and compressed twice; on the other one only requests that are invalid get a turn.
SPECIFICATION Spec
CONSTANTS
  s1 = s1
  s2 = s2
  r1 = r1
  r2 = r2
  Ids = {s1, s2}
  Requests = {r1, r2}
  NoSession = NoSession
  DiskMayFail = TRUE
  MaxSize = 6
  MaxHistory = 4
  Talkative = s1
  Length = 8
  MaxMessages <- Conversations
  MaxRestarts = 1
INVARIANTS
  TypeOK
  OneTurnPerSession
  AnsweredIsDurable
  NothingReadIsStale
  SnapshotIsNotTorn
PROPERTIES
  EverySessionIsAMemory
SYMMETRY Symmetry
\* A server that is down and not started again does nothing.
CHECK_DEADLOCK FALSE

\* A small capacity (threshold 6, drain count 3, rounded to 2), so that many drains,
\* with every outcome of Compress, happen in one conversation.
SPECIFICATION Spec
CONSTANTS
  MaxSize = 8
  MaxHistory = 4
  MaxMessages = 20
INVARIANTS
  TypeOK
  NoSilentLoss
  SummaryPrecedesHistory
  DrainKeepsUp
  SavedIsWhole
  PromptAlternates
\* A session that crashed before its first save never comes back.
CHECK_DEADLOCK FALSE

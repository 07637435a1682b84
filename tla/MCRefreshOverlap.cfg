SPECIFICATION RefreshSpec
CONSTANTS
  RefreshCalls = {c1, c2}
  NoCall = NoCall
  MaxTokens = 4
INVARIANTS LoginKept
\* A session that has ended on both sides stays as it is.
CHECK_DEADLOCK FALSE

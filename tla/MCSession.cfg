SPECIFICATION FairSpec
CONSTANTS
  MaxSessions = 3
  Devices = {d1, d2}
  Requests = {r1, r2}
  RedisFails = TRUE
  NoSession = NoSession
  None = None
  NoDevice = NoDevice
INVARIANTS OneActive CacheReportsLastTx
PROPERTIES EndedStaysEnded UndoesTheLogin CacheHeals
\* Every session may be issued and ended, and then nothing is left to do.
CHECK_DEADLOCK FALSE

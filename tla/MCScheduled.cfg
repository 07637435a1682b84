SPECIFICATION FairSpec
CONSTANTS
  Messages = {m1, m2}
  Servers = {s1, s2}
  NoServer = NoServer
  Whens = {0}
  Day = 2
  TooLate = 1
  Batch = 1
  Edits = TRUE
  MaxTime = 2
  MaxText = 2
  MaxCrashes = 1
INVARIANTS OneShotOnce SentAsListed LateByOne
PROPERTIES DailyMovesOn DueIsHandled
\* Messages come to an end and the clock is bounded.
CHECK_DEADLOCK FALSE

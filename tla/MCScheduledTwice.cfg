SPECIFICATION Spec
CONSTANTS
  Messages = {m1}
  Servers = {s1, s2}
  NoServer = NoServer
  Whens = {0, 1}
  Day = 2
  TooLate = 1
  Batch = 1
  Edits = FALSE
  MaxTime = 3
  MaxText = 2
  MaxCrashes = 0
INVARIANTS OncePerOccurrence
\* Messages come to an end and the clock is bounded.
CHECK_DEADLOCK FALSE

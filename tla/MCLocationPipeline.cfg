SPECIFICATION FairSpec
CONSTANTS
  MaxFix = 4
  Odd = {2}
  Malformed = {1}
  BatchSize = 2
  MaxQueue = 2
  Requests = {q1, q2}
  NoRequest = NoRequest
  MaxEntries = 3
  MaxLen = 2
  TakeCount = 2
  Workers = {w1, w2}
  MaxFaults = 1
INVARIANTS NothingVanishes NewestWins
PROPERTIES FixSettles IsRegister
\* Everything measured may be settled, and then nothing is left to do.
CHECK_DEADLOCK FALSE

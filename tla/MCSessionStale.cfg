SPECIFICATION Spec
CONSTANTS
  MaxSessions = 3
  Devices = {d1, d2}
  Requests = {r1, r2}
  RedisFails = FALSE
  NoSession = NoSession
  None = None
  NoDevice = NoDevice
INVARIANTS LatestLoginServed
CHECK_DEADLOCK FALSE

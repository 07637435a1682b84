SPECIFICATION Spec
CONSTANTS
  Friends = {f1}
  MaxPress = 1
  MaxSends = 2
  MaxFaults = 0
  EarlyCancel = TRUE
INVARIANTS CancelIsFinal
CHECK_DEADLOCK FALSE

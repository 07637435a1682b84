SPECIFICATION FairSpec
CONSTANTS
  Friends = {f1, f2}
  MaxPress = 2
  MaxSends = 2
  MaxFaults = 1
  EarlyCancel = FALSE
INVARIANTS SentReachesSomebody CancelIsFinal CancelReaches NoNewsAfterEnd
PROPERTIES IsAlarm ResolveCloses EndIsHeard
\* The user need not press again.
CHECK_DEADLOCK FALSE

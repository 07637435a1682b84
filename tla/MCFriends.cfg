SPECIFICATION FairSpec
CONSTANTS
  UserA = alice
  UserB = bob
  Calls = {c1, c2}
  NoCall = NoCall
  MaxRequests = 2
  Faults = TRUE
INVARIANTS BothWays
PROPERTIES IsFriendship FriendsByConsent CallsEnd

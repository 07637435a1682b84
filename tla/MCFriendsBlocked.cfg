SPECIFICATION Spec
CONSTANTS
  UserA = alice
  UserB = bob
  Calls = {c1, c2}
  NoCall = NoCall
  MaxRequests = 1
  Faults = FALSE
INVARIANT BlockedAreNoFriends

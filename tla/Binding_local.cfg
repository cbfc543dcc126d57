SPECIFICATION Spec
CONSTANTS
  Restaurants = {r1}
  NoRestaurant = NoRestaurant
  Unset = Unset
  Garbage = {2, 3}
  FirstStatus = 2
  HttpFaults = TRUE
  DbFaults = FALSE
  MaxProvisions = 1
  MaxUnbinds = 1
  MaxRemovals = 0
  MaxTroubles = 0
CONSTRAINT Alone
INVARIANT UnbindReachesBackend
CHECK_DEADLOCK FALSE

SPECIFICATION FairSpec
CONSTANTS
  Restaurants = {r1}
  NoRestaurant = NoRestaurant
  Unset = Unset
  Garbage = {2, 3}
  FirstStatus = 0
  HttpFaults = FALSE
  DbFaults = TRUE
  MaxProvisions = 1
  MaxUnbinds = 0
  MaxRemovals = 1
  MaxTroubles = 2
CONSTRAINT Staged
CHECK_DEADLOCK FALSE
PROPERTIES BindingSettles

\* A second version is announced while the first is fetched.
CONSTANTS
  MaxVersion = 2
  HttpFaults = FALSE
  DbFaults = FALSE
  MaxUnbinds = 0
  MaxLosses = 0
  MaxRestarts = 0
SPECIFICATION Spec
INVARIANTS CurrentIsComplete
CHECK_DEADLOCK FALSE

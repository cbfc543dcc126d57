\* Two versions, every fault, a refused request for the shadow, and an unbinding,
\* losses or a restart at any step.
CONSTANTS
  MaxVersion = 2
  HttpFaults = TRUE
  DbFaults = TRUE
  MaxUnbinds = 1
  MaxLosses = 2
  MaxRestarts = 1
SPECIFICATION FairSpec
CONSTRAINT Staged
INVARIANTS TypeOK CurrentIsFetched UnboundIsEmpty
PROPERTIES MenuSettles
CHECK_DEADLOCK FALSE
